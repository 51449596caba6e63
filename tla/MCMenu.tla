------------------------------- MODULE MCMenu -------------------------------
(* Instances of Menu for TLC. *)
EXTENDS Menu, TLC

Off == [body |-> "b1", line |-> FALSE]
On  == [body |-> "b1", line |-> TRUE]

\* The session service comes with the vendor's file only.
VendorFiles == "sudo" :> None @@ "kde" :> Off

\* Nothing switched on.
SomeFiles == {"sudo" :> Off @@ "kde" :> None}

\* Of those launched at once, one that edits PAM files and one that does not.
SomeItems == {"SudoToggle", "Status"} \cup NeedsUser \cup NeedsYes \cup {"SessionToggle"}

\* Bound: only the order of seconds matters, so the clock stays behind the events.
ClockBehind == now < events \/ now = 0

\* Bound: there is a last event only once a file has as many backups as are kept.
FullFirst ==
  events = MaxEvents =>
    \E f \in Files : Cardinality({s \in Seconds : backup[f][s] # None}) >= MaxBackups

=============================================================================
