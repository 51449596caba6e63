---------------------------- MODULE MCMatchBroker ----------------------------
(* Instances of MatchBroker for TLC: one user, himself, a twin he nearly looks *)
(* like, and a stranger.                                                       *)
EXTENDS MatchBroker, TLC

CONSTANTS alice, aliceUid, bobUid

AliceUid == alice :> aliceUid

AllFaces == {"hers", "twin", "stranger"}

Similarity ==
  LET near == {{"hers", "twin"}}
  IN  [f \in AllFaces |-> [g \in AllFaces |->
         CASE f = g -> 3 [] {f, g} \in near -> 2 [] OTHER -> 0]]

Policy == [sudo |-> 3, session |-> 2]

Tpl(id, face, scope) == [id |-> id, face |-> face, scope |-> scope]

EnrolledTemplates ==
  {Tpl(0, "hers", "both"), Tpl(1, "stranger", "session"), Tpl(2, "hers", "sudo")}

EnrolledContents ==
  {{Tpl(0, "hers", "both"), Tpl(1, "stranger", "session")},
   {Tpl(2, "hers", "sudo")}}

Good == [rgbDecodes |-> TRUE, irDecodes |-> TRUE, rgbFaces |-> 1, irFaces |-> 1,
         face |-> "hers", synced |-> TRUE, aligned |-> TRUE]

Ask(kind, uid, scope, shows) ==
  [kind |-> kind, uid |-> uid, user |-> alice, scope |-> scope, shows |-> shows]

\* Frames with one flaw, or two of which the first decides.
Flawed ==
  {[Good EXCEPT !.synced = FALSE, !.rgbFaces = 2],
   [Good EXCEPT !.irDecodes = FALSE],
   [Good EXCEPT !.rgbFaces = 0, !.irFaces = 0],
   [Good EXCEPT !.rgbFaces = 2],
   [Good EXCEPT !.irFaces = 0],
   [Good EXCEPT !.irFaces = 2],
   [Good EXCEPT !.aligned = FALSE]}

\* Her own requests for her session, root's for sudo, and some that others or
\* the wrong kind of peer send.
SomeRequests ==
       {Ask("pair", aliceUid, "session", e) : e \in Flawed \cup {Good}}
  \cup {Ask("frame", aliceUid, "session", e) :
          e \in {Good, [Good EXCEPT !.face = "twin"],
                [Good EXCEPT !.rgbFaces = 0], [Good EXCEPT !.rgbFaces = 2]}}
  \cup {Ask("pair", Root, "sudo", [Good EXCEPT !.face = "twin"]),
        Ask("frame", Root, "sudo", Good),
        Ask("match", Root, "sudo", Good),
        Ask("match", aliceUid, "session", Good),
        Ask("frame", bobUid, "session", Good),
        Ask("frame", None, "session", Good)}

Threadwise == Permutations(Threads)

\* The variables the steps read: without the guard's history.
stepView == <<now, peer, failure, required, file, task>>

\* Bound: while a request with anything unusual is worked on,
\* any other is her own frame showing her.
Plain == Ask("frame", aliceUid, "session", Good)

OneUnusual ==
  \A s, t \in Threads :
    s # t /\ task[s] # None /\ task[t] # None
    => Plain \in {task[s].req, task[t].req}

=============================================================================
