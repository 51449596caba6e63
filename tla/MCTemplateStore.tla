--------------------------- MODULE MCTemplateStore ---------------------------
(* Instances of TemplateStore for TLC. *)
EXTENDS TemplateStore

CONSTANTS a, b   \* two samples

Tpl(id, s) == [id |-> id, sample |-> s]

\* A fresh user, and one whose template 1 was removed earlier.
CountedFiles ==
  {EmptyStore, [templates |-> {Tpl(0, a)}, next_id |-> 2]}

\* Also a file written before next_id was persisted, loaded with next_id 0.
LegacyFiles ==
  {[templates |-> {Tpl(0, a), Tpl(1, b)}, next_id |-> 0]}

AnyFiles == CountedFiles \cup LegacyFiles

\* The variables the steps read: without the history of answers.
fileView == <<file, onDisk, tmp, pid, worker>>

\* Bound: one rename at a time is waiting for its directory to be synced.
OneUnsynced == \A u \in Users : Cardinality(onDisk[u]) <= 2

=============================================================================
