-------------------------- MODULE TemplateRegistry --------------------------
(***************************************************************************)
(* What facegate-brokerd promises about the templates of each user, without *)
(* threads, temporary files or loads and saves: additions and deletions are *)
(* atomic, an addition takes an id above every id the registry has ever     *)
(* counted, and an acknowledged change survives a power loss.               *)
(***************************************************************************)
EXTENDS Naturals

CONSTANTS Users, Samples, MaxId, InitialFiles

Ids      == 0 .. MaxId
Template == [id : Ids, sample : Samples]

VARIABLES
  registry,   \* registry[u]: the templates of u and the counter of their ids
  survivors   \* survivors[u]: what may be left of it after a power loss

vars == <<registry, survivors>>

Init ==
  /\ registry \in [Users -> InitialFiles]
  /\ survivors = [u \in Users |-> {registry[u]}]

Change(u, content) ==
  /\ registry' = [registry EXCEPT ![u] = content]
  /\ survivors' = [survivors EXCEPT ![u] = @ \cup {content}]

\* A new template gets an id that is free: not below the counter and above
\* every id in use, except that the last id may repeat.
Add(u, t) ==
  /\ t.id >= registry[u].next_id
  /\ \A other \in registry[u].templates : other.id < t.id \/ t.id = MaxId
  /\ \E next \in Ids :
       /\ next > t.id \/ (t.id = MaxId /\ next = MaxId)
       /\ Change(u, [templates |-> registry[u].templates \cup {t},
                     next_id |-> next])

\* A deletion removes exactly the templates with the id, and does not give
\* the id back.
Delete(u, id) ==
  /\ \E t \in registry[u].templates : t.id = id
  /\ Change(u, [templates |-> {t \in registry[u].templates : t.id # id},
                next_id |-> registry[u].next_id])

\* The last change is answered as done, and from then on survives.
Settle(u) ==
  /\ survivors' = [survivors EXCEPT ![u] = {registry[u]}]
  /\ UNCHANGED registry

\* A power loss undoes changes that were not answered.
PowerLoss ==
  \E left \in [Users -> UNION {survivors[u] : u \in Users}] :
    /\ \A u \in Users : left[u] \in survivors[u]
    /\ registry' = left
    /\ survivors' = [u \in Users |-> {left[u]}]

Next ==
  \/ \E u \in Users, t \in Template : Add(u, t)
  \/ \E u \in Users, id \in Ids : Delete(u, id)
  \/ \E u \in Users : Settle(u)
  \/ PowerLoss

Spec == Init /\ [][Next]_vars

=============================================================================
