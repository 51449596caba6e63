--------------------------- MODULE TemplateStore ---------------------------
(***************************************************************************)
(* The per-user template files of facegate-brokerd                         *)
(* (crates/facegate_core/src/storage.rs, and the two admin handlers of     *)
(* crates/facegate_brokerd/src/main.rs that change them).                  *)
(*                                                                         *)
(* Every admin request runs on a blocking thread of the broker: it loads   *)
(* embeddings.json, computes the new content in memory and installs it     *)
(* with the create / write+fsync / rename / fsync-directory sequence of    *)
(* write_json_atomic.  No lock is held from the load to the rename.        *)
(* The broker may crash between any two of these steps and is restarted    *)
(* by systemd; a power loss may also undo a rename whose directory has     *)
(* not been synced.                                                        *)
(*                                                                         *)
(* Abstracted: the label, the scope, the timestamp and the embedding of a  *)
(* template are one value of Samples; the Vec of templates is a set (its   *)
(* order is never observed by an operation of this module).  Directory     *)
(* creation and the permission checks appear as the nondeterministic       *)
(* failure of the step they belong to.                                     *)
(***************************************************************************)
EXTENDS Naturals, FiniteSets, FiniteSetsExt

CONSTANTS
  Users,          \* user names that pass validate_username
  Samples,        \* what a template holds besides its id
  Workers,        \* threads of the broker that serve admin requests
  Pids,           \* process ids a broker process may get
  MaxId,          \* u32::MAX, the value at which next_id saturates
  InitialFiles,   \* contents embeddings.json may have when the broker starts
  Overlap,        \* may a second admin request start before the first ends?
  Idle,           \* a thread without a request
  Absent,         \* no temporary file of that name
  Partial         \* a file created but not completely written

Ids      == 0 .. MaxId
Template == [id : Ids, sample : Samples]

\* UserTemplates: the content of one embeddings.json.
Store == [templates : SUBSET Template, next_id : Ids]

\* UserTemplates::default(), which load returns when there is no file.
EmptyStore == [templates |-> {}, next_id |-> 0]

Steps == {"loaded", "created", "written", "renamed"}
Job   == [op : {"enroll", "remove"}, user : Users, tpl : Template,
          store : Store, step : Steps]

ASSUME StoreAssumption ==
  /\ MaxId \in Nat
  /\ Overlap \in BOOLEAN
  /\ InitialFiles \subseteq Store

ASSUME MarkersAssumption ==
  /\ Idle \notin Job
  /\ Absent \notin Store
  /\ Partial \notin Store
  /\ Absent # Partial

VARIABLES
  file,       \* file[u]: embeddings.json of u, as the running system reads it
  onDisk,     \* onDisk[u]: contents a power loss may leave in embeddings.json
  tmp,        \* tmp[u][p]: the file .embeddings.json.<p>.tmp in u's directory
  pid,        \* process id of the running broker
  worker,     \* worker[w]: the request thread w is serving, or Idle
  \* History of what the broker has answered, never read by an action's guard:
  handedOut,  \* handedOut[u]: ids returned by an acknowledged enrollment
  kept,       \* kept[u]: templates acknowledged and not asked to be removed
  gone        \* gone[u]: ids whose removal has been acknowledged

vars == <<file, onDisk, tmp, pid, worker, handedOut, kept, gone>>

-----------------------------------------------------------------------------
(* Arithmetic on ids. *)

\* Slip: no saturation.
UnboundedSucc(n) == n + 1

\* u32::saturating_add(1).
Succ(n) == IF n < MaxId THEN n + 1 ELSE MaxId

LargerOf(a, b) == IF a >= b THEN a ELSE b

MaxIdOf(templates) == Max({t.id : t \in templates})

\* Slip: ids from the number of templates.
LengthAsId(store) == Cardinality(store.templates)

\* Slip: ids from the templates alone, not from next_id.
IgnoringCounter(store) ==
  IF store.templates = {} THEN 0 ELSE Succ(MaxIdOf(store.templates))

\* The id add_template hands out: next_id, raised above every stored id for
\* files written before next_id was persisted.
FreshId(store) ==
  IF store.templates = {}
  THEN store.next_id
  ELSE LargerOf(store.next_id, Succ(MaxIdOf(store.templates)))

\* What add_template saves.
WithTemplate(store, t) ==
  [templates |-> store.templates \cup {t}, next_id |-> Succ(t.id)]

\* Slip: a removal that truncates the list.
DroppingLaterIds(store, id) ==
  [store EXCEPT !.templates = {t \in @ : t.id < id}]

\* What remove_template saves: the other templates, not renumbered.
WithoutId(store, id) ==
  [store EXCEPT !.templates = {t \in @ : t.id # id}]

-----------------------------------------------------------------------------

Busy(w, step) == worker[w] # Idle /\ worker[w].step = step

\* A request may start: always when requests overlap; otherwise the
\* administrator waits for the answer to one command before the next.
MayStart(w) ==
  /\ worker[w] = Idle
  /\ Overlap \/ \A v \in Workers : worker[v] = Idle

Advance(w, step) == worker' = [worker EXCEPT ![w].step = step]

Respond(w) == worker' = [worker EXCEPT ![w] = Idle]

history == <<handedOut, kept, gone>>

\* Init: the files of an installation that may have been used before, all of
\* them on disk, their templates returned by earlier enrollments; no temporary
\* file; no request.
Init ==
  /\ file \in [Users -> InitialFiles]
  /\ onDisk = [u \in Users |-> {file[u]}]
  /\ tmp = [u \in Users |-> [p \in Pids |-> Absent]]
  /\ pid \in Pids
  /\ worker = [w \in Workers |-> Idle]
  /\ handedOut = [u \in Users |-> {t.id : t \in file[u].templates}]
  /\ kept = [u \in Users |-> file[u].templates]
  /\ gone = [u \in Users |-> {}]

\* enroll up to the load: the new content is computed from the file as it is
\* now, whatever other threads are about to install.
LoadEnroll(w, u, s) ==
  LET t == [id |-> FreshId(file[u]), sample |-> s]
  IN  /\ MayStart(w)
      /\ worker' = [worker EXCEPT ![w] =
           [op |-> "enroll", user |-> u, tpl |-> t,
            store |-> WithTemplate(file[u], t), step |-> "loaded"]]
      /\ UNCHANGED <<file, onDisk, tmp, pid, history>>

\* remove up to the load, for an id that is present (for any other id the
\* handler answers an error and changes nothing).  From here on the template
\* is no longer promised to be kept.
LoadRemove(w, u, t) ==
  /\ MayStart(w)
  /\ t \in file[u].templates
  /\ worker' = [worker EXCEPT ![w] =
       [op |-> "remove", user |-> u, tpl |-> t,
        store |-> WithoutId(file[u], t.id), step |-> "loaded"]]
  /\ kept' = [kept EXCEPT ![u] = {k \in @ : k.id # t.id}]
  /\ UNCHANGED <<file, onDisk, tmp, pid, handedOut, gone>>

\* Slip: O_TRUNC in place of O_EXCL.
CreateTmpTruncating(w) ==
  /\ Busy(w, "loaded")
  /\ tmp' = [tmp EXCEPT ![worker[w].user][pid] = Partial]
  /\ Advance(w, "created")
  /\ UNCHANGED <<file, onDisk, pid, history>>

\* open(O_CREAT | O_EXCL) of the temporary file, whose name holds the pid of
\* the broker and nothing that tells its threads apart.
CreateTmp(w) ==
  /\ Busy(w, "loaded")
  /\ tmp[worker[w].user][pid] = Absent
  /\ tmp' = [tmp EXCEPT ![worker[w].user][pid] = Partial]
  /\ Advance(w, "created")
  /\ UNCHANGED <<file, onDisk, pid, history>>

\* The open fails: the name is taken, by another thread or by a file a crash
\* left behind, or the directory cannot be used.  The file in the way stays.
CreateFails(w) ==
  /\ Busy(w, "loaded")
  /\ Respond(w)
  /\ UNCHANGED <<file, onDisk, tmp, pid, history>>

\* write_all, sync_all and set_permissions succeed.
WriteTmp(w) ==
  /\ Busy(w, "created")
  /\ tmp' = [tmp EXCEPT ![worker[w].user][pid] = worker[w].store]
  /\ Advance(w, "written")
  /\ UNCHANGED <<file, onDisk, pid, history>>

\* Writing or renaming fails: the handler removes the temporary file, ignores
\* whether that worked, and answers an error.
InstallFails(w) ==
  /\ Busy(w, "created") \/ Busy(w, "written")
  /\ tmp' \in {[tmp EXCEPT ![worker[w].user][pid] = left] : left \in {Absent, Partial}}
  /\ Respond(w)
  /\ UNCHANGED <<file, onDisk, pid, history>>

\* rename over embeddings.json: visible at once, durable only when the
\* directory is synced.
Rename(w) ==
  LET u == worker[w].user
  IN  /\ Busy(w, "written")
      /\ file' = [file EXCEPT ![u] = tmp[u][pid]]
      /\ onDisk' = [onDisk EXCEPT ![u] = @ \cup {tmp[u][pid]}]
      /\ tmp' = [tmp EXCEPT ![u][pid] = Absent]
      /\ Advance(w, "renamed")
      /\ UNCHANGED <<pid, history>>

\* The answer Enrolled or Removed, noted in the history.
Acknowledge(w) ==
  LET u == worker[w].user
      t == worker[w].tpl
  IN  /\ Respond(w)
      /\ \/ /\ worker[w].op = "enroll"
            /\ handedOut' = [handedOut EXCEPT ![u] = @ \cup {t.id}]
            /\ kept' = [kept EXCEPT ![u] = @ \cup {t}]
            /\ UNCHANGED gone
         \/ /\ worker[w].op = "remove"
            /\ gone' = [gone EXCEPT ![u] = @ \cup {t.id}]
            /\ UNCHANGED <<handedOut, kept>>

\* Slip: the answer does not wait for the directory.
AnswerUnsynced(w) ==
  /\ Busy(w, "renamed")
  /\ Acknowledge(w)
  /\ UNCHANGED <<file, onDisk, tmp, pid>>

\* The directory is synced and the handler answers Enrolled or Removed.
SyncDir(w) ==
  LET u == worker[w].user
  IN  /\ Busy(w, "renamed")
      /\ onDisk' = [onDisk EXCEPT ![u] = {file[u]}]
      /\ Acknowledge(w)
      /\ UNCHANGED <<file, tmp, pid>>

\* The directory cannot be synced: an error is answered although the rename
\* took effect.
SyncFails(w) ==
  /\ Busy(w, "renamed")
  /\ Respond(w)
  /\ UNCHANGED <<file, onDisk, tmp, pid, history>>

\* Temporary files survive the process that wrote them.  Nothing ever reads
\* their content again, complete or not, so Partial stands for either.
Leftovers ==
  [u \in Users |-> [p \in Pids |->
     IF tmp[u][p] = Absent THEN Absent ELSE Partial]]

\* The broker dies between two steps of its threads and systemd starts it
\* again, under any process id.
Crash(p) ==
  /\ pid' = p
  /\ worker' = [w \in Workers |-> Idle]
  /\ tmp' = Leftovers
  /\ UNCHANGED <<file, onDisk, history>>

\* The machine loses power: of the renames not yet synced, any prefix may
\* have reached the disk.
PowerLoss(p) ==
  /\ pid' = p
  /\ worker' = [w \in Workers |-> Idle]
  /\ \E left \in [Users -> UNION {onDisk[u] : u \in Users}] :
       /\ \A u \in Users : left[u] \in onDisk[u]
       /\ file' = left
       /\ onDisk' = [u \in Users |-> {left[u]}]
  /\ tmp' = Leftovers
  /\ UNCHANGED history

WorkerStep(w) ==
  \/ \E u \in Users, s \in Samples : LoadEnroll(w, u, s)
  \/ \E u \in Users : \E t \in file[u].templates : LoadRemove(w, u, t)
  \/ CreateTmp(w)
  \/ CreateFails(w)
  \/ WriteTmp(w)
  \/ InstallFails(w)
  \/ Rename(w)
  \/ SyncDir(w)
  \/ SyncFails(w)

Next ==
  \/ \E w \in Workers : WorkerStep(w)
  \/ \E p \in Pids : Crash(p) \/ PowerLoss(p)

Spec == Init /\ [][Next]_vars

-----------------------------------------------------------------------------
(* Properties. *)

\* The variables have their types; a file is a complete UserTemplates or, if
\* something went wrong, Partial.
TypeOK ==
  /\ file \in [Users -> Store \cup {Partial}]
  /\ onDisk \in [Users -> SUBSET (Store \cup {Partial})]
  /\ tmp \in [Users -> [Pids -> Store \cup {Absent, Partial}]]
  /\ pid \in Pids
  /\ worker \in [Workers -> Job \cup {Idle}]
  /\ handedOut \in [Users -> SUBSET Ids]
  /\ kept \in [Users -> SUBSET Template]
  /\ gone \in [Users -> SUBSET Ids]

\* embeddings.json is never torn: whatever crash, power loss or failed write
\* happens, and whichever threads save at the same time, what load finds (and
\* may find after a power loss) is one complete document.
NeverTorn ==
  \A u \in Users : file[u] # Partial /\ Partial \notin onDisk[u]

\* The exclusive create makes the temporary file a lock: of all the threads
\* saving the same user's file at most one is between create and rename, and
\* the file is there, empty or with what this thread wrote, until it is done.
TmpExclusive ==
  /\ \A v, w \in Workers :
       /\ Busy(v, "created") \/ Busy(v, "written")
       /\ Busy(w, "created") \/ Busy(w, "written")
       /\ worker[v].user = worker[w].user
       => v = w
  /\ \A w \in Workers :
       /\ Busy(w, "created") => tmp[worker[w].user][pid] = Partial
       /\ Busy(w, "written") => tmp[worker[w].user][pid] = worker[w].store

HasUniqueIds(store) ==
  \A s, t \in store.templates : s.id = t.id => s = t \/ s.id = MaxId

\* No two templates of a user share an id below the saturation point, even
\* when enrollments and removals overlap, in legacy files too: remove_template
\* deletes at most one template.
UniqueIds ==
  \A u \in Users : \A f \in onDisk[u] \cup {file[u]} : HasUniqueIds(f)

\* An acknowledged enrollment stays: until a removal of its id is requested,
\* the template is in the file, through crashes, power loss and failed saves.
AckedEnrollmentKept ==
  \A u \in Users : kept[u] \subseteq file[u].templates

\* An acknowledged removal stays: the id is never in the file again.
RemovedStaysRemoved ==
  \A u \in Users : \A t \in file[u].templates :
    t.id \in gone[u] => t.id = MaxId

\* The id an enrollment returns was never returned before, be its template
\* still there or removed since.
NeverReusesId ==
  [][\A w \in Workers :
       /\ Busy(w, "renamed") /\ worker[w].op = "enroll"
       /\ worker[w].tpl.id \in handedOut[worker[w].user]
       /\ worker[w].tpl.id # MaxId
       => ~SyncDir(w)]_vars

\* "we never reuse the id of a removed template" (comment on
\* UserTemplates::next_id): no enrollment installs a template under an id
\* whose removal has been acknowledged before.
NeverReusesRemovedId ==
  [][\A w \in Workers :
       /\ Busy(w, "written") /\ worker[w].op = "enroll"
       /\ worker[w].tpl.id \in gone[worker[w].user]
       /\ worker[w].tpl.id # MaxId
       => ~Rename(w)]_vars

-----------------------------------------------------------------------------
(* Inductive strengthenings of the properties, for the proofs. *)

\* Every content a load may find is complete, and the one the system sees may
\* be the one that survives.
FilesComplete ==
  /\ file \in [Users -> Store]
  /\ onDisk \in [Users -> SUBSET Store]
  /\ \A u \in Users : file[u] \in onDisk[u]

InstallInv == TypeOK /\ FilesComplete /\ TmpExclusive

\* Also the content a thread is about to install has unique ids.
UniqueInv ==
  /\ UniqueIds
  /\ \A w \in Workers : worker[w] # Idle => HasUniqueIds(worker[w].store)

\* An id is below the counter of a content, or the counter is saturated.
Counted(id, store) == id < store.next_id \/ id = MaxId

\* The files a broker of this version has always written.
CountedInitially ==
  \A f \in InitialFiles : \A t \in f.templates : Counted(t.id, f)

\* A content honours every answer given for user u so far.
Honours(u, store) ==
  /\ kept[u] \subseteq store.templates
  /\ \A t \in store.templates :
       /\ Counted(t.id, store)
       /\ t.id \in gone[u] => t.id = MaxId
  /\ \A id \in handedOut[u] \cup gone[u] : Counted(id, store)

\* The content a job installs will also honour the answer it is about to give.
Promises(job) ==
  /\ Honours(job.user, job.store)
  /\ Counted(job.tpl.id, job.store)
  /\ job.op = "enroll" =>
       /\ job.tpl \in job.store.templates
       /\ job.tpl.id \in handedOut[job.user] => job.tpl.id = MaxId
  /\ job.op = "remove" => \A t \in job.store.templates : t.id # job.tpl.id

DurableInv ==
  /\ \A u \in Users : \A f \in onDisk[u] : Honours(u, f)
  /\ \A v, w \in Workers : worker[v] # Idle /\ worker[w] # Idle => v = w
  /\ \A w \in Workers : worker[w] # Idle =>
       /\ Promises(worker[w])
       /\ worker[w].step = "renamed" => file[worker[w].user] = worker[w].store

\* What a job is about to install is one addition to the file as it is now, or
\* one deletion from it.
OneChange(job) ==
  LET f == file[job.user]
  IN  \/ /\ job.op = "enroll"
         /\ job.store = WithTemplate(f, job.tpl)
         /\ job.tpl.id >= f.next_id
         /\ \A o \in f.templates : o.id < job.tpl.id \/ job.tpl.id = MaxId
      \/ /\ job.op = "remove"
         /\ job.store = WithoutId(f, job.tpl.id)
         /\ \E t \in f.templates : t.id = job.tpl.id

ChangeInv ==
  /\ \A v, w \in Workers : worker[v] # Idle /\ worker[w] # Idle => v = w
  /\ \A w \in Workers :
       worker[w] # Idle /\ worker[w].step # "renamed" => OneChange(worker[w])

-----------------------------------------------------------------------------
(* What the store promises, and how its variables realise it. *)

Registry == INSTANCE TemplateRegistry
              WITH registry <- file, survivors <- onDisk

\* One admin command at a time, the steps above look like one atomic addition
\* or deletion followed by an acknowledgement that makes it durable.
ImplementsRegistry == Registry!Spec

=============================================================================
