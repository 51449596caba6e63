------------------------ MODULE TemplateStoreProofs ------------------------
(***************************************************************************)
(* Proofs about TemplateStore, for any users, threads, process ids and     *)
(* ids.  What concerns the files holds however requests overlap; what      *)
(* concerns the answers needs one request at a time.                       *)
(***************************************************************************)
EXTENDS TemplateStore, TLAPS, WellFoundedInduction

\* A nonempty set of ids has a largest one.
LEMMA MaxExists ==
  ASSUME NEW S, S \subseteq Ids, S # {}
  PROVE  /\ Max(S) \in S
         /\ \A y \in S : Max(S) >= y
<1>1. MaxId \in Nat
  BY StoreAssumption
<1> DEFINE below == {MaxId - x : x \in S}
<1>a. \A x \in S : MaxId - x \in Nat
  BY <1>1 DEF Ids
<1>2. below \subseteq Nat /\ below # {}
  BY <1>a
<1>3. PICK d \in below : \A e \in below : ~ (<<e, d>> \in OpToRel(<, Nat))
  BY <1>2, NatLessThanWellFounded, WFMin
<1>4. \A e \in below : ~ (e < d)
  BY <1>2, <1>3 DEF OpToRel
<1>5. PICK m \in S : d = MaxId - m
  BY <1>3
<1>6. ASSUME NEW y \in S
      PROVE  m >= y
  <2>1. ~ (MaxId - y < MaxId - m)
    BY <1>4, <1>5
  <2>2. m \in 0 .. MaxId /\ y \in 0 .. MaxId
    BY <1>5 DEF Ids
  <2>3. QED
    BY <1>1, <2>1, <2>2
<1>7. QED
  BY <1>5, <1>6 DEF Max


\* The id an enrollment takes: in range, not below the counter, above every id
\* in use unless it is the last id there is.
LEMMA FreshIdAbove ==
  ASSUME NEW f \in Store
  PROVE  /\ FreshId(f) \in Ids
         /\ FreshId(f) >= f.next_id
         /\ \A t \in f.templates : t.id < FreshId(f) \/ FreshId(f) = MaxId
<1>1. MaxId \in Nat
  BY StoreAssumption
<1>2. f.next_id \in Ids /\ f.templates \subseteq Template
  BY DEF Store
<1>3. CASE f.templates = {}
  BY <1>1, <1>2, <1>3 DEF FreshId, Ids
<1>4. CASE f.templates # {}
  <2> DEFINE used == {t.id : t \in f.templates}
  <2>1. used \subseteq Ids /\ used # {}
    BY <1>2, <1>4 DEF Template
  <2>2. Max(used) \in used /\ \A y \in used : Max(used) >= y
    BY <2>1, MaxExists
  <2>3. MaxIdOf(f.templates) = Max(used)
    BY DEF MaxIdOf
  <2> HIDE DEF used
  <2>4. MaxIdOf(f.templates) \in Ids
    BY <2>1, <2>2, <2>3
  <2>5. \A t \in f.templates : t.id \in Ids /\ MaxIdOf(f.templates) >= t.id
    BY <1>2, <2>2, <2>3 DEF used, Template
  <2>6. FreshId(f) = LargerOf(f.next_id, Succ(MaxIdOf(f.templates)))
    BY <1>4 DEF FreshId
  <2>7. QED
    BY <1>1, <1>2, <2>4, <2>5, <2>6 DEF LargerOf, Succ, Ids
<1>5. QED
  BY <1>3, <1>4

LEMMA WithTemplateType ==
  ASSUME NEW f \in Store, NEW s \in Samples
  PROVE  /\ [id |-> FreshId(f), sample |-> s] \in Template
         /\ WithTemplate(f, [id |-> FreshId(f), sample |-> s]) \in Store
<1> DEFINE t == [id |-> FreshId(f), sample |-> s]
<1>1. FreshId(f) \in Ids
  BY FreshIdAbove
<1>2. t \in Template
  BY <1>1 DEF Template
<1>3. Succ(t.id) \in Ids
  BY <1>1, StoreAssumption DEF Succ, Ids
<1>4. QED
  BY <1>2, <1>3 DEF WithTemplate, Store

LEMMA WithoutIdIs ==
  ASSUME NEW f \in Store, NEW id
  PROVE  /\ WithoutId(f, id) \in Store
         /\ WithoutId(f, id).templates = {t \in f.templates : t.id # id}
         /\ WithoutId(f, id).next_id = f.next_id
BY DEF WithoutId, Store

\* A thread that advances keeps its request; the other threads keep theirs.
LEMMA AdvanceKeepsJob ==
  ASSUME TypeOK, NEW w \in Workers, worker[w] # Idle,
         NEW step \in Steps, Advance(w, step)
  PROVE  /\ worker' \in [Workers -> Job \cup {Idle}]
         /\ \A v \in Workers : v # w => worker'[v] = worker[v]
         /\ worker'[w] \in Job
         /\ worker'[w] # Idle
         /\ worker'[w].step = step
         /\ worker'[w].op = worker[w].op
         /\ worker'[w].user = worker[w].user
         /\ worker'[w].tpl = worker[w].tpl
         /\ worker'[w].store = worker[w].store
<1>1. worker[w] \in Job
  BY DEF TypeOK
<1>2. [worker[w] EXCEPT !.step = step] \in Job
  BY <1>1 DEF Job
<1>3. worker' = [worker EXCEPT ![w] = [worker[w] EXCEPT !.step = step]]
  BY DEF Advance
<1>4. worker'[w] = [worker[w] EXCEPT !.step = step]
  BY <1>3 DEF TypeOK
<1>5. QED
  BY <1>1, <1>2, <1>3, <1>4, MarkersAssumption DEF TypeOK, Job

LEMMA RespondFreesThread ==
  ASSUME TypeOK, NEW w \in Workers, Respond(w)
  PROVE  /\ worker' \in [Workers -> Job \cup {Idle}]
         /\ worker'[w] = Idle
         /\ \A v \in Workers : v # w => worker'[v] = worker[v]
BY DEF TypeOK, Respond

-----------------------------------------------------------------------------

LEMMA InstallInit == Init => InstallInv
<1> SUFFICES ASSUME Init
             PROVE  InstallInv
  OBVIOUS
<1>1. file \in [Users -> Store] /\ \A u \in Users : file[u].templates \subseteq Template
  BY StoreAssumption DEF Init, Store
<1>2. FilesComplete
  BY <1>1 DEF Init, FilesComplete
<1>3. TypeOK
  <2>1. handedOut \in [Users -> SUBSET Ids]
    BY <1>1 DEF Init, Template
  <2>2. QED
    BY <1>1, <2>1 DEF Init, TypeOK
<1>4. TmpExclusive
  BY DEF Init, TmpExclusive, Busy
<1>5. QED
  BY <1>2, <1>3, <1>4 DEF InstallInv

\* A step that leaves the temporary files alone, and after which every busy
\* thread is one of those that were busy before and not yet created its file,
\* or idle, keeps the temporary files exclusive.
LEMMA ExclusiveWhenNoneEnters ==
  ASSUME InstallInv, UNCHANGED <<tmp, pid>>,
         \A w \in Workers :
           (Busy(w, "created")' \/ Busy(w, "written")') => worker'[w] = worker[w]
  PROVE  TmpExclusive'
BY DEF InstallInv, TmpExclusive, Busy

LEMMA InstallStep == InstallInv /\ [Next]_vars => InstallInv'
<1> SUFFICES ASSUME InstallInv, [Next]_vars
             PROVE  InstallInv'
  OBVIOUS
<1>t. TypeOK /\ FilesComplete /\ TmpExclusive
  BY DEF InstallInv
<1>1. ASSUME NEW w \in Workers, NEW u \in Users, NEW s \in Samples, LoadEnroll(w, u, s)
      PROVE  InstallInv'
  <2> DEFINE t == [id |-> FreshId(file[u]), sample |-> s]
             job == [op |-> "enroll", user |-> u, tpl |-> t,
                     store |-> WithTemplate(file[u], t), step |-> "loaded"]
  <2>1. job \in Job /\ job.step = "loaded"
    BY <1>t, WithTemplateType DEF FilesComplete, Job, Steps
  <2> HIDE DEF t
  <2>2. worker' = [worker EXCEPT ![w] = job] /\ UNCHANGED <<file, onDisk, tmp, pid, history>>
    BY <1>1 DEF LoadEnroll, t
  <2> HIDE DEF job
  <2>3. TypeOK' /\ FilesComplete'
    BY <1>t, <2>1, <2>2 DEF TypeOK, FilesComplete, history
  <2>4. TmpExclusive'
    BY <1>t, <2>1, <2>2, ExclusiveWhenNoneEnters DEF TypeOK, Busy
  <2>5. QED
    BY <2>3, <2>4 DEF InstallInv
<1>2. ASSUME NEW w \in Workers, NEW u \in Users, NEW t \in file[u].templates,
             LoadRemove(w, u, t)
      PROVE  InstallInv'
  <2> DEFINE job == [op |-> "remove", user |-> u, tpl |-> t,
                     store |-> WithoutId(file[u], t.id), step |-> "loaded"]
  <2>1. job \in Job /\ job.step = "loaded"
    BY <1>t, WithoutIdIs DEF FilesComplete, Job, Steps, Store
  <2>2. /\ worker' = [worker EXCEPT ![w] = job]
        /\ UNCHANGED <<file, onDisk, tmp, pid, handedOut, gone>>
    BY <1>2 DEF LoadRemove
  <2>3. kept' \in [Users -> SUBSET Template]
    BY <1>t, <1>2 DEF LoadRemove, TypeOK
  <2> HIDE DEF job
  <2>4. TypeOK' /\ FilesComplete'
    BY <1>t, <2>1, <2>2, <2>3 DEF TypeOK, FilesComplete
  <2>5. TmpExclusive'
    BY <1>t, <2>1, <2>2, ExclusiveWhenNoneEnters DEF TypeOK, Busy
  <2>6. QED
    BY <2>4, <2>5 DEF InstallInv
<1>3. ASSUME NEW w \in Workers, CreateTmp(w)
      PROVE  InstallInv'
  <2> DEFINE u == worker[w].user
  <2>1. /\ worker[w] \in Job /\ worker[w] # Idle /\ u \in Users
        /\ tmp[u][pid] = Absent
        /\ tmp' = [tmp EXCEPT ![u][pid] = Partial]
        /\ UNCHANGED <<file, onDisk, pid, history>>
        /\ Advance(w, "created")
    BY <1>t, <1>3 DEF CreateTmp, Busy, TypeOK, Job
  <2>2. /\ worker' \in [Workers -> Job \cup {Idle}]
        /\ \A v \in Workers : v # w => worker'[v] = worker[v]
        /\ worker'[w].user = u /\ worker'[w].step = "created"
    BY <1>t, <2>1, AdvanceKeepsJob DEF Steps
  <2>3. TypeOK' /\ FilesComplete'
    BY <1>t, <2>1, <2>2 DEF TypeOK, FilesComplete, history
  <2>4. \A v \in Workers :
          Busy(v, "created") \/ Busy(v, "written") => worker[v].user # u
    <3>1. \A v \in Workers : worker[v] # Idle => worker[v].store \in Store
      BY <1>t DEF TypeOK, Job
    <3>2. QED
      BY <1>t, <2>1, <3>1, MarkersAssumption DEF TmpExclusive, Busy
  <2>5. TmpExclusive'
    <3>1. tmp'[u][pid'] = Partial
      BY <1>t, <2>1 DEF TypeOK, history
    <3>2. \A x \in Users : x # u => tmp'[x][pid'] = tmp[x][pid]
      BY <1>t, <2>1 DEF TypeOK
    <3>3. \A v \in Workers : v # w /\ worker[v] # Idle => worker[v].user \in Users
      BY <1>t DEF TypeOK, Job
    <3>4. \A v \in Workers :
            (Busy(v, "created") \/ Busy(v, "written"))' =>
               v = w \/ ((Busy(v, "created") \/ Busy(v, "written")) /\ worker[v].user # u)
      BY <2>2, <2>4 DEF Busy
    <3>5. QED
      BY <1>t, <2>2, <3>1, <3>2, <3>3, <3>4 DEF TmpExclusive, Busy
  <2>6. QED
    BY <2>3, <2>5 DEF InstallInv
<1>4. ASSUME NEW w \in Workers, CreateFails(w) \/ SyncFails(w)
      PROVE  InstallInv'
  <2>1. Respond(w) /\ UNCHANGED <<file, onDisk, tmp, pid, history>>
    BY <1>4 DEF CreateFails, SyncFails
  <2>2. worker' \in [Workers -> Job \cup {Idle}]
        /\ worker'[w] = Idle /\ \A v \in Workers : v # w => worker'[v] = worker[v]
    BY <1>t, <2>1, RespondFreesThread
  <2>3. TypeOK' /\ FilesComplete'
    BY <1>t, <2>1, <2>2 DEF TypeOK, FilesComplete, history
  <2>4. TmpExclusive'
    BY <1>t, <2>1, <2>2, ExclusiveWhenNoneEnters DEF Busy
  <2>5. QED
    BY <2>3, <2>4 DEF InstallInv
<1>5. ASSUME NEW w \in Workers, WriteTmp(w)
      PROVE  InstallInv'
  <2> DEFINE u == worker[w].user
             content == worker[w].store
  <2>1. /\ worker[w] # Idle /\ Busy(w, "created") /\ u \in Users
        /\ content \in Store
        /\ tmp' = [tmp EXCEPT ![u][pid] = content]
        /\ UNCHANGED <<file, onDisk, pid, history>>
        /\ Advance(w, "written")
    BY <1>t, <1>5 DEF WriteTmp, Busy, TypeOK, Job
  <2>2. /\ worker' \in [Workers -> Job \cup {Idle}]
        /\ \A v \in Workers : v # w => worker'[v] = worker[v]
        /\ worker'[w].user = u /\ worker'[w].step = "written" /\ worker'[w].store = content
    BY <1>t, <2>1, AdvanceKeepsJob DEF Steps
  <2>3. TypeOK' /\ FilesComplete'
    BY <1>t, <2>1, <2>2 DEF TypeOK, FilesComplete, history
  <2>4. TmpExclusive'
    <3>1. tmp'[u][pid'] = content
      BY <1>t, <2>1 DEF TypeOK
    <3>2. \A x \in Users : x # u => tmp'[x][pid'] = tmp[x][pid]
      BY <1>t, <2>1 DEF TypeOK
    <3>3. \A v \in Workers : v # w /\ worker[v] # Idle => worker[v].user \in Users
      BY <1>t DEF TypeOK, Job
    <3>4. \A v \in Workers :
            (Busy(v, "created") \/ Busy(v, "written"))' =>
               v = w \/ ((Busy(v, "created") \/ Busy(v, "written")) /\ worker[v].user # u)
      BY <1>t, <2>1, <2>2 DEF Busy, TmpExclusive
    <3>5. QED
      BY <1>t, <2>2, <3>1, <3>2, <3>3, <3>4 DEF TmpExclusive, Busy
  <2>5. QED
    BY <2>3, <2>4 DEF InstallInv

<1>6. ASSUME NEW w \in Workers, InstallFails(w)
      PROVE  InstallInv'
  <2> DEFINE u == worker[w].user
  <2>1. /\ worker[w] # Idle /\ (Busy(w, "created") \/ Busy(w, "written")) /\ u \in Users
        /\ UNCHANGED <<file, onDisk, pid, history>>
        /\ Respond(w)
    BY <1>t, <1>6 DEF InstallFails, Busy, TypeOK, Job
  <2>2. PICK left \in {Absent, Partial} : tmp' = [tmp EXCEPT ![u][pid] = left]
    BY <1>6 DEF InstallFails
  <2>3. worker' \in [Workers -> Job \cup {Idle}]
        /\ worker'[w] = Idle /\ \A v \in Workers : v # w => worker'[v] = worker[v]
    BY <1>t, <2>1, RespondFreesThread
  <2>4. TypeOK' /\ FilesComplete'
    BY <1>t, <2>1, <2>2, <2>3 DEF TypeOK, FilesComplete, history
  <2>5. TmpExclusive'
    <3>1. \A v \in Workers :
            (Busy(v, "created") \/ Busy(v, "written"))' =>
               /\ Busy(v, "created") \/ Busy(v, "written")
               /\ worker'[v] = worker[v] /\ worker[v].user # u
      BY <1>t, <2>1, <2>3 DEF Busy, TmpExclusive
    <3>2. \A x \in Users : x # u => tmp'[x][pid'] = tmp[x][pid]
      BY <1>t, <2>1, <2>2 DEF TypeOK
    <3>3. \A v \in Workers : worker[v] # Idle => worker[v].user \in Users
      BY <1>t DEF TypeOK, Job
    <3>4. QED
      BY <1>t, <3>1, <3>2, <3>3 DEF TmpExclusive, Busy
  <2>6. QED
    BY <2>4, <2>5 DEF InstallInv
<1>7. ASSUME NEW w \in Workers, Rename(w)
      PROVE  InstallInv'
  <2> DEFINE u == worker[w].user
             content == worker[w].store
  <2>1. /\ worker[w] # Idle /\ Busy(w, "written") /\ u \in Users
        /\ content \in Store /\ tmp[u][pid] = content
        /\ file' = [file EXCEPT ![u] = content]
        /\ onDisk' = [onDisk EXCEPT ![u] = @ \cup {content}]
        /\ tmp' = [tmp EXCEPT ![u][pid] = Absent]
        /\ UNCHANGED <<pid, history>>
        /\ Advance(w, "renamed")
    BY <1>t, <1>7 DEF Rename, Busy, TypeOK, Job, TmpExclusive
  <2>2. /\ worker' \in [Workers -> Job \cup {Idle}]
        /\ \A v \in Workers : v # w => worker'[v] = worker[v]
        /\ worker'[w].step = "renamed"
    BY <1>t, <2>1, AdvanceKeepsJob DEF Steps
  <2>3. TypeOK' /\ FilesComplete'
    BY <1>t, <2>1, <2>2 DEF TypeOK, FilesComplete, history
  <2>4. TmpExclusive'
    <3>1. \A v \in Workers :
            (Busy(v, "created") \/ Busy(v, "written"))' =>
               /\ Busy(v, "created") \/ Busy(v, "written")
               /\ worker'[v] = worker[v] /\ worker[v].user # u
      BY <1>t, <2>1, <2>2 DEF Busy, TmpExclusive
    <3>2. \A x \in Users : x # u => tmp'[x][pid'] = tmp[x][pid]
      BY <1>t, <2>1 DEF TypeOK
    <3>3. \A v \in Workers : worker[v] # Idle => worker[v].user \in Users
      BY <1>t DEF TypeOK, Job
    <3>4. QED
      BY <1>t, <3>1, <3>2, <3>3 DEF TmpExclusive, Busy
  <2>5. QED
    BY <2>3, <2>4 DEF InstallInv
<1>8. ASSUME NEW w \in Workers, SyncDir(w)
      PROVE  InstallInv'
  <2> DEFINE u == worker[w].user
  <2>1. /\ worker[w] # Idle /\ u \in Users /\ worker[w].tpl \in Template
        /\ onDisk' = [onDisk EXCEPT ![u] = {file[u]}]
        /\ UNCHANGED <<file, tmp, pid>>
        /\ Acknowledge(w) /\ Respond(w)
    BY <1>t, <1>8 DEF SyncDir, Busy, TypeOK, Job, Acknowledge
  <2>2. worker' \in [Workers -> Job \cup {Idle}]
        /\ worker'[w] = Idle /\ \A v \in Workers : v # w => worker'[v] = worker[v]
    BY <1>t, <2>1, RespondFreesThread
  <2>3. /\ handedOut' \in [Users -> SUBSET Ids]
        /\ kept' \in [Users -> SUBSET Template]
        /\ gone' \in [Users -> SUBSET Ids]
    <3>1. worker[w].tpl.id \in Ids
      BY <2>1 DEF Template
    <3>2. CASE worker[w].op = "enroll"
      <4>1. /\ handedOut' = [handedOut EXCEPT ![u] = @ \cup {worker[w].tpl.id}]
            /\ kept' = [kept EXCEPT ![u] = @ \cup {worker[w].tpl}]
            /\ UNCHANGED gone
        BY <2>1, <3>2 DEF Acknowledge
      <4>2. QED
        BY <1>t, <2>1, <3>1, <4>1 DEF TypeOK
    <3>3. CASE worker[w].op = "remove"
      <4>1. /\ gone' = [gone EXCEPT ![u] = @ \cup {worker[w].tpl.id}]
            /\ UNCHANGED <<handedOut, kept>>
        BY <2>1, <3>3 DEF Acknowledge
      <4>2. QED
        BY <1>t, <2>1, <3>1, <4>1 DEF TypeOK
    <3>4. QED
      BY <2>1, <3>2, <3>3 DEF Acknowledge
  <2>4. TypeOK' /\ FilesComplete'
    BY <1>t, <2>1, <2>2, <2>3 DEF TypeOK, FilesComplete
  <2>5. TmpExclusive'
    BY <1>t, <2>1, <2>2, ExclusiveWhenNoneEnters DEF Busy
  <2>6. QED
    BY <2>4, <2>5 DEF InstallInv
<1>9. ASSUME NEW p \in Pids, Crash(p)
      PROVE  InstallInv'
  <2>1. TypeOK' /\ FilesComplete'
    BY <1>t, <1>9 DEF Crash, Leftovers, TypeOK, FilesComplete, history
  <2>2. TmpExclusive'
    BY <1>9 DEF Crash, TmpExclusive, Busy
  <2>3. QED
    BY <2>1, <2>2 DEF InstallInv
<1>10. ASSUME NEW p \in Pids, PowerLoss(p)
       PROVE  InstallInv'
  <2>1. PICK left \in [Users -> UNION {onDisk[u] : u \in Users}] :
          /\ \A u \in Users : left[u] \in onDisk[u]
          /\ file' = left
          /\ onDisk' = [u \in Users |-> {left[u]}]
    BY <1>10 DEF PowerLoss
  <2>2. left \in [Users -> Store]
    BY <1>t, <2>1 DEF FilesComplete
  <2>3. FilesComplete'
    BY <2>1, <2>2 DEF FilesComplete
  <2>4. TypeOK'
    BY <1>t, <1>10, <2>1, <2>2 DEF PowerLoss, Leftovers, TypeOK, history
  <2>5. TmpExclusive'
    BY <1>10 DEF PowerLoss, TmpExclusive, Busy
  <2>6. QED
    BY <2>3, <2>4, <2>5 DEF InstallInv
<1>11. CASE UNCHANGED vars
  BY <1>t, <1>11 DEF vars, InstallInv, TypeOK, FilesComplete, TmpExclusive, Busy
<1>12. QED
  BY <1>1, <1>2, <1>3, <1>4, <1>5, <1>6, <1>7, <1>8, <1>9, <1>10, <1>11
     DEF Next, WorkerStep

\* The files, the temporary files and the threads have their types.
THEOREM TypeCorrect == Spec => []TypeOK
<1>1. Spec => []InstallInv
  BY InstallInit, InstallStep, PTL DEF Spec
<1>2. InstallInv => TypeOK
  BY DEF InstallInv
<1>3. QED
  BY <1>1, <1>2, PTL

\* No crash, power loss, failed write or simultaneous save tears a file.
THEOREM FilesNeverTorn == Spec => []NeverTorn
<1>1. Spec => []InstallInv
  BY InstallInit, InstallStep, PTL DEF Spec
<1>2. InstallInv => NeverTorn
  BY MarkersAssumption DEF InstallInv, FilesComplete, NeverTorn
<1>3. QED
  BY <1>1, <1>2, PTL

\* The exclusive create keeps concurrent saves of one file apart.
THEOREM TmpFilesExclusive == Spec => []TmpExclusive
<1>1. Spec => []InstallInv
  BY InstallInit, InstallStep, PTL DEF Spec
<1>2. InstallInv => TmpExclusive
  BY DEF InstallInv
<1>3. QED
  BY <1>1, <1>2, PTL

-----------------------------------------------------------------------------
(* Unique ids. *)

LEMMA EnrollKeepsUnique ==
  ASSUME NEW f \in Store, HasUniqueIds(f), NEW s
  PROVE  HasUniqueIds(WithTemplate(f, [id |-> FreshId(f), sample |-> s]))
<1>1. /\ FreshId(f) \in Ids
      /\ \A t \in f.templates : t.id < FreshId(f) \/ FreshId(f) = MaxId
  BY FreshIdAbove
<1>2. \A t \in f.templates : t.id \in Ids
  BY DEF Store, Template
<1>3. MaxId \in Nat
  BY StoreAssumption
<1>4. \A t \in f.templates : t.id = FreshId(f) => FreshId(f) = MaxId
  BY <1>1, <1>2, <1>3 DEF Ids
<1>5. QED
  BY <1>4 DEF HasUniqueIds, WithTemplate

LEMMA RemoveKeepsUnique ==
  ASSUME NEW f \in Store, HasUniqueIds(f), NEW id
  PROVE  HasUniqueIds(WithoutId(f, id))
BY WithoutIdIs DEF HasUniqueIds

\* A step after which every content on disk and every content a thread is
\* about to install was one before, keeps ids unique.
LEMMA UniqueWhenNothingNew ==
  ASSUME UniqueInv,
         \A u \in Users : \A f \in onDisk'[u] \cup {file'[u]} :
            \/ f \in onDisk[u] \cup {file[u]}
            \/ \E w \in Workers : worker[w] # Idle /\ f = worker[w].store,
         \A w \in Workers : worker'[w] # Idle =>
            worker[w] # Idle /\ worker'[w].store = worker[w].store
  PROVE  UniqueInv'
BY DEF UniqueInv, UniqueIds, HasUniqueIds

LEMMA UniqueStep == InstallInv /\ UniqueInv /\ [Next]_vars => UniqueInv'
<1> SUFFICES ASSUME InstallInv, UniqueInv, [Next]_vars
             PROVE  UniqueInv'
  OBVIOUS
<1>t. TypeOK /\ FilesComplete /\ TmpExclusive
  BY DEF InstallInv
<1>1. ASSUME NEW w \in Workers, NEW u \in Users, NEW s \in Samples, LoadEnroll(w, u, s)
      PROVE  UniqueInv'
  <2> DEFINE t == [id |-> FreshId(file[u]), sample |-> s]
  <2>1. HasUniqueIds(WithTemplate(file[u], t))
    BY <1>t, EnrollKeepsUnique DEF FilesComplete, UniqueInv, UniqueIds
  <2>2. /\ worker'[w].store = WithTemplate(file[u], t)
        /\ \A v \in Workers : v # w => worker'[v] = worker[v]
        /\ UNCHANGED <<file, onDisk>>
    BY <1>t, <1>1 DEF LoadEnroll, TypeOK
  <2>3. \A v \in Workers : worker'[v] # Idle => HasUniqueIds(worker'[v].store)
    BY <2>1, <2>2 DEF UniqueInv
  <2>4. UniqueIds'
    BY <2>2 DEF UniqueInv, UniqueIds, HasUniqueIds
  <2>5. QED
    BY <2>3, <2>4 DEF UniqueInv, HasUniqueIds
<1>2. ASSUME NEW w \in Workers, NEW u \in Users, NEW t \in file[u].templates,
             LoadRemove(w, u, t)
      PROVE  UniqueInv'
  <2>1. HasUniqueIds(WithoutId(file[u], t.id))
    BY <1>t, RemoveKeepsUnique DEF FilesComplete, UniqueInv, UniqueIds
  <2>2. /\ worker'[w].store = WithoutId(file[u], t.id)
        /\ \A v \in Workers : v # w => worker'[v] = worker[v]
        /\ UNCHANGED <<file, onDisk>>
    BY <1>t, <1>2 DEF LoadRemove, TypeOK
  <2>3. \A v \in Workers : worker'[v] # Idle => HasUniqueIds(worker'[v].store)
    BY <2>1, <2>2 DEF UniqueInv
  <2>4. UniqueIds'
    BY <2>2 DEF UniqueInv, UniqueIds, HasUniqueIds
  <2>5. QED
    BY <2>3, <2>4 DEF UniqueInv, HasUniqueIds
<1>3. ASSUME NEW w \in Workers, CreateTmp(w) \/ WriteTmp(w)
      PROVE  UniqueInv'
  <2>1. /\ worker[w] # Idle /\ UNCHANGED <<file, onDisk>>
        /\ Advance(w, "created") \/ Advance(w, "written")
    BY <1>3 DEF CreateTmp, WriteTmp, Busy
  <2>2. \A v \in Workers : worker'[v] # Idle =>
          worker[v] # Idle /\ worker'[v].store = worker[v].store
    BY <1>t, <2>1, AdvanceKeepsJob DEF Steps
  <2>3. QED
    BY <2>1, <2>2, UniqueWhenNothingNew
<1>4. ASSUME NEW w \in Workers,
             CreateFails(w) \/ InstallFails(w) \/ SyncFails(w) \/ SyncDir(w)
      PROVE  UniqueInv'
  <2>1. /\ Respond(w) /\ UNCHANGED file
        /\ UNCHANGED onDisk \/ onDisk' = [onDisk EXCEPT ![worker[w].user] = {file[worker[w].user]}]
    BY <1>4 DEF CreateFails, InstallFails, SyncFails, SyncDir, Acknowledge
  <2>2. \A u \in Users : onDisk'[u] \subseteq onDisk[u] \cup {file[u]}
    BY <1>t, <2>1 DEF TypeOK
  <2>3. \A v \in Workers : worker'[v] # Idle => worker[v] # Idle /\ worker'[v] = worker[v]
    BY <1>t, <2>1, RespondFreesThread
  <2>4. QED
    BY <2>1, <2>2, <2>3, UniqueWhenNothingNew
<1>5. ASSUME NEW w \in Workers, Rename(w)
      PROVE  UniqueInv'
  <2> DEFINE u == worker[w].user
  <2>1. /\ worker[w] # Idle /\ u \in Users
        /\ file' = [file EXCEPT ![u] = worker[w].store]
        /\ onDisk' = [onDisk EXCEPT ![u] = @ \cup {worker[w].store}]
        /\ Advance(w, "renamed")
    BY <1>t, <1>5 DEF Rename, Busy, TypeOK, Job, TmpExclusive
  <2>2. \A v \in Workers : worker'[v] # Idle =>
          worker[v] # Idle /\ worker'[v].store = worker[v].store
    BY <1>t, <2>1, AdvanceKeepsJob DEF Steps
  <2>3. \A x \in Users : \A f \in onDisk'[x] \cup {file'[x]} :
          f \in onDisk[x] \cup {file[x]} \/ f = worker[w].store
    BY <1>t, <2>1 DEF TypeOK
  <2>4. QED
    BY <2>1, <2>2, <2>3, UniqueWhenNothingNew
<1>6. ASSUME NEW p \in Pids, Crash(p) \/ PowerLoss(p)
      PROVE  UniqueInv'
  <2>1. \A w \in Workers : worker'[w] = Idle
    BY <1>6 DEF Crash, PowerLoss
  <2>2. \A u \in Users : \A f \in onDisk'[u] \cup {file'[u]} : f \in onDisk[u] \cup {file[u]}
    BY <1>6 DEF Crash, PowerLoss
  <2>3. QED
    BY <2>1, <2>2, UniqueWhenNothingNew
<1>7. CASE UNCHANGED vars
  BY <1>7 DEF vars, UniqueInv, UniqueIds, HasUniqueIds
<1>8. QED
  BY <1>1, <1>2, <1>3, <1>4, <1>5, <1>6, <1>7 DEF Next, WorkerStep

\* However requests overlap, no two templates of a user share an id below the
\* last one, provided the installation starts with such files.
THEOREM IdsUnique ==
  ASSUME \A f \in InitialFiles : HasUniqueIds(f)
  PROVE  Spec => []UniqueIds
<1>1. Init => UniqueInv
  BY DEF Init, UniqueInv, UniqueIds
<1>2. Spec => [](InstallInv /\ UniqueInv)
  BY <1>1, InstallInit, InstallStep, UniqueStep, PTL DEF Spec
<1>3. UniqueInv => UniqueIds
  BY DEF UniqueInv
<1>4. QED
  BY <1>2, <1>3, PTL

-----------------------------------------------------------------------------
(* One admin command at a time, on files that carry their counter: what has  *)
(* been answered stays true.                                                 *)

LEMMA DurableInit ==
  ASSUME CountedInitially
  PROVE  Init => DurableInv
<1> SUFFICES ASSUME Init
             PROVE  DurableInv
  OBVIOUS
<1>1. ASSUME NEW u \in Users
      PROVE  Honours(u, file[u])
  <2>1. file[u] \in InitialFiles
    BY DEF Init
  <2>2. /\ kept[u] = file[u].templates /\ gone[u] = {}
        /\ handedOut[u] = {t.id : t \in file[u].templates}
    BY DEF Init
  <2>3. QED
    BY <2>1, <2>2 DEF Honours, CountedInitially
<1>2. QED
  BY <1>1 DEF Init, DurableInv

LEMMA EnrollPromises ==
  ASSUME TypeOK, NEW u \in Users, NEW s \in Samples, file[u] \in Store, Honours(u, file[u])
  PROVE  LET t == [id |-> FreshId(file[u]), sample |-> s]
         IN  Promises([op |-> "enroll", user |-> u, tpl |-> t,
                       store |-> WithTemplate(file[u], t), step |-> "loaded"])
<1> DEFINE f == file[u]
           t == [id |-> FreshId(f), sample |-> s]
           new == WithTemplate(f, t)
           job == [op |-> "enroll", user |-> u, tpl |-> t, store |-> new, step |-> "loaded"]
<1>1. /\ FreshId(f) \in Ids /\ FreshId(f) >= f.next_id
      /\ \A o \in f.templates : o.id < FreshId(f) \/ FreshId(f) = MaxId
  BY FreshIdAbove
<1>2. MaxId \in Nat /\ f.next_id \in Ids /\ f.templates \subseteq Template
  BY StoreAssumption DEF Store
<1>3. \A id \in Ids : Counted(id, f) => id < FreshId(f) \/ id = MaxId \/ FreshId(f) = MaxId
  BY <1>1, <1>2 DEF Counted, Ids
<1>4. new.templates = f.templates \cup {t} /\ new.next_id = Succ(FreshId(f))
  BY DEF WithTemplate
<1>5. \A id \in Ids : Counted(id, f) => Counted(id, new)
  BY <1>1, <1>2, <1>3, <1>4 DEF Counted, Succ, Ids
<1>6. Counted(t.id, new)
  BY <1>1, <1>2, <1>4 DEF Counted, Succ, Ids
<1>7. \A id \in handedOut[u] \cup gone[u] : id \in Ids /\ Counted(id, f)
  BY DEF Honours, TypeOK
<1>8. t.id \in handedOut[u] \cup gone[u] => t.id = MaxId
  BY <1>1, <1>2, <1>7 DEF Counted, Ids
<1>9. Honours(u, new)
  <2>1. kept[u] \subseteq new.templates
    BY <1>4 DEF Honours
  <2>2. \A o \in f.templates :
          o.id \in Ids /\ Counted(o.id, f) /\ (o.id \in gone[u] => o.id = MaxId)
    BY <1>2 DEF Honours, Template
  <2>3. \A o \in new.templates : Counted(o.id, new) /\ (o.id \in gone[u] => o.id = MaxId)
    BY <1>4, <1>5, <1>6, <1>8, <2>2
  <2>4. QED
    BY <1>5, <1>7, <2>1, <2>3 DEF Honours
<1>10. /\ job.user = u /\ job.store = new /\ job.tpl = t /\ job.op = "enroll"
       /\ t \in new.templates
  BY <1>4
<1> HIDE DEF job, new, t
<1>11. Promises(job)
  BY <1>6, <1>8, <1>9, <1>10 DEF Promises
<1>12. QED
  BY <1>11 DEF job, new, t

\* After remove has loaded the file, the id it deletes is not promised any more.
LEMMA RemovePromises ==
  ASSUME TypeOK, NEW u \in Users, file[u] \in Store, Honours(u, file[u]),
         NEW t \in file[u].templates,
         kept' = [kept EXCEPT ![u] = {k \in @ : k.id # t.id}],
         UNCHANGED <<handedOut, gone>>,
         NEW job \in Job, job.user = u, job.op = "remove", job.tpl = t,
         job.store = WithoutId(file[u], t.id)
  PROVE  Promises(job)'
<1> DEFINE f == file[u]
           new == WithoutId(f, t.id)
<1>1. new.templates = {o \in f.templates : o.id # t.id} /\ new.next_id = f.next_id
  BY WithoutIdIs
<1>2. kept'[u] = {k \in kept[u] : k.id # t.id}
  BY DEF TypeOK
<1>3. kept'[u] \subseteq new.templates
  BY <1>1, <1>2 DEF Honours
<1> HIDE DEF new
<1>4. \A o \in new.templates : Counted(o.id, new) /\ (o.id \in gone[u] => o.id = MaxId)
  BY <1>1 DEF Honours, Counted
<1>5. \A id \in handedOut[u] \cup gone[u] : Counted(id, new)
  BY <1>1 DEF Honours, Counted
<1>6. Counted(t.id, new)
  BY <1>1 DEF Honours, Counted
<1>7. job.store = new
  BY DEF new
<1>8. QED
  BY <1>1, <1>3, <1>4, <1>5, <1>6, <1>7 DEF Promises, Honours, Counted

LEMMA DurableStep ==
  ASSUME ~Overlap
  PROVE  InstallInv /\ DurableInv /\ [Next]_vars => DurableInv'
<1> SUFFICES ASSUME InstallInv, DurableInv, [Next]_vars
             PROVE  DurableInv'
  OBVIOUS
<1>t. TypeOK /\ FilesComplete /\ TmpExclusive
  BY DEF InstallInv
<1>h. \A u \in Users : file[u] \in Store /\ Honours(u, file[u])
  BY <1>t DEF DurableInv, FilesComplete
<1>1. ASSUME NEW w \in Workers, NEW u \in Users, NEW s \in Samples, LoadEnroll(w, u, s)
      PROVE  DurableInv'
  <2> DEFINE t == [id |-> FreshId(file[u]), sample |-> s]
             job == [op |-> "enroll", user |-> u, tpl |-> t,
                     store |-> WithTemplate(file[u], t), step |-> "loaded"]
  <2>1. Promises(job) /\ job.step = "loaded"
    BY <1>t, <1>h, EnrollPromises
  <2>2. /\ \A v \in Workers : worker[v] = Idle
        /\ worker' = [worker EXCEPT ![w] = job]
        /\ UNCHANGED <<onDisk, kept, handedOut, gone>>
    BY <1>1 DEF LoadEnroll, MayStart, history
  <2> HIDE DEF job
  <2>3. worker'[w] = job /\ \A v \in Workers : v # w => worker'[v] = Idle
    BY <1>t, <2>2 DEF TypeOK
  <2>4. \A j : Promises(j) => Promises(j)'
    BY <2>2 DEF Promises, Honours, Counted
  <2>5. \A x \in Users : \A f \in onDisk'[x] : Honours(x, f)'
    BY <2>2 DEF DurableInv, Honours, Counted
  <2>6. QED
    BY <2>1, <2>3, <2>4, <2>5 DEF DurableInv, Promises, Honours, Counted
<1>2. ASSUME NEW w \in Workers, NEW u \in Users, NEW t \in file[u].templates,
             LoadRemove(w, u, t)
      PROVE  DurableInv'
  <2> DEFINE job == [op |-> "remove", user |-> u, tpl |-> t,
                     store |-> WithoutId(file[u], t.id), step |-> "loaded"]
  <2>1. /\ \A v \in Workers : worker[v] = Idle
        /\ worker' = [worker EXCEPT ![w] = job]
        /\ kept' = [kept EXCEPT ![u] = {k \in @ : k.id # t.id}]
        /\ UNCHANGED <<onDisk, handedOut, gone>>
    BY <1>2 DEF LoadRemove, MayStart
  <2>2. job \in Job /\ job.step = "loaded"
    BY <1>h, WithoutIdIs DEF Job, Steps, Store
  <2>3. /\ job.user = u /\ job.op = "remove" /\ job.tpl = t
        /\ job.store = WithoutId(file[u], t.id)
    OBVIOUS
  <2> HIDE DEF job
  <2>4. worker'[w] = job /\ \A v \in Workers : v # w => worker'[v] = Idle
    BY <1>t, <2>1 DEF TypeOK
  <2>5. ASSUME NEW j \in Job, j.user = u, j.op = "remove", j.tpl = t,
               j.store = WithoutId(file[u], t.id)
        PROVE  Promises(j)'
    BY <1>t, <1>h, <2>1, <2>5, RemovePromises
  <2>6. \A x \in Users : kept'[x] \subseteq kept[x]
    BY <1>t, <2>1 DEF TypeOK
  <2>7. \A x \in Users : \A f \in onDisk'[x] : Honours(x, f)'
    BY <2>1, <2>6 DEF DurableInv, Honours, Counted
  <2>8. QED
    BY <2>2, <2>3, <2>4, <2>5, <2>7 DEF DurableInv, Promises, Honours, Counted
<1>3. ASSUME NEW w \in Workers, CreateTmp(w) \/ WriteTmp(w)
      PROVE  DurableInv'
  <2>1. /\ worker[w] # Idle /\ UNCHANGED <<file, onDisk, kept, handedOut, gone>>
        /\ Advance(w, "created") \/ Advance(w, "written")
    BY <1>3 DEF CreateTmp, WriteTmp, Busy, history
  <2>2. \A v \in Workers : worker'[v] # Idle =>
          /\ worker[v] # Idle
          /\ \/ worker'[v] = worker[v]
             \/ /\ worker'[v].op = worker[v].op /\ worker'[v].user = worker[v].user
                /\ worker'[v].tpl = worker[v].tpl /\ worker'[v].store = worker[v].store
                /\ worker'[v].step # "renamed"
    BY <1>t, <2>1, AdvanceKeepsJob DEF Steps
  <2>3. QED
    BY <2>1, <2>2 DEF DurableInv, Promises, Honours, Counted
<1>4. ASSUME NEW w \in Workers, CreateFails(w) \/ InstallFails(w) \/ SyncFails(w)
      PROVE  DurableInv'
  <2>1. Respond(w) /\ UNCHANGED <<file, onDisk, kept, handedOut, gone>>
    BY <1>4 DEF CreateFails, InstallFails, SyncFails, history
  <2>2. \A v \in Workers : worker'[v] # Idle => worker[v] # Idle /\ worker'[v] = worker[v]
    BY <1>t, <2>1, RespondFreesThread
  <2>3. QED
    BY <2>1, <2>2 DEF DurableInv, Promises, Honours, Counted
<1>5. ASSUME NEW w \in Workers, Rename(w)
      PROVE  DurableInv'
  <2> DEFINE u == worker[w].user
             content == worker[w].store
  <2>1. /\ worker[w] # Idle /\ u \in Users
        /\ file' = [file EXCEPT ![u] = content]
        /\ onDisk' = [onDisk EXCEPT ![u] = @ \cup {content}]
        /\ UNCHANGED <<kept, handedOut, gone>>
        /\ Advance(w, "renamed")
    BY <1>t, <1>5 DEF Rename, Busy, TypeOK, Job, TmpExclusive, history
  <2>2. /\ worker'[w] # Idle /\ worker'[w].op = worker[w].op /\ worker'[w].user = u
        /\ worker'[w].tpl = worker[w].tpl /\ worker'[w].store = content
        /\ \A v \in Workers : v # w => worker'[v] = worker[v]
    BY <1>t, <2>1, AdvanceKeepsJob DEF Steps
  <2>3. \A v \in Workers : worker'[v] # Idle => v = w
    BY <2>1, <2>2 DEF DurableInv
  <2>4. Promises(worker[w])
    BY <2>1 DEF DurableInv
  <2>5. \A x \in Users : \A f \in onDisk'[x] : Honours(x, f)'
    <3>1. \A x \in Users : \A f \in onDisk'[x] : f \in onDisk[x] \/ (x = u /\ f = content)
      BY <1>t, <2>1 DEF TypeOK
    <3>2. QED
      BY <2>1, <2>4, <3>1 DEF DurableInv, Promises, Honours, Counted
  <2>6. file'[u] = content
    BY <1>t, <2>1 DEF TypeOK
  <2>7. Promises(worker[w])'
    BY <2>1, <2>2, <2>4 DEF Promises, Honours, Counted
  <2>8. QED
    BY <2>2, <2>3, <2>5, <2>6, <2>7 DEF DurableInv
<1>6. ASSUME NEW w \in Workers, SyncDir(w)
      PROVE  DurableInv'
  <2>a. worker[w].user \in Users /\ worker[w].tpl \in Template
    BY <1>t, <1>6 DEF SyncDir, Busy, TypeOK, Job
  <2>b. PICK u \in Users, t \in Template : u = worker[w].user /\ t = worker[w].tpl
    BY <2>a
  <2>1. /\ worker[w] # Idle /\ worker[w].step = "renamed"
        /\ onDisk' = [onDisk EXCEPT ![u] = {file[u]}]
        /\ Acknowledge(w) /\ Respond(w)
    BY <1>6, <2>b DEF SyncDir, Busy, Acknowledge
  <2>2. Promises(worker[w]) /\ file[u] = worker[w].store
    BY <2>1, <2>b DEF DurableInv
  <2>3. \A v \in Workers : worker'[v] = Idle
    BY <1>t, <2>1, RespondFreesThread DEF DurableInv
  <2>4. \A x \in Users : x # u =>
          onDisk'[x] = onDisk[x] /\ kept'[x] = kept[x]
          /\ handedOut'[x] = handedOut[x] /\ gone'[x] = gone[x]
    BY <1>t, <2>1, <2>b DEF Acknowledge, TypeOK
  <2>5. onDisk'[u] = {file[u]}
    BY <1>t, <2>1 DEF TypeOK
  <2>6. Honours(u, file[u])'
    <3>1. CASE worker[w].op = "enroll"
      <4>1. /\ handedOut'[u] = handedOut[u] \cup {t.id}
            /\ kept'[u] = kept[u] \cup {t} /\ gone'[u] = gone[u]
        BY <1>t, <2>1, <2>b, <3>1 DEF Acknowledge, TypeOK
      <4>2. QED
        BY <1>6, <2>2, <2>b, <3>1, <4>1 DEF Promises, Honours, Counted, SyncDir
    <3>2. CASE worker[w].op = "remove"
      <4>1. /\ gone'[u] = gone[u] \cup {t.id}
            /\ kept'[u] = kept[u] /\ handedOut'[u] = handedOut[u]
        BY <1>t, <2>1, <2>b, <3>2 DEF Acknowledge, TypeOK
      <4>2. QED
        BY <1>6, <2>2, <2>b, <3>2, <4>1 DEF Promises, Honours, Counted, SyncDir
    <3>3. QED
      BY <2>1, <3>1, <3>2 DEF Acknowledge
  <2>7. \A x \in Users : \A f \in onDisk'[x] : Honours(x, f)'
    BY <1>6, <2>4, <2>5, <2>6 DEF DurableInv, Honours, Counted, SyncDir
  <2>8. QED
    BY <2>3, <2>7 DEF DurableInv
<1>7. ASSUME NEW p \in Pids, Crash(p) \/ PowerLoss(p)
      PROVE  DurableInv'
  <2>1. /\ \A w \in Workers : worker'[w] = Idle
        /\ UNCHANGED <<kept, handedOut, gone>>
        /\ \A u \in Users : onDisk'[u] \subseteq onDisk[u]
    BY <1>7 DEF Crash, PowerLoss, history
  <2>2. QED
    BY <2>1 DEF DurableInv, Honours, Counted
<1>8. CASE UNCHANGED vars
  BY <1>8 DEF vars, DurableInv, Promises, Honours, Counted
<1>9. QED
  BY <1>1, <1>2, <1>3, <1>4, <1>5, <1>6, <1>7, <1>8 DEF Next, WorkerStep

LEMMA Durable ==
  ASSUME ~Overlap, CountedInitially
  PROVE  Spec => [](InstallInv /\ DurableInv)
BY InstallInit, InstallStep, DurableInit, DurableStep, PTL DEF Spec

\* With one admin command at a time, an acknowledged enrollment is in the
\* file until its removal is requested, whatever crashes and I/O errors come.
THEOREM EnrollmentsStay ==
  ASSUME ~Overlap, CountedInitially
  PROVE  Spec => []AckedEnrollmentKept
<1>1. InstallInv /\ DurableInv => AckedEnrollmentKept
  BY DEF InstallInv, FilesComplete, DurableInv, Honours, AckedEnrollmentKept
<1>2. QED
  BY <1>1, Durable, PTL

\* With one admin command at a time, an acknowledged removal is final.
THEOREM RemovalsStay ==
  ASSUME ~Overlap, CountedInitially
  PROVE  Spec => []RemovedStaysRemoved
<1>1. InstallInv /\ DurableInv => RemovedStaysRemoved
  BY DEF InstallInv, FilesComplete, DurableInv, Honours, RemovedStaysRemoved
<1>2. QED
  BY <1>1, Durable, PTL

\* With one admin command at a time on counted files, no enrollment returns an
\* id that an earlier one returned, removed templates included.
THEOREM IdsNotReused ==
  ASSUME ~Overlap, CountedInitially
  PROVE  Spec => NeverReusesId
<1> DEFINE Fresh ==
      \A w \in Workers :
        /\ Busy(w, "renamed") /\ worker[w].op = "enroll"
        /\ worker[w].tpl.id \in handedOut[worker[w].user]
        /\ worker[w].tpl.id # MaxId
        => ~SyncDir(w)
<1>1. InstallInv /\ DurableInv => Fresh
  BY DEF DurableInv, Promises, Busy
<1>2. Spec => [][Fresh]_vars
  BY <1>1, Durable, PTL
<1>3. QED
  BY <1>2 DEF NeverReusesId

-----------------------------------------------------------------------------
(* One admin command at a time, the store is a registry.                     *)

\* At first no thread is at work.
LEMMA ChangeInit == Init => ChangeInv
BY DEF Init, ChangeInv

\* As long as requests do not overlap, the file is still what a request loaded
\* when it installs its own.
LEMMA ChangeStep ==
  ASSUME ~Overlap
  PROVE  InstallInv /\ ChangeInv /\ [Next]_vars => ChangeInv'
<1> SUFFICES ASSUME InstallInv, ChangeInv, [Next]_vars
             PROVE  ChangeInv'
  OBVIOUS
<1>t. TypeOK /\ FilesComplete
  BY DEF InstallInv
<1>1. ASSUME NEW w \in Workers, NEW u \in Users, NEW s \in Samples, LoadEnroll(w, u, s)
      PROVE  ChangeInv'
  <2> DEFINE t == [id |-> FreshId(file[u]), sample |-> s]
             job == [op |-> "enroll", user |-> u, tpl |-> t,
                     store |-> WithTemplate(file[u], t), step |-> "loaded"]
  <2>1. file[u] \in Store
    BY <1>t DEF FilesComplete
  <2>2. OneChange(job)
    BY <2>1, FreshIdAbove DEF OneChange
  <2>3. /\ \A v \in Workers : worker[v] = Idle
        /\ worker' = [worker EXCEPT ![w] = job]
        /\ UNCHANGED file
    BY <1>1 DEF LoadEnroll, MayStart
  <2> HIDE DEF job
  <2>4. worker'[w] = job /\ \A v \in Workers : v # w => worker'[v] = Idle
    BY <1>t, <2>3 DEF TypeOK
  <2>5. OneChange(worker[w])'
    BY <2>2, <2>3, <2>4 DEF OneChange
  <2>6. QED
    BY <2>4, <2>5 DEF ChangeInv
<1>2. ASSUME NEW w \in Workers, NEW u \in Users, NEW t \in file[u].templates,
             LoadRemove(w, u, t)
      PROVE  ChangeInv'
  <2> DEFINE job == [op |-> "remove", user |-> u, tpl |-> t,
                     store |-> WithoutId(file[u], t.id), step |-> "loaded"]
  <2>1. OneChange(job)
    BY DEF OneChange
  <2>2. /\ \A v \in Workers : worker[v] = Idle
        /\ worker' = [worker EXCEPT ![w] = job]
        /\ UNCHANGED file
    BY <1>2 DEF LoadRemove, MayStart
  <2> HIDE DEF job
  <2>3. worker'[w] = job /\ \A v \in Workers : v # w => worker'[v] = Idle
    BY <1>t, <2>2 DEF TypeOK
  <2>4. OneChange(worker[w])'
    BY <2>1, <2>2, <2>3 DEF OneChange
  <2>5. QED
    BY <2>3, <2>4 DEF ChangeInv
<1>3. ASSUME NEW w \in Workers, NEW step \in Steps, worker[w] # Idle,
             worker[w].step # "renamed", Advance(w, step), UNCHANGED file
      PROVE  ChangeInv'
  <2>1. /\ \A v \in Workers : v # w => worker'[v] = worker[v]
        /\ worker'[w] # Idle
        /\ worker'[w].op = worker[w].op /\ worker'[w].user = worker[w].user
        /\ worker'[w].tpl = worker[w].tpl /\ worker'[w].store = worker[w].store
    BY <1>3, <1>t, AdvanceKeepsJob
  <2>2. OneChange(worker[w])
    BY <1>3 DEF ChangeInv
  <2>3. OneChange(worker'[w])
    BY <2>1, <2>2 DEF OneChange
  <2>4. OneChange(worker[w])'
    BY <1>3, <2>3 DEF OneChange
  <2>5. \A v \in Workers : v # w => worker[v] = Idle /\ worker'[v] = Idle
    BY <1>3, <2>1 DEF ChangeInv
  <2>6. QED
    BY <2>1, <2>4, <2>5 DEF ChangeInv
<1>4. ASSUME NEW w \in Workers, CreateTmp(w) \/ WriteTmp(w)
      PROVE  ChangeInv'
  BY <1>3, <1>4 DEF CreateTmp, WriteTmp, Busy, Steps
<1>5. ASSUME NEW w \in Workers, Rename(w)
      PROVE  ChangeInv'
  <2>1. worker[w] # Idle /\ Advance(w, "renamed")
    BY <1>5 DEF Rename, Busy
  <2>2. /\ \A v \in Workers : v # w => worker'[v] = worker[v]
        /\ worker'[w].step = "renamed"
    BY <1>t, <2>1, AdvanceKeepsJob DEF Steps
  <2>3. \A v \in Workers : v # w => worker'[v] = Idle
    BY <2>1, <2>2 DEF ChangeInv
  <2>4. QED
    BY <2>2, <2>3 DEF ChangeInv
<1>6. ASSUME NEW w \in Workers, CreateFails(w) \/ InstallFails(w) \/ SyncDir(w) \/ SyncFails(w)
      PROVE  ChangeInv'
  <2>1. worker[w] # Idle /\ Respond(w)
    BY <1>6 DEF CreateFails, InstallFails, SyncDir, SyncFails, Acknowledge, Busy
  <2>2. \A v \in Workers : worker'[v] = Idle
    BY <1>t, <2>1, RespondFreesThread DEF ChangeInv
  <2>3. QED
    BY <2>2 DEF ChangeInv
<1>7. ASSUME NEW p \in Pids, Crash(p) \/ PowerLoss(p)
      PROVE  ChangeInv'
  BY <1>7 DEF Crash, PowerLoss, ChangeInv
<1>8. CASE UNCHANGED vars
  BY <1>8 DEF vars, ChangeInv, OneChange
<1>9. QED
  BY <1>1, <1>2, <1>4, <1>5, <1>6, <1>7, <1>8 DEF Next, WorkerStep

LEMMA RegistryInit == Init => Registry!Init
BY DEF Init, Registry!Init

\* A rename is an addition or a deletion of the registry, a synced directory
\* settles it, a power loss is one; no other step changes it.
LEMMA RegistrySimulated ==
  InstallInv /\ ChangeInv /\ [Next]_vars => [Registry!Next]_(Registry!vars)
<1> SUFFICES ASSUME InstallInv, ChangeInv, [Next]_vars
             PROVE  [Registry!Next]_(Registry!vars)
  OBVIOUS
<1>t. TypeOK /\ FilesComplete /\ TmpExclusive
  BY DEF InstallInv
<1>1. ASSUME UNCHANGED <<file, onDisk>>
      PROVE  UNCHANGED Registry!vars
  BY <1>1 DEF Registry!vars
<1>2. ASSUME NEW w \in Workers, Rename(w)
      PROVE  Registry!Next
  <2> DEFINE job == worker[w]
             u == job.user
             f == file[u]
  <2>1. /\ job \in Job /\ job # Idle /\ job.step = "written" /\ Busy(w, "written")
        /\ file' = [file EXCEPT ![u] = tmp[u][pid]]
        /\ onDisk' = [onDisk EXCEPT ![u] = @ \cup {tmp[u][pid]}]
    BY <1>t, <1>2 DEF Rename, Busy, TypeOK
  <2>2. u \in Users /\ job.tpl \in Registry!Template /\ f \in Store
    BY <1>t, <2>1 DEF Job, Template, Ids, Registry!Template, Registry!Ids, FilesComplete
  <2>3. tmp[u][pid] = job.store
    BY <1>t, <2>1 DEF TmpExclusive
  <2>4. Registry!Change(u, job.store)
    BY <2>1, <2>3 DEF Registry!Change
  <2>5. OneChange(job)
    BY <2>1 DEF ChangeInv
  <2>6. CASE job.op = "enroll"
    <3>1. job.store = WithTemplate(f, job.tpl) /\ job.tpl.id >= f.next_id
      BY <2>5, <2>6 DEF OneChange
    <3>2. \A o \in f.templates : o.id < job.tpl.id \/ job.tpl.id = MaxId
      BY <2>5, <2>6 DEF OneChange
    <3>3. job.tpl.id \in 0 .. MaxId /\ MaxId \in Nat
      BY <2>1, StoreAssumption DEF Job, Template, Ids
    <3>4. /\ Succ(job.tpl.id) \in Registry!Ids
          /\ \/ Succ(job.tpl.id) > job.tpl.id
             \/ job.tpl.id = MaxId /\ Succ(job.tpl.id) = MaxId
      BY <3>3 DEF Succ, Registry!Ids
    <3>5. Registry!Change(u, [templates |-> f.templates \cup {job.tpl},
                              next_id |-> Succ(job.tpl.id)])
      BY <2>4, <3>1 DEF WithTemplate
    <3>6. Registry!Add(u, job.tpl)
      BY <3>1, <3>2, <3>4, <3>5 DEF Registry!Add
    <3>7. QED
      BY <2>2, <3>6 DEF Registry!Next
  <2>7. CASE job.op = "remove"
    <3>1. job.store = WithoutId(f, job.tpl.id)
      BY <2>5, <2>7 DEF OneChange
    <3>2. \E t \in f.templates : t.id = job.tpl.id
      BY <2>5, <2>7 DEF OneChange
    <3>3. job.store = [templates |-> {t \in f.templates : t.id # job.tpl.id},
                       next_id |-> f.next_id]
      BY <2>2, <3>1 DEF WithoutId, Store
    <3>4. Registry!Delete(u, job.tpl.id)
      BY <2>4, <3>2, <3>3 DEF Registry!Delete
    <3>5. job.tpl.id \in Registry!Ids
      BY <2>2 DEF Registry!Template
    <3>6. QED
      BY <2>2, <3>4, <3>5 DEF Registry!Next
  <2>8. QED
    BY <2>5, <2>6, <2>7 DEF OneChange
<1>3. ASSUME NEW w \in Workers, SyncDir(w)
      PROVE  Registry!Next
  <2>1. worker[w].user \in Users
    BY <1>t, <1>3 DEF SyncDir, Busy, TypeOK, Job
  <2>2. Registry!Settle(worker[w].user)
    BY <1>3 DEF SyncDir, Registry!Settle
  <2>3. QED
    BY <2>1, <2>2 DEF Registry!Next
<1>4. ASSUME NEW p \in Pids, PowerLoss(p)
      PROVE  Registry!Next
  BY <1>4 DEF PowerLoss, Registry!PowerLoss, Registry!Next
<1>5. ASSUME NEW w \in Workers,
             \/ \E u \in Users, s \in Samples : LoadEnroll(w, u, s)
             \/ \E u \in Users : \E t \in file[u].templates : LoadRemove(w, u, t)
             \/ CreateTmp(w) \/ CreateFails(w) \/ WriteTmp(w) \/ InstallFails(w) \/ SyncFails(w)
      PROVE  UNCHANGED <<file, onDisk>>
  BY <1>5 DEF LoadEnroll, LoadRemove, CreateTmp, CreateFails, WriteTmp, InstallFails, SyncFails
<1>6. ASSUME NEW p \in Pids, Crash(p)
      PROVE  UNCHANGED <<file, onDisk>>
  BY <1>6 DEF Crash
<1>7. CASE UNCHANGED vars
  BY <1>1, <1>7 DEF vars
<1>8. QED
  BY <1>1, <1>2, <1>3, <1>4, <1>5, <1>6, <1>7 DEF Next, WorkerStep

\* One admin command at a time, every behaviour of the store, with its threads,
\* temporary files, failures, crashes and power losses, is one of a registry
\* whose additions and deletions are atomic and whose answers are durable.
THEOREM StoreImplementsRegistry ==
  ASSUME ~Overlap
  PROVE  Spec => ImplementsRegistry
<1>1. Spec => [](InstallInv /\ ChangeInv)
  BY InstallInit, InstallStep, ChangeInit, ChangeStep, PTL DEF Spec
<1>2. Spec => Registry!Spec
  BY <1>1, RegistryInit, RegistrySimulated, PTL DEF Spec, Registry!Spec
<1>3. QED
  BY <1>2 DEF ImplementsRegistry

=============================================================================
