--------------------------- MODULE PamFilesProofs ---------------------------
(***************************************************************************)
(* Proofs about PamFiles, for any files, processes, clocks and events.     *)
(*                                                                         *)
(* A step is one of the edits of an administrator, or one of a process.    *)
(* For each a lemma says what it does to the fields of the processes; the  *)
(* invariants are then proved from those.  They are stated of PamStep,     *)
(* which also covers the steps of the menu.                                *)
(***************************************************************************)
EXTENDS PamFiles, TLAPS, FiniteSetTheorems, WellFoundedInduction

-----------------------------------------------------------------------------
(* Seconds and backups. *)

\* A nonempty set of seconds has a last one.
LEMMA MaxSecond ==
  ASSUME NEW S, S \subseteq Seconds, S # {}
  PROVE  /\ Max(S) \in S
         /\ \A s \in S : Max(S) >= s
<1>1. MaxTime \in Nat
  BY PamAssumption
<1> DEFINE left == {MaxTime - s : s \in S}
<1>2. \A s \in S : MaxTime - s \in Nat
  BY <1>1 DEF Seconds
<1>3. left \subseteq Nat /\ left # {}
  BY <1>2
<1>4. PICK d \in left : \A e \in left : ~ (<<e, d>> \in OpToRel(<, Nat))
  BY <1>3, NatLessThanWellFounded, WFMin
<1>5. \A e \in left : ~ (e < d)
  BY <1>3, <1>4 DEF OpToRel
<1>6. PICK m \in S : d = MaxTime - m
  BY <1>4
<1>7. ASSUME NEW s \in S
      PROVE  m >= s
  <2>1. ~ (MaxTime - s < MaxTime - m)
    BY <1>5, <1>6
  <2>2. m \in 0 .. MaxTime /\ s \in 0 .. MaxTime
    BY <1>6 DEF Seconds
  <2>3. QED
    BY <1>1, <2>1, <2>2
<1>8. QED
  BY <1>6, <1>7 DEF Max

\* Seconds are finitely many.
LEMMA SomeSeconds ==
  ASSUME NEW L \in SUBSET Seconds
  PROVE  IsFiniteSet(L) /\ Cardinality(L) \in Nat
<1>1. IsFiniteSet(Seconds)
  BY PamAssumption, FS_Interval DEF Seconds
<1>2. QED
  BY <1>1, FS_Subset, FS_CardinalityType

\* Pruning keeps or removes backups, changes none, keeps one that has at most those
\* of L and one more newer if there is room for them, and the newest in any case.
LEMMA PruneIs ==
  ASSUME NEW b \in [Seconds -> Contents \cup {None}]
  PROVE  /\ Prune(b) \in [Seconds -> Contents \cup {None}]
         /\ \A s \in Seconds : Prune(b)[s] # None => Prune(b)[s] = b[s]
         /\ \A s \in Seconds : (\A r \in Seconds : b[r] # None => r <= s) => Prune(b)[s] = b[s]
         /\ \A L \in SUBSET Seconds, s, n \in Seconds :
              /\ Cardinality(L) + 2 <= MaxBackups
              /\ \A r \in Seconds : b[r] # None /\ r > s => r \in L \/ r = n
              => Prune(b)[s] = b[s]
<1> DEFINE kept == {s \in Seconds : b[s] # None}
           newer(s) == {r \in kept : r > s}
<1>1. Prune(b) = [s \in Seconds |-> IF Cardinality(newer(s)) < MaxBackups THEN b[s] ELSE None]
  BY DEF Prune
<1>2. MaxBackups \in Nat \ {0} /\ Seconds \subseteq Nat
  BY PamAssumption DEF Seconds
<1>3. ASSUME NEW s \in Seconds, \A r \in Seconds : b[r] # None => r <= s
      PROVE  Cardinality(newer(s)) < MaxBackups
  <2>1. \A r \in kept : ~ (r > s)
    BY <1>2, <1>3
  <2>2. newer(s) = {}
    BY <2>1
  <2>3. QED
    BY <1>2, <2>2, FS_EmptySet
<1>4. ASSUME NEW L \in SUBSET Seconds, NEW s \in Seconds, NEW n \in Seconds,
             Cardinality(L) + 2 <= MaxBackups,
             \A r \in Seconds : b[r] # None /\ r > s => r \in L \/ r = n
      PROVE  Cardinality(newer(s)) < MaxBackups
  <2>1. newer(s) \in SUBSET (L \cup {n})
    BY <1>4
  <2>2. IsFiniteSet(L) /\ Cardinality(L) \in Nat /\ Cardinality(newer(s)) \in Nat
    BY SomeSeconds
  <2>3. /\ IsFiniteSet(L \cup {n})
        /\ Cardinality(L \cup {n}) = IF n \in L THEN Cardinality(L) ELSE Cardinality(L) + 1
    BY <2>2, FS_AddElement
  <2>4. Cardinality(newer(s)) <= Cardinality(L \cup {n})
    BY <2>1, <2>3, FS_Subset
  <2>5. QED
    BY <1>2, <1>4, <2>2, <2>3, <2>4
<1> HIDE DEF newer
<1>5. QED
  BY <1>1, <1>3, <1>4

-----------------------------------------------------------------------------
(* What each step does. *)

\* No process but p changes.
Keeps(p) == /\ proc' \in [Procs -> Process]
            /\ \A q \in Procs : q # p => proc'[q] = proc[q]

\* p goes on with its command.
Goes(p, at, todo, f, content, source, s) ==
  /\ Keeps(p)
  /\ proc'[p].op = proc[p].op /\ proc'[p].files = proc[p].files
  /\ proc'[p].enable = proc[p].enable /\ proc'[p].alone = proc[p].alone
  /\ proc'[p].at = at /\ proc'[p].todo = todo /\ proc'[p].f = f
  /\ proc'[p].content = content /\ proc'[p].source = source /\ proc'[p].s = s

\* p is at work no more.
Stops(p) == /\ Keeps(p)
            /\ proc'[p].at \in {"free", "done", "failed"}
            /\ proc'[p].content = None /\ proc'[p].source = None /\ proc'[p].todo = {}

LEMMA SourceTyped ==
  ASSUME TypeOK, NEW f \in Files
  PROVE  Source(f) \in Contents \cup {None}
BY PamAssumption DEF TypeOK, Source

LEMMA LineSet ==
  ASSUME NEW c \in Contents, NEW line \in BOOLEAN
  PROVE  /\ [c EXCEPT !.line = line] \in Contents
         /\ [c EXCEPT !.line = line].line = line
         /\ [c EXCEPT !.line = line].body = c.body
BY DEF Contents

LEMMA LineIs ==
  ASSUME NEW c \in Contents
  PROVE  HasLine(c) = c.line
<1>1. c # None /\ c.line \in BOOLEAN
  BY PamAssumption DEF Contents
<1>2. CASE c.line
  BY <1>1, <1>2 DEF HasLine
<1>3. CASE ~c.line
  BY <1>1, <1>3 DEF HasLine
<1>4. QED
  BY <1>2, <1>3

LEMMA FreeTyped == Free \in Process
<1>1. {} \subseteq Tasks /\ {} \subseteq Files
  OBVIOUS
<1>2. QED
  BY <1>1 DEF Free, Process

\* The process that changes is as it is set.
LEMMA Becomes ==
  ASSUME TypeOK, NEW p \in Procs, NEW r \in Process, proc' = [proc EXCEPT ![p] = r]
  PROVE  Keeps(p) /\ proc'[p] = r
BY DEF TypeOK, Keeps

\* A file as wanted is passed over; any other is opened to be copied.
LEMMA ReadForSwitchIs ==
  ASSUME TypeOK, NEW p \in Procs, NEW task \in proc[p].todo, ReadForSwitch(p, task)
  PROVE  LET r == proc[p]
             src == Source(task.file)
         IN  /\ At(p, "next") /\ task \in Tasks /\ task.kind = "set"
             /\ src \in Contents
             /\ UNCHANGED <<etc, backup, now, events, mishaps, lost>>
             /\ \/ /\ src.line = r.enable
                   /\ Goes(p, "next", r.todo \ {task}, r.f, r.content, r.source, r.s)
                \/ /\ src.line # r.enable
                   /\ Goes(p, "copy", r.todo \ {task}, task.file,
                           [src EXCEPT !.line = r.enable], r.source, r.s)
<1> DEFINE r == proc[p]
           src == Source(task.file)
           new == [src EXCEPT !.line = r.enable]
           skip == [r EXCEPT !.todo = @ \ {task}]
           copy == [r EXCEPT !.todo = @ \ {task}, !.at = "copy", !.f = task.file,
                             !.content = new]
<1>1. r \in Process /\ task \in Tasks
  BY DEF TypeOK, Process
<1>2. task.file \in Files
  BY <1>1 DEF Tasks
<1>3. src \in Contents /\ r.at = "next" /\ task.kind = "set"
  BY <1>2, SourceTyped DEF ReadForSwitch, Begin, At
<1>4. r.enable \in BOOLEAN
  BY <1>1 DEF Process
<1>5. new \in Contents
  BY <1>3, <1>4, LineSet
<1>6. CASE src.line = r.enable
  <2>1. proc' = [proc EXCEPT ![p] = skip]
    BY <1>6 DEF ReadForSwitch, Rest
  <2>2. skip \in Process
    BY <1>1 DEF Process
  <2>3. Keeps(p) /\ proc'[p] = skip
    BY <2>1, <2>2, Becomes
  <2>4. Goes(p, "next", r.todo \ {task}, r.f, r.content, r.source, r.s)
    BY <1>1, <1>3, <2>3 DEF Goes, Process
  <2>5. QED
    BY <1>1, <1>3, <1>6, <2>4 DEF ReadForSwitch, At
<1>7. CASE src.line # r.enable
  <2>1. proc' = [proc EXCEPT ![p] = copy]
    BY <1>7 DEF ReadForSwitch, Rest
  <2> HIDE DEF new
  <2>2. copy \in Process
    BY <1>1, <1>2, <1>5 DEF Process
  <2>3. Keeps(p) /\ proc'[p] = copy
    BY <2>1, <2>2, Becomes
  <2>4. Goes(p, "copy", r.todo \ {task}, task.file, new, r.source, r.s)
    BY <1>1, <2>3 DEF Goes, Process
  <2>5. QED
    BY <1>1, <1>3, <1>7, <2>4 DEF ReadForSwitch, At, new
<1>8. QED
  BY <1>6, <1>7

LEMMA OpenBackupIs ==
  ASSUME TypeOK, NEW p \in Procs, NEW second \in Seconds, OpenBackup(p, second),
         proc[p].f \in Files
  PROVE  LET r == proc[p]
         IN  /\ At(p, "copy") /\ Source(r.f) \in Contents
             /\ second >= now /\ now' = second
             /\ backup' = [backup EXCEPT ![r.f] = [@ EXCEPT ![second] = Torn]]
             /\ UNCHANGED <<etc, events, lost>>
             /\ mishaps \subseteq mishaps' /\ mishaps' \subseteq Mishaps
             /\ backup[r.f][second] # None => "overwritten" \in mishaps'
             /\ Goes(p, "copying", r.todo, r.f, r.content, Source(r.f), second)
<1> DEFINE r == proc[p]
           n == [r EXCEPT !.at = "copying", !.source = Source(r.f), !.s = second]
<1>1. r \in Process
  BY DEF TypeOK
<1>2. Source(r.f) \in Contents
  BY SourceTyped DEF OpenBackup, Exists
<1>3. proc' = [proc EXCEPT ![p] = n]
  BY DEF OpenBackup
<1>4. n \in Process
  BY <1>1, <1>2 DEF Process
<1>5. Keeps(p) /\ proc'[p] = n
  BY <1>3, <1>4, Becomes
<1>6. Goes(p, "copying", r.todo, r.f, r.content, Source(r.f), second)
  BY <1>1, <1>5 DEF Goes, Process
<1>7. QED
  BY <1>2, <1>6 DEF OpenBackup, TypeOK, Mishaps

LEMMA CopyToBackupIs ==
  ASSUME TypeOK, NEW p \in Procs, CopyToBackup(p)
  PROVE  LET r == proc[p]
         IN  /\ At(p, "copying")
             /\ backup' = [backup EXCEPT ![r.f] = Prune([@ EXCEPT ![r.s] = r.source])]
             /\ UNCHANGED <<etc, now, events, mishaps, lost>>
             /\ Goes(p, "install", r.todo, r.f, r.content, r.source, r.s)
<1> DEFINE r == proc[p]
           n == [r EXCEPT !.at = "install"]
<1>1. r \in Process
  BY DEF TypeOK
<1>2. proc' = [proc EXCEPT ![p] = n]
  BY DEF CopyToBackup
<1>3. n \in Process
  BY <1>1 DEF Process
<1>4. Keeps(p) /\ proc'[p] = n
  BY <1>2, <1>3, Becomes
<1>5. Goes(p, "install", r.todo, r.f, r.content, r.source, r.s)
  BY <1>1, <1>4 DEF Goes, Process
<1>6. QED
  BY <1>5 DEF CopyToBackup

LEMMA OnwardIs ==
  ASSUME TypeOK, NEW p \in Procs, proc' = Onward(p)
  PROVE  Goes(p, "next", proc[p].todo, None, None, None, None)
<1> DEFINE r == proc[p]
           n == [r EXCEPT !.at = "next", !.f = None, !.content = None, !.source = None, !.s = None]
<1>1. r \in Process
  BY DEF TypeOK
<1>2. proc' = [proc EXCEPT ![p] = n]
  BY DEF Onward
<1>3. n \in Process
  BY <1>1 DEF Process
<1>4. Keeps(p) /\ proc'[p] = n
  BY <1>2, <1>3, Becomes
<1>5. QED
  BY <1>1, <1>4 DEF Goes, Process

LEMMA InstallIs ==
  ASSUME TypeOK, NEW p \in Procs, Install(p)
  PROVE  /\ At(p, "install")
         /\ etc' = [etc EXCEPT ![proc[p].f] = proc[p].content]
         /\ UNCHANGED <<backup, now, events, mishaps>>
         /\ lost' = [lost EXCEPT ![proc[p].f] = {}]
         /\ Goes(p, "next", proc[p].todo, None, None, None, None)
BY OnwardIs DEF Install

\* The content to restore, or the file without the line.
LEMMA ReadForRecoveryIs ==
  ASSUME TypeOK, NEW p \in Procs, NEW task \in proc[p].todo, ReadForRecovery(p, task),
         task.kind = "restore" => task.s \in Seconds
  PROVE  LET r == proc[p]
         IN  /\ At(p, "next") /\ task \in Tasks /\ task.kind \in {"restore", "strip"}
             /\ UNCHANGED <<etc, backup, now, events, mishaps, lost>>
             /\ \/ /\ task.kind = "restore"
                   /\ backup[task.file][task.s] \in Contents
                   /\ Goes(p, "install", r.todo \ {task}, task.file,
                           backup[task.file][task.s], r.source, r.s)
                \/ /\ task.kind = "strip"
                   /\ etc[task.file] \in Contents
                   /\ Goes(p, "install", r.todo \ {task}, task.file,
                           [etc[task.file] EXCEPT !.line = FALSE], r.source, r.s)
<1> DEFINE r == proc[p]
           c == IF task.kind = "restore" THEN backup[task.file][task.s] ELSE etc[task.file]
           new == IF task.kind = "strip" THEN [c EXCEPT !.line = FALSE] ELSE c
           n == [r EXCEPT !.todo = @ \ {task}, !.at = "install", !.f = task.file, !.content = new]
<1>1. r \in Process /\ task \in Tasks
  BY DEF TypeOK, Process
<1>2. task.file \in Files /\ task.kind \in {"restore", "strip"} /\ r.at = "next"
  BY <1>1 DEF Tasks, ReadForRecovery, Begin, At
<1>3. c \in Contents
  BY <1>2 DEF TypeOK, ReadForRecovery
<1>4. new \in Contents
  <2> HIDE DEF c
  <2>1. QED
    BY <1>3, LineSet
<1>5. proc' = [proc EXCEPT ![p] = n]
  BY DEF ReadForRecovery, Rest
<1>6. Goes(p, "install", r.todo \ {task}, task.file, new, r.source, r.s)
  <2> HIDE DEF new
  <2>1. n \in Process
    BY <1>1, <1>2, <1>4 DEF Process
  <2>2. Keeps(p) /\ proc'[p] = n
    BY <1>5, <2>1, Becomes
  <2>3. QED
    BY <1>1, <2>2 DEF Goes, Process
<1>7. CASE task.kind = "restore"
  BY <1>1, <1>2, <1>3, <1>6, <1>7 DEF ReadForRecovery, At
<1>8. CASE task.kind = "strip"
  BY <1>1, <1>2, <1>3, <1>6, <1>8 DEF ReadForRecovery, At
<1>9. QED
  BY <1>2, <1>7, <1>8

\* p loses the backup it has begun, if it has.
Loses(p) ==
  lost' = IF proc[p].op \in Switching /\ proc[p].at \in {"copying", "install"}
          THEN [lost EXCEPT ![proc[p].f] = @ \cup {proc[p].s}] ELSE lost

\* A command that ends or dies with its backup begun loses it, maybe torn.
LEMMA StopsIs ==
  ASSUME TypeOK, NEW p \in Procs, Finish(p) \/ Fail(p) \/ Crash(p) \/ Leave(p)
  PROVE  /\ Stops(p)
         /\ UNCHANGED <<etc, backup, now, events>>
         /\ mishaps \subseteq mishaps' /\ mishaps' \subseteq Mishaps
         /\ At(p, "copying") => "cut" \in mishaps'
         /\ Loses(p)
<1> DEFINE ended(at) == [Free EXCEPT !.op = proc[p].op, !.at = at]
<1>1. proc[p] \in Process
  BY DEF TypeOK
<1>2. \A at \in {"done", "failed"} :
        /\ ended(at) \in Process
        /\ ended(at).at = at /\ ended(at).content = None
        /\ ended(at).source = None /\ ended(at).todo = {}
  BY <1>1, FreeTyped DEF Process, Free
<1>3. Free.at = "free" /\ Free.content = None /\ Free.source = None /\ Free.todo = {}
  BY DEF Free
<1> HIDE DEF ended
<1>4. Stops(p)
  <2>1. CASE Finish(p) \/ Fail(p)
    <3>1. PICK at \in {"done", "failed"} : proc' = [proc EXCEPT ![p] = ended(at)]
      BY <2>1 DEF Finish, Fail, Ended, ended
    <3>2. QED
      BY <1>2, <3>1, Becomes DEF Stops
  <2>2. CASE Crash(p) \/ Leave(p)
    <3>1. proc' = [proc EXCEPT ![p] = Free]
      BY <2>2 DEF Crash, Leave
    <3>2. QED
      BY <1>3, <3>1, FreeTyped, Becomes DEF Stops
  <2>3. QED
    BY <2>1, <2>2
<1>5. /\ mishaps \subseteq mishaps' /\ mishaps' \subseteq Mishaps
      /\ At(p, "copying") => "cut" \in mishaps'
      /\ Loses(p)
  <2>1. CASE Fail(p) \/ Crash(p)
    BY <2>1 DEF Fail, Crash, CutShort, TypeOK, Mishaps, At, Loses
  <2>2. CASE Finish(p) \/ Leave(p)
    BY <2>2 DEF Finish, Leave, TypeOK, At, Loses
  <2>3. QED
    BY <2>1, <2>2
<1>6. UNCHANGED <<etc, backup, now, events>>
  BY DEF Finish, Fail, Crash, Leave
<1>7. QED
  BY <1>4, <1>5, <1>6

\* How it ends.
LEMMA EndsAt ==
  ASSUME TypeOK, NEW p \in Procs
  PROVE  /\ Finish(p) => proc'[p].at = "done"
         /\ Fail(p) => proc'[p].at = "failed"
         /\ Crash(p) \/ Leave(p) => proc'[p].at = "free"
<1>1. ASSUME NEW at, proc' = Ended(p, at)
      PROVE  proc'[p].at = at
  <2> DEFINE n == [Free EXCEPT !.op = proc[p].op, !.at = at]
  <2>1. proc' = [proc EXCEPT ![p] = n]
    BY <1>1 DEF Ended
  <2>2. n.at = at
    BY DEF Free
  <2> HIDE DEF n
  <2>3. QED
    BY <2>1, <2>2 DEF TypeOK
<1>2. Free.at = "free"
  BY DEF Free
<1>3. QED
  BY <1>1, <1>2 DEF Finish, Fail, Crash, Leave, TypeOK

\* The menu leaves a service it cannot switch as it is.
LEMMA FailAndGoOnIs ==
  ASSUME TypeOK, NEW p \in Procs, FailAndGoOn(p)
  PROVE  LET r == proc[p]
         IN  /\ r.op = "disable" /\ Working(p)
             /\ UNCHANGED <<etc, backup, now, events>>
             /\ mishaps \subseteq mishaps' /\ mishaps' \subseteq Mishaps
             /\ At(p, "copying") => "cut" \in mishaps'
             /\ Loses(p)
             /\ \/ \E task \in r.todo :
                     /\ At(p, "next")
                     /\ Goes(p, "next", r.todo \ {task}, r.f, r.content, r.source, r.s)
                \/ Goes(p, "next", r.todo, None, None, None, None)
<1> DEFINE r == proc[p]
<1>1. r \in Process
  BY DEF TypeOK
<1>2. /\ mishaps \subseteq mishaps' /\ mishaps' \subseteq Mishaps
      /\ At(p, "copying") => "cut" \in mishaps'
      /\ Loses(p)
  BY DEF FailAndGoOn, CutShort, TypeOK, Mishaps, At, Loses
<1>3. CASE Working(p) /\ proc' = Onward(p)
  BY <1>2, <1>3, OnwardIs DEF FailAndGoOn
<1>4. ASSUME NEW task \in r.todo, Begin(p, task), proc' = [proc EXCEPT ![p].todo = Rest(p, task)]
      PROVE  At(p, "next") /\ Goes(p, "next", r.todo \ {task}, r.f, r.content, r.source, r.s)
  <2> DEFINE n == [r EXCEPT !.todo = r.todo \ {task}]
  <2>1. proc' = [proc EXCEPT ![p] = n]
    BY <1>4 DEF Rest
  <2>2. n \in Process
    BY <1>1 DEF Process
  <2>3. Keeps(p) /\ proc'[p] = n
    BY <2>1, <2>2, Becomes
  <2>4. QED
    BY <1>1, <1>4, <2>3 DEF Goes, Process, Begin, At
<1>5. QED
  BY <1>2, <1>3, <1>4 DEF FailAndGoOn, Working, At

\* q has another at work beside it, and does what it did.
Disturbs(q) ==
  /\ proc'[q].op = proc[q].op /\ proc'[q].at = proc[q].at
  /\ proc'[q].todo = proc[q].todo /\ proc'[q].files = proc[q].files
  /\ proc'[q].enable = proc[q].enable /\ proc'[q].f = proc[q].f
  /\ proc'[q].content = proc[q].content /\ proc'[q].source = proc[q].source
  /\ proc'[q].s = proc[q].s
  /\ proc'[q].alone => proc[q].alone /\ ~Working(q)

LEMMA DisturbedIs ==
  ASSUME TypeOK, NEW q \in Procs
  PROVE  /\ Disturbed(q) \in Process
         /\ proc'[q] = Disturbed(q) => Disturbs(q)
<1>1. proc[q] \in Process
  BY DEF TypeOK
<1>2. ASSUME NEW b \in BOOLEAN
      PROVE  LET r == [proc[q] EXCEPT !.alone = b]
             IN  /\ r \in Process
                 /\ r.op = proc[q].op /\ r.at = proc[q].at
                 /\ r.todo = proc[q].todo /\ r.files = proc[q].files
                 /\ r.enable = proc[q].enable /\ r.f = proc[q].f
                 /\ r.content = proc[q].content /\ r.source = proc[q].source
                 /\ r.s = proc[q].s /\ r.alone = b
  BY <1>1 DEF Process
<1> DEFINE b == proc[q].alone /\ ~Working(q)
<1>3. b \in BOOLEAN /\ Disturbed(q) = [proc[q] EXCEPT !.alone = b]
  BY DEF Disturbed
<1>4. b => proc[q].alone /\ ~Working(q)
  OBVIOUS
<1> HIDE DEF b
<1>5. QED
  BY <1>2, <1>3, <1>4 DEF Disturbs

LEMMA StartIs ==
  ASSUME TypeOK, NEW p \in Procs, NEW task \in Process, Start(p, task)
  PROVE  /\ At(p, "free")
         /\ UNCHANGED <<etc, backup, now, lost>>
         /\ mishaps \subseteq mishaps' /\ mishaps' \subseteq Mishaps
         /\ proc' \in [Procs -> Process]
         /\ proc'[p].op = task.op /\ proc'[p].at = task.at
         /\ proc'[p].todo = task.todo /\ proc'[p].files = task.files
         /\ proc'[p].enable = task.enable /\ proc'[p].f = task.f
         /\ proc'[p].content = task.content /\ proc'[p].source = task.source
         /\ proc'[p].alone \/ "overlap" \notin mishaps' => \A q \in Procs \ {p} : ~Working(q)
         /\ proc'[p].alone \/ "overlap" \in mishaps'
         /\ \A q \in Procs : q # p => Disturbs(q)
<1> DEFINE alone == \A q \in Procs \ {p} : ~Working(q)
           n == [task EXCEPT !.alone = alone]
<1>1. alone \in BOOLEAN
  OBVIOUS
<1>2. alone <=> \A q \in Procs \ {p} : ~Working(q)
  OBVIOUS
<1>3. /\ At(p, "free")
      /\ UNCHANGED <<etc, backup, now, lost>>
      /\ proc' = [q \in Procs |-> IF q = p THEN n ELSE Disturbed(q)]
      /\ mishaps' = mishaps \cup IF alone THEN {} ELSE {"overlap"}
  BY DEF Start
<1> HIDE DEF alone
<1>4. /\ n \in Process
      /\ n.op = task.op /\ n.at = task.at /\ n.todo = task.todo /\ n.files = task.files
      /\ n.enable = task.enable /\ n.f = task.f
      /\ n.content = task.content /\ n.source = task.source /\ n.alone = alone
  BY <1>1 DEF Process
<1> HIDE DEF n
<1>5. proc' \in [Procs -> Process] /\ proc'[p] = n
  BY <1>3, <1>4, DisturbedIs
<1>6. \A q \in Procs : q # p => Disturbs(q)
  BY <1>3, DisturbedIs
<1>7. /\ mishaps \subseteq mishaps' /\ mishaps' \subseteq Mishaps
      /\ "overlap" \notin mishaps' => alone
      /\ ~alone => "overlap" \in mishaps'
  BY <1>3 DEF TypeOK, Mishaps
<1>8. QED
  BY <1>2, <1>3, <1>4, <1>5, <1>6, <1>7

\* An edit that is no mishap leaves files without the line, and nobody works.
LEMMA EditIs ==
  ASSUME TypeOK, NEW g \in Files, NEW body \in Bodies \cup {None}, Edit(g, body)
  PROVE  /\ UNCHANGED <<backup, now, lost>>
         /\ events' \in 0 .. MaxEvents
         /\ mishaps \subseteq mishaps' /\ mishaps' \subseteq Mishaps
         /\ etc[g] \in Contents
         /\ etc' \in [Files -> Contents \cup {None}]
         /\ \A f \in Files : f # g => etc'[f] = etc[f]
         /\ etc'[g] # None => etc'[g].body # "empty" /\ etc'[g].line = etc[g].line
         /\ "edited" \notin mishaps' => ~etc[g].line /\ \A p \in Procs : ~Working(p)
         /\ proc' \in [Procs -> Process]
         /\ \A p \in Procs : Disturbs(p)
<1>1. etc[g] \in Contents
  BY DEF TypeOK, Edit
<1>2. ASSUME body \in Bodies
      PROVE  /\ [etc[g] EXCEPT !.body = body] \in Contents
             /\ [etc[g] EXCEPT !.body = body].body # "empty"
             /\ [etc[g] EXCEPT !.body = body].line = etc[g].line
  BY <1>1, <1>2, PamAssumption DEF Contents
<1>3. /\ etc' \in [Files -> Contents \cup {None}]
      /\ \A f \in Files : f # g => etc'[f] = etc[f]
      /\ etc'[g] # None => etc'[g].body # "empty" /\ etc'[g].line = etc[g].line
  <2>1. CASE body = None
    BY <1>1, <2>1 DEF TypeOK, Edit
  <2>2. CASE body # None
    <3> DEFINE new == [etc[g] EXCEPT !.body = body]
    <3>1. etc' = [etc EXCEPT ![g] = new]
      BY <2>2 DEF Edit
    <3>2. new \in Contents /\ new.body # "empty" /\ new.line = etc[g].line
      BY <1>2, <2>2
    <3> HIDE DEF new
    <3>3. QED
      BY <3>1, <3>2 DEF TypeOK
  <2>3. QED
    BY <2>1, <2>2
<1>4. events' \in 0 .. MaxEvents
  BY PamAssumption DEF Edit, Count, TypeOK
<1>5. /\ mishaps \subseteq mishaps' /\ mishaps' \subseteq Mishaps
      /\ "edited" \notin mishaps' => ~etc[g].line /\ \A p \in Procs : ~Working(p)
  BY DEF Edit, TypeOK, Mishaps
<1>6. proc' = [p \in Procs |-> Disturbed(p)] /\ UNCHANGED <<backup, now, lost>>
  BY DEF Edit
<1>7. proc' \in [Procs -> Process] /\ \A p \in Procs : Disturbs(p)
  BY <1>6, DisturbedIs
<1>8. QED
  BY <1>1, <1>3, <1>4, <1>5, <1>6, <1>7

-----------------------------------------------------------------------------
(* The steps of PamFiles, and what else the menu does to them. *)

ProcStep(p) ==
  \/ \E known, extra \in SUBSET Files : StartToggle(p, known, extra)
  \/ \E fs \in SUBSET Files : StartDisabling(p, fs)
  \/ StartEmergency(p)
  \/ Work(p) \/ Crash(p) \/ Leave(p)

PamStep == \/ Others
           \/ \E p \in Procs : ProcStep(p)
           \/ UNCHANGED <<etc, backup, now, proc, mishaps, lost>>

\* p begins a command with the tasks todo.
Begins(p, op, todo, fs, enable) ==
  /\ proc'[p].op = op /\ proc'[p].at = "next"
  /\ proc'[p].todo = todo /\ proc'[p].files = fs /\ proc'[p].enable = enable
  /\ proc'[p].content = None /\ proc'[p].source = None
  /\ At(p, "free")
  /\ UNCHANGED <<etc, backup, now, lost>>
  /\ mishaps \subseteq mishaps' /\ mishaps' \subseteq Mishaps
  /\ proc' \in [Procs -> Process]
  /\ proc'[p].alone \/ "overlap" \notin mishaps' => \A q \in Procs \ {p} : ~Working(q)
  /\ proc'[p].alone \/ "overlap" \in mishaps'
  /\ \A q \in Procs : q # p => Disturbs(q)

SetTasks(fs) == [kind : {"set"}, file : fs, s : {None}]

LEMMA SetTasksAre ==
  ASSUME NEW fs \in SUBSET Files
  PROVE  /\ SetTasks(fs) \subseteq Tasks
         /\ \A task \in SetTasks(fs) : task.kind = "set"
         /\ \A f \in fs : \E task \in SetTasks(fs) : task.file = f
<1>1. \A f \in fs : [kind |-> "set", file |-> f, s |-> None] \in SetTasks(fs)
  BY DEF SetTasks
<1>2. QED
  BY <1>1 DEF SetTasks, Tasks

LEMMA StartToggleIs ==
  ASSUME TypeOK, NEW p \in Procs, NEW known \in SUBSET Files, NEW extra \in SUBSET Files,
         StartToggle(p, known, extra)
  PROVE  LET fs == {f \in known : Exists(f)} \cup extra
         IN  Begins(p, "toggle", SetTasks(fs), fs, \E f \in fs : ~HasLine(Source(f)))
<1> DEFINE fs == {f \in known : Exists(f)} \cup extra
           on == \E f \in fs : ~HasLine(Source(f))
           task == [Free EXCEPT !.op = "toggle", !.at = "next", !.files = fs,
                                !.enable = on, !.todo = SetTasks(fs)]
<1>1. Start(p, task)
  BY DEF StartToggle, SetTasks
<1>2. on \in BOOLEAN
  OBVIOUS
<1>3. fs \in SUBSET Files /\ SetTasks(fs) \in SUBSET Tasks
  BY SetTasksAre
<1> HIDE DEF on, fs
<1>4. /\ task \in Process
      /\ task.op = "toggle" /\ task.at = "next" /\ task.files = fs
      /\ task.enable = on /\ task.todo = SetTasks(fs)
      /\ task.content = None /\ task.source = None
  BY <1>2, <1>3 DEF Process, Free, Switching
<1> HIDE DEF task
<1>5. Begins(p, "toggle", SetTasks(fs), fs, on)
  BY <1>1, <1>4, StartIs DEF Begins
<1>6. QED
  BY <1>5 DEF on, fs

LEMMA StartDisablingIs ==
  ASSUME TypeOK, NEW p \in Procs, NEW fs \in SUBSET Files, StartDisabling(p, fs)
  PROVE  Begins(p, "disable", SetTasks(fs), fs, FALSE)
<1> DEFINE task == [Free EXCEPT !.op = "disable", !.at = "next", !.files = fs,
                                !.todo = SetTasks(fs)]
<1>1. Start(p, task)
  BY DEF StartDisabling, SetTasks
<1>2. SetTasks(fs) \in SUBSET Tasks
  BY SetTasksAre
<1>3. /\ task \in Process
      /\ task.op = "disable" /\ task.at = "next" /\ task.files = fs
      /\ task.enable = FALSE /\ task.todo = SetTasks(fs)
      /\ task.content = None /\ task.source = None
  BY <1>2 DEF Process, Free, Switching
<1> HIDE DEF task
<1>4. QED
  BY <1>1, <1>3, StartIs DEF Begins

\* The plan restores from clean backups, and leaves out no file with the line.
LEMMA PlanIs ==
  ASSUME TypeOK
  PROVE  /\ Plan \subseteq Tasks
         /\ \A task \in Plan : /\ task.kind \in {"restore", "strip"}
                               /\ task.kind = "restore" => task.s \in Clean(task.file)
         /\ \A f \in Files : HasLine(etc[f]) => \E task \in Plan : task.file = f
<1> DEFINE restored == {f \in Files : /\ Clean(f) # {}
                                      /\ TextOf(etc[f]) # backup[f][Max(Clean(f))]}
           stripped == {f \in Files : HasLine(etc[f])} \ restored
           restore(f) == [kind |-> "restore", file |-> f, s |-> Max(Clean(f))]
           strip(f) == [kind |-> "strip", file |-> f, s |-> None]
<1>1. \A f \in restored : Max(Clean(f)) \in Clean(f) /\ Max(Clean(f)) \in Seconds
  BY MaxSecond DEF Clean
<1>2. \A f \in restored : /\ restore(f) \in Tasks /\ restore(f).kind = "restore"
                          /\ restore(f).file = f /\ restore(f).s \in Clean(f)
  BY <1>1 DEF Tasks
<1>3. \A f \in stripped : /\ strip(f) \in Tasks /\ strip(f).kind = "strip" /\ strip(f).file = f
  BY DEF Tasks
<1>4. Plan = {restore(f) : f \in restored} \cup [kind : {"strip"}, file : stripped, s : {None}]
  BY DEF Plan
<1>5. \A task \in [kind : {"strip"}, file : stripped, s : {None}] :
        task \in Tasks /\ task.kind = "strip"
  BY DEF Tasks
<1>6. \A f \in stripped : strip(f) \in [kind : {"strip"}, file : stripped, s : {None}]
  OBVIOUS
<1>7. \A f \in Files : HasLine(etc[f]) => f \in restored \/ f \in stripped
  OBVIOUS
<1> HIDE DEF restored, stripped, restore, strip
<1>8. \A task \in Plan : \/ \E f \in restored : task = restore(f)
                         \/ task \in [kind : {"strip"}, file : stripped, s : {None}]
  BY <1>4
<1>9. Plan \subseteq Tasks
  BY <1>2, <1>5, <1>8
<1>10. \A task \in Plan : /\ task.kind \in {"restore", "strip"}
                          /\ task.kind = "restore" => task.s \in Clean(task.file)
  BY <1>2, <1>5, <1>8
<1>11. \A f \in Files : HasLine(etc[f]) => \E task \in Plan : task.file = f
  BY <1>2, <1>3, <1>4, <1>6, <1>7
<1>12. QED
  BY <1>9, <1>10, <1>11

LEMMA StartEmergencyIs ==
  ASSUME TypeOK, NEW p \in Procs, StartEmergency(p)
  PROVE  Begins(p, "emergency", Plan, {}, FALSE)
<1> DEFINE task == [Free EXCEPT !.op = "emergency", !.at = "next", !.todo = Plan]
<1>1. Start(p, task)
  BY DEF StartEmergency
<1>2. Plan \in SUBSET Tasks /\ {} \in SUBSET Files
  BY PlanIs
<1>3. /\ task \in Process
      /\ task.op = "emergency" /\ task.at = "next" /\ task.files = {}
      /\ task.enable = FALSE /\ task.todo = Plan
      /\ task.content = None /\ task.source = None
  BY <1>2 DEF Process, Free
<1> HIDE DEF task
<1>4. QED
  BY <1>1, <1>3, StartIs DEF Begins

\* Whatever command p starts, it begins with some tasks.
LEMMA SomethingBegins ==
  ASSUME TypeOK, NEW p \in Procs,
         \/ \E known, extra \in SUBSET Files : StartToggle(p, known, extra)
         \/ \E fs \in SUBSET Files : StartDisabling(p, fs)
         \/ StartEmergency(p)
  PROVE  \E op, todo, fs, enable : Begins(p, op, todo, fs, enable)
<1>1. ASSUME NEW known \in SUBSET Files, NEW extra \in SUBSET Files,
             StartToggle(p, known, extra)
      PROVE  \E op, todo, fs, enable : Begins(p, op, todo, fs, enable)
  <2> DEFINE fs == {f \in known : Exists(f)} \cup extra
             on == \E f \in fs : ~HasLine(Source(f))
  <2>1. Begins(p, "toggle", SetTasks(fs), fs, on)
    BY <1>1, StartToggleIs
  <2> HIDE DEF on, fs
  <2>2. \E enable : Begins(p, "toggle", SetTasks(fs), fs, enable)
    BY <2>1
  <2>3. QED
    BY <2>2
<1>2. ASSUME NEW fs \in SUBSET Files, StartDisabling(p, fs)
      PROVE  \E op, todo, gs, enable : Begins(p, op, todo, gs, enable)
  <2>1. Begins(p, "disable", SetTasks(fs), fs, FALSE)
    BY <1>2, StartDisablingIs
  <2>2. \E enable : Begins(p, "disable", SetTasks(fs), fs, enable)
    BY <2>1
  <2>3. QED
    BY <2>2
<1>3. ASSUME StartEmergency(p)
      PROVE  \E op, todo, gs, enable : Begins(p, op, todo, gs, enable)
  <2>1. Begins(p, "emergency", Plan, {}, FALSE)
    BY <1>3, StartEmergencyIs
  <2>2. \E gs, enable : Begins(p, "emergency", Plan, gs, enable)
    BY <2>1
  <2>3. QED
    BY <2>2
<1>4. QED
  BY <1>1, <1>2, <1>3

-----------------------------------------------------------------------------
(* Types, and what a process has at its step. *)

Stepping == \A p \in Procs : StepInv(proc[p])

\* The processes that p's step leaves alone.
LEMMA SteppingKept ==
  ASSUME Stepping, NEW p \in Procs, Keeps(p), StepInv(proc'[p])
  PROVE  Stepping'
BY DEF Stepping, Keeps

LEMMA SteppingBegins ==
  ASSUME Stepping, NEW p \in Procs, NEW op, NEW todo, NEW fs, NEW enable,
         Begins(p, op, todo, fs, enable),
         op \in Switching \cup {"emergency"},
         \A task \in todo : /\ task.kind = "set" <=> op \in Switching
                            /\ task.kind = "restore" => task.s \in Seconds
  PROVE  Stepping'
<1>1. StepInv(proc'[p])
  BY DEF Begins, StepInv
<1>2. \A q \in Procs : q # p => StepInv(proc'[q])
  BY DEF Begins, Disturbs, Stepping, StepInv
<1>3. QED
  BY <1>1, <1>2 DEF Stepping

LEMMA SteppingStep == TypeOK /\ Stepping /\ PamStep => Stepping'
<1> SUFFICES ASSUME TypeOK, Stepping, PamStep
             PROVE  Stepping'
  OBVIOUS
<1>1. ASSUME NEW p \in Procs, NEW known \in SUBSET Files, NEW extra \in SUBSET Files,
             StartToggle(p, known, extra)
      PROVE  Stepping'
  <2> DEFINE fs == {f \in known : Exists(f)} \cup extra
  <2>1. fs \in SUBSET Files
    OBVIOUS
  <2>2. Begins(p, "toggle", SetTasks(fs), fs, \E f \in fs : ~HasLine(Source(f)))
    BY <1>1, StartToggleIs
  <2>3. \A task \in SetTasks(fs) : task.kind = "set"
    BY <2>1, SetTasksAre
  <2> HIDE DEF fs
  <2>4. QED
    BY <2>2, <2>3, SteppingBegins DEF Switching
<1>2. ASSUME NEW p \in Procs, NEW fs \in SUBSET Files, StartDisabling(p, fs)
      PROVE  Stepping'
  <2>1. Begins(p, "disable", SetTasks(fs), fs, FALSE)
    BY <1>2, StartDisablingIs
  <2>2. \A task \in SetTasks(fs) : task.kind = "set"
    BY SetTasksAre
  <2>3. QED
    BY <2>1, <2>2, SteppingBegins DEF Switching
<1>3. ASSUME NEW p \in Procs, StartEmergency(p)
      PROVE  Stepping'
  <2>1. Begins(p, "emergency", Plan, {}, FALSE)
    BY <1>3, StartEmergencyIs
  <2>2. \A task \in Plan : task.kind # "set" /\ (task.kind = "restore" => task.s \in Seconds)
    BY PlanIs DEF Clean
  <2>3. "emergency" \notin Switching
    BY DEF Switching
  <2>4. QED
    BY <2>1, <2>2, <2>3, SteppingBegins
<1>4. ASSUME NEW p \in Procs, NEW task \in proc[p].todo, ReadForSwitch(p, task)
      PROVE  Stepping'
  <2>1. StepInv(proc[p]) /\ proc[p] \in Process
    BY DEF Stepping, TypeOK
  <2>2. task \in Tasks /\ task.file \in Files
    BY <2>1 DEF Process, Tasks
  <2> DEFINE src == Source(task.file)
             new == [src EXCEPT !.line = proc[p].enable]
  <2>3. src \in Contents /\ proc[p].enable \in BOOLEAN
    BY <1>4, <2>1, ReadForSwitchIs DEF Process
  <2> HIDE DEF src
  <2>4. new.line = proc[p].enable /\ new # None
    BY <2>3, LineSet, PamAssumption
  <2> HIDE DEF new
  <2>5. \/ Goes(p, "next", proc[p].todo \ {task}, proc[p].f, proc[p].content,
               proc[p].source, proc[p].s)
        \/ Goes(p, "copy", proc[p].todo \ {task}, task.file, new, proc[p].source, proc[p].s)
    BY <1>4, ReadForSwitchIs DEF new, src
  <2>6. proc[p].at = "next" /\ task.kind = "set"
    BY <1>4, ReadForSwitchIs DEF At
  <2>7. proc[p].op \in Switching
    BY <2>1, <2>6 DEF StepInv
  <2>8. Keeps(p) /\ StepInv(proc'[p])
    BY <2>1, <2>2, <2>4, <2>5, <2>7 DEF Goes, StepInv
  <2>9. QED
    BY <2>8, SteppingKept
<1>5. ASSUME NEW p \in Procs, NEW second \in Seconds, OpenBackup(p, second)
      PROVE  Stepping'
  <2>1. StepInv(proc[p]) /\ proc[p].f \in Files
    BY <1>5 DEF Stepping, StepInv, OpenBackup, At
  <2>2. PICK c \in Contents :
          Goes(p, "copying", proc[p].todo, proc[p].f, proc[p].content, c, second)
    BY <1>5, <2>1, OpenBackupIs
  <2>3. proc[p].at = "copy"
    BY <1>5 DEF OpenBackup, At
  <2>4. Keeps(p) /\ StepInv(proc'[p])
    BY <2>1, <2>2, <2>3, PamAssumption DEF Goes, StepInv
  <2>5. QED
    BY <2>4, SteppingKept
<1>6. ASSUME NEW p \in Procs, CopyToBackup(p)
      PROVE  Stepping'
  <2>1. StepInv(proc[p])
    BY DEF Stepping
  <2>2. Keeps(p) /\ StepInv(proc'[p])
    BY <1>6, <2>1, CopyToBackupIs DEF Goes, StepInv, At
  <2>3. QED
    BY <2>2, SteppingKept
<1>7. ASSUME NEW p \in Procs, Install(p) \/ FailAndGoOn(p)
      PROVE  Stepping'
  <2>1. StepInv(proc[p])
    BY DEF Stepping
  <2>2. /\ Keeps(p)
        /\ proc'[p].at = "next" /\ proc'[p].op = proc[p].op /\ proc'[p].todo \subseteq proc[p].todo
    BY <1>7, InstallIs, FailAndGoOnIs DEF Goes
  <2>3. proc[p].op \in Switching \cup {"emergency"}
    BY <1>7, <2>1, InstallIs, FailAndGoOnIs DEF StepInv, At, Switching
  <2>4. StepInv(proc'[p])
    BY <2>1, <2>2, <2>3 DEF StepInv
  <2>5. QED
    BY <2>2, <2>4, SteppingKept
<1>8. ASSUME NEW p \in Procs, NEW task \in proc[p].todo, ReadForRecovery(p, task)
      PROVE  Stepping'
  <2>1. StepInv(proc[p]) /\ proc[p] \in Process
    BY DEF Stepping, TypeOK
  <2>2. /\ task \in Tasks /\ task.file \in Files /\ task.kind # "set"
        /\ task.kind = "restore" => task.s \in Seconds
    BY <1>8, <2>1 DEF Process, Tasks, StepInv, ReadForRecovery
  <2>3. proc[p].op \notin Switching
    BY <2>1, <2>2 DEF StepInv
  <2>4. PICK c \in Contents :
          Goes(p, "install", proc[p].todo \ {task}, task.file, c, proc[p].source, proc[p].s)
    BY <1>8, <2>2, ReadForRecoveryIs, LineSet
  <2>5. proc[p].op = "emergency"
    BY <1>8, <2>1, <2>2, <2>3 DEF ReadForRecovery, Begin, At, StepInv
  <2>6. Keeps(p) /\ StepInv(proc'[p])
    BY <2>1, <2>2, <2>4, <2>5, PamAssumption DEF Goes, StepInv, Switching
  <2>7. QED
    BY <2>6, SteppingKept
<1>9. ASSUME NEW p \in Procs, Finish(p) \/ Fail(p) \/ Crash(p) \/ Leave(p)
      PROVE  Stepping'
  <2>1. Stops(p)
    BY <1>9, StopsIs
  <2>2. Keeps(p) /\ StepInv(proc'[p])
    BY <2>1 DEF Stops, StepInv
  <2>3. QED
    BY <2>2, SteppingKept
<1>10. ASSUME NEW f \in Files, NEW body \in Bodies \cup {None}, Edit(f, body)
       PROVE  Stepping'
  BY <1>10, EditIs DEF Disturbs, Stepping, StepInv
<1>11. CASE UNCHANGED <<etc, backup, now, proc, mishaps, lost>>
  BY <1>11 DEF Stepping, StepInv
<1>12. QED
  BY <1>1, <1>2, <1>3, <1>4, <1>5, <1>6, <1>7, <1>8, <1>9, <1>10, <1>11
     DEF PamStep, ProcStep, Work, Others

\* What a backup that is opened or filled does to the backups of its file; those
\* of the others stay.
LEMMA BackupOpened ==
  ASSUME TypeOK, NEW f \in Files, NEW s \in Seconds,
         backup' = [backup EXCEPT ![f] = [@ EXCEPT ![s] = Torn]]
  PROVE  /\ backup' \in [Files -> [Seconds -> Contents \cup {None}]]
         /\ \A g \in Files : g # f => backup'[g] = backup[g]
         /\ backup'[f][s] = Torn
         /\ \A r \in Seconds : r # s => backup'[f][r] = backup[f][r]
<1>1. Torn \in Contents
  BY DEF Torn, Contents
<1> DEFINE new == [backup[f] EXCEPT ![s] = Torn]
<1>2. backup[f] \in [Seconds -> Contents \cup {None}]
  BY DEF TypeOK
<1>3. /\ new \in [Seconds -> Contents \cup {None}] /\ new[s] = Torn
      /\ \A r \in Seconds : r # s => new[r] = backup[f][r]
  BY <1>1, <1>2
<1> HIDE DEF new
<1>4. backup' = [backup EXCEPT ![f] = new]
  BY DEF new
<1>5. QED
  BY <1>3, <1>4 DEF TypeOK

LEMMA BackupFilled ==
  ASSUME TypeOK, NEW f \in Files, NEW s \in Seconds, NEW c \in Contents,
         backup' = [backup EXCEPT ![f] = Prune([@ EXCEPT ![s] = c])]
  PROVE  /\ backup' \in [Files -> [Seconds -> Contents \cup {None}]]
         /\ \A g \in Files : g # f => backup'[g] = backup[g]
         /\ backup'[f][s] \in {c, None}
         /\ \A r \in Seconds : r # s => backup'[f][r] \in {backup[f][r], None}
         /\ (\A r \in Seconds : backup[f][r] # None => r <= s) => backup'[f][s] = c
         /\ \A L \in SUBSET Seconds, r \in Seconds :
              /\ Cardinality(L) + 2 <= MaxBackups /\ r # s
              /\ \A q \in Seconds : backup[f][q] # None /\ q > r => q \in L \/ q = s
              => backup'[f][r] = backup[f][r]
<1> DEFINE old == backup[f]
           new == [old EXCEPT ![s] = c]
<1>1. old \in [Seconds -> Contents \cup {None}]
  BY DEF TypeOK
<1>2. /\ new \in [Seconds -> Contents \cup {None}] /\ new[s] = c
      /\ \A r \in Seconds : r # s => new[r] = old[r]
  BY <1>1
<1>3. /\ Prune(new) \in [Seconds -> Contents \cup {None}]
      /\ \A r \in Seconds : Prune(new)[r] # None => Prune(new)[r] = new[r]
      /\ \A r \in Seconds : (\A q \in Seconds : new[q] # None => q <= r) => Prune(new)[r] = new[r]
      /\ \A L \in SUBSET Seconds, r, n \in Seconds :
           /\ Cardinality(L) + 2 <= MaxBackups
           /\ \A q \in Seconds : new[q] # None /\ q > r => q \in L \/ q = n
           => Prune(new)[r] = new[r]
  BY <1>2, PruneIs
<1>4. backup' = [backup EXCEPT ![f] = Prune(new)]
  OBVIOUS
<1> HIDE DEF new
<1>5. /\ backup' \in [Files -> [Seconds -> Contents \cup {None}]]
      /\ \A g \in Files : g # f => backup'[g] = backup[g]
      /\ backup'[f] = Prune(new)
  BY <1>3, <1>4 DEF TypeOK
<1>6. ASSUME \A r \in Seconds : old[r] # None => r <= s
      PROVE  Prune(new)[s] = c
  <2>1. \A r \in Seconds : new[r] # None => r <= s
    BY <1>2, <1>6 DEF Seconds
  <2>2. QED
    BY <1>2, <1>3, <2>1
<1>7. ASSUME NEW L \in SUBSET Seconds, NEW r \in Seconds, r # s,
             Cardinality(L) + 2 <= MaxBackups,
             \A q \in Seconds : old[q] # None /\ q > r => q \in L \/ q = s
      PROVE  Prune(new)[r] = old[r]
  <2>1. \A q \in Seconds : new[q] # None /\ q > r => q \in L \/ q = s
    BY <1>2, <1>7
  <2>2. QED
    BY <1>2, <1>3, <1>7, <2>1
<1>8. QED
  BY <1>2, <1>3, <1>5, <1>6, <1>7

\* What is lost was a backup.
LEMMA LostTyped ==
  ASSUME TypeOK, Stepping, NEW p \in Procs, Loses(p)
  PROVE  lost' \in [Files -> SUBSET Seconds]
<1>1. CASE proc[p].op \in Switching /\ proc[p].at \in {"copying", "install"}
  <2>1. proc[p].f \in Files /\ proc[p].s \in Seconds
    BY <1>1 DEF Stepping, StepInv
  <2>2. QED
    BY <1>1, <2>1 DEF Loses, TypeOK
<1>2. CASE ~ (proc[p].op \in Switching /\ proc[p].at \in {"copying", "install"})
  BY <1>2 DEF Loses, TypeOK
<1>3. QED
  BY <1>1, <1>2

\* Every content a step writes or remembers is one that was read, with the line
\* set or removed, or an empty one.
LEMMA TypeStep ==
  TypeOK /\ Stepping /\ PamStep /\ events' \in 0 .. MaxEvents => TypeOK'
<1> SUFFICES ASSUME TypeOK, Stepping, PamStep, events' \in 0 .. MaxEvents
             PROVE  TypeOK'
  OBVIOUS
<1> DEFINE Shape == /\ etc' \in [Files -> Contents \cup {None}]
                    /\ backup' \in [Files -> [Seconds -> Contents \cup {None}]]
                    /\ now' \in Seconds
                    /\ mishaps' \subseteq Mishaps
                    /\ lost' \in [Files -> SUBSET Seconds]
                    /\ proc' \in [Procs -> Process]
<1>1. ASSUME NEW p \in Procs,
             \/ \E known, extra \in SUBSET Files : StartToggle(p, known, extra)
             \/ \E fs \in SUBSET Files : StartDisabling(p, fs)
             \/ StartEmergency(p)
      PROVE  Shape
  <2>1. \E op, todo, fs, enable : Begins(p, op, todo, fs, enable)
    BY <1>1, SomethingBegins
  <2>2. QED
    BY <2>1 DEF Begins, TypeOK
<1>2. ASSUME NEW p \in Procs, NEW task \in proc[p].todo, ReadForSwitch(p, task)
      PROVE  Shape
  BY <1>2, ReadForSwitchIs DEF Goes, Keeps, TypeOK
<1>3. ASSUME NEW p \in Procs, NEW second \in Seconds, OpenBackup(p, second)
      PROVE  Shape
  <2>1. proc[p].f \in Files
    BY <1>3 DEF Stepping, StepInv, OpenBackup, At
  <2>2. /\ backup' = [backup EXCEPT ![proc[p].f] = [@ EXCEPT ![second] = Torn]]
        /\ now' = second /\ mishaps' \subseteq Mishaps /\ UNCHANGED <<etc, lost>>
        /\ Keeps(p)
    BY <1>3, <2>1, OpenBackupIs DEF Goes
  <2>3. backup' \in [Files -> [Seconds -> Contents \cup {None}]]
    BY <2>1, <2>2, BackupOpened
  <2>4. QED
    BY <2>2, <2>3 DEF Keeps, TypeOK
<1>4. ASSUME NEW p \in Procs, CopyToBackup(p)
      PROVE  Shape
  <2>1. /\ proc[p].f \in Files /\ proc[p].s \in Seconds /\ proc[p].source \in Contents
    BY <1>4 DEF Stepping, StepInv, CopyToBackup, At, TypeOK, Process
  <2>2. /\ backup' = [backup EXCEPT ![proc[p].f] =
                          Prune([@ EXCEPT ![proc[p].s] = proc[p].source])]
        /\ UNCHANGED <<etc, now, mishaps, lost>> /\ Keeps(p)
    BY <1>4, CopyToBackupIs DEF Goes
  <2>3. backup' \in [Files -> [Seconds -> Contents \cup {None}]]
    BY <2>1, <2>2, BackupFilled
  <2>4. QED
    BY <2>2, <2>3 DEF Keeps, TypeOK
<1>5. ASSUME NEW p \in Procs, Install(p)
      PROVE  Shape
  <2>1. proc[p].f \in Files /\ proc[p].content \in Contents \cup {None}
    BY <1>5 DEF Stepping, StepInv, Install, At, TypeOK, Process
  <2>2. QED
    BY <1>5, <2>1, InstallIs DEF Goes, Keeps, TypeOK
<1>6. ASSUME NEW p \in Procs, NEW task \in proc[p].todo, ReadForRecovery(p, task)
      PROVE  Shape
  <2>1. task.kind = "restore" => task.s \in Seconds
    BY DEF Stepping, StepInv
  <2>2. QED
    BY <1>6, <2>1, ReadForRecoveryIs DEF Goes, Keeps, TypeOK
<1>7. ASSUME NEW p \in Procs, Finish(p) \/ Fail(p) \/ Crash(p) \/ Leave(p)
      PROVE  Shape
  BY <1>7, StopsIs, LostTyped DEF Stops, Keeps, TypeOK
<1>8. ASSUME NEW p \in Procs, FailAndGoOn(p)
      PROVE  Shape
  BY <1>8, FailAndGoOnIs, LostTyped DEF Goes, Keeps, TypeOK
<1>9. ASSUME NEW f \in Files, NEW body \in Bodies \cup {None}, Edit(f, body)
      PROVE  Shape
  BY <1>9, EditIs DEF TypeOK
<1>10. ASSUME UNCHANGED <<etc, backup, now, proc, mishaps, lost>>
       PROVE  Shape
  BY <1>10 DEF TypeOK
<1> HIDE DEF Shape
<1>11. Shape
  <2>1. ASSUME NEW p \in Procs, Work(p)
        PROVE  Shape
    BY <1>2, <1>3, <1>4, <1>5, <1>6, <1>7, <1>8, <2>1 DEF Work
  <2>2. ASSUME NEW p \in Procs, ProcStep(p)
        PROVE  Shape
    BY <1>1, <1>7, <2>1, <2>2 DEF ProcStep
  <2>3. CASE Others
    BY <1>9, <2>3 DEF Others
  <2>4. CASE UNCHANGED <<etc, backup, now, proc, mishaps, lost>>
    BY <1>10, <2>4
  <2>5. QED
    BY <2>2, <2>3, <2>4 DEF PamStep
<1>12. Stepping'
  BY SteppingStep
<1>13. QED
  BY <1>11, <1>12 DEF Shape, TypeOK, Stepping, StepInv

-----------------------------------------------------------------------------
(* Who works alone. *)

\* A process that goes on as it was, or stops, disturbs nobody.
LEMMA AloneKept ==
  ASSUME AloneInv, NEW p \in Procs, Keeps(p), mishaps \subseteq mishaps',
         Working(p)' => Working(p) /\ proc'[p].alone = proc[p].alone
  PROVE  AloneInv'
<1>1. \A q \in Procs : Working(q)' => Working(q) /\ proc'[q].alone = proc[q].alone
  BY DEF Keeps, Working
<1>2. QED
  BY <1>1 DEF AloneInv

LEMMA AloneBegins ==
  ASSUME AloneInv, NEW p \in Procs, NEW op, NEW todo, NEW fs, NEW enable,
         Begins(p, op, todo, fs, enable)
  PROVE  AloneInv'
<1>1. ~Working(p)
  BY DEF Begins, Working, At
<1>2. \A q \in Procs \ {p} : /\ Working(q)' => Working(q)
                             /\ proc'[q].alone => proc[q].alone /\ ~Working(q)
  BY DEF Begins, Disturbs, Working
<1>3. /\ mishaps \subseteq mishaps'
      /\ proc'[p].alone \/ "overlap" \notin mishaps' => \A q \in Procs \ {p} : ~Working(q)
      /\ proc'[p].alone \/ "overlap" \in mishaps'
  BY DEF Begins
<1>4. QED
  BY <1>2, <1>3 DEF AloneInv

\* A command that begins sees whether others work, and they are told.
LEMMA AloneStep == TypeOK /\ Stepping /\ AloneInv /\ PamStep => AloneInv'
<1> SUFFICES ASSUME TypeOK, Stepping, AloneInv, PamStep
             PROVE  AloneInv'
  OBVIOUS
<1>1. ASSUME NEW p \in Procs,
             \/ \E known, extra \in SUBSET Files : StartToggle(p, known, extra)
             \/ \E fs \in SUBSET Files : StartDisabling(p, fs)
             \/ StartEmergency(p)
      PROVE  AloneInv'
  <2>1. \E op, todo, fs, enable : Begins(p, op, todo, fs, enable)
    BY <1>1, SomethingBegins
  <2>2. QED
    BY <2>1, AloneBegins
<1>2. ASSUME NEW p \in Procs, Work(p) \/ Crash(p) \/ Leave(p)
      PROVE  /\ Keeps(p) /\ mishaps \subseteq mishaps'
             /\ Working(p)' => Working(p) /\ proc'[p].alone = proc[p].alone
  <2>1. ASSUME NEW task \in proc[p].todo, ReadForSwitch(p, task)
        PROVE  Working(p) /\ Keeps(p) /\ mishaps' = mishaps /\ proc'[p].alone = proc[p].alone
    BY <2>1, ReadForSwitchIs DEF Goes, Working, At
  <2>2. ASSUME NEW task \in proc[p].todo, ReadForRecovery(p, task)
        PROVE  Working(p) /\ Keeps(p) /\ mishaps' = mishaps /\ proc'[p].alone = proc[p].alone
    <3>1. task.kind = "restore" => task.s \in Seconds
      BY DEF Stepping, StepInv
    <3>2. QED
      BY <2>2, <3>1, ReadForRecoveryIs DEF Goes, Working, At
  <2>3. ASSUME NEW second \in Seconds, OpenBackup(p, second)
        PROVE  /\ Working(p) /\ Keeps(p) /\ mishaps \subseteq mishaps'
               /\ proc'[p].alone = proc[p].alone
    <3>1. proc[p].f \in Files
      BY <2>3 DEF Stepping, StepInv, OpenBackup, At
    <3>2. QED
      BY <2>3, <3>1, OpenBackupIs DEF Goes, Working, At
  <2>4. ASSUME CopyToBackup(p) \/ Install(p)
        PROVE  Working(p) /\ Keeps(p) /\ mishaps' = mishaps /\ proc'[p].alone = proc[p].alone
    BY <2>4, CopyToBackupIs, InstallIs DEF Goes, Working, At
  <2>5. ASSUME FailAndGoOn(p)
        PROVE  /\ Working(p) /\ Keeps(p) /\ mishaps \subseteq mishaps'
               /\ proc'[p].alone = proc[p].alone
    BY <2>5, FailAndGoOnIs DEF Goes
  <2>6. ASSUME Finish(p) \/ Fail(p) \/ Crash(p) \/ Leave(p)
        PROVE  Keeps(p) /\ mishaps \subseteq mishaps' /\ ~Working(p)'
    BY <2>6, StopsIs DEF Stops, Working
  <2>7. QED
    BY <1>2, <2>1, <2>2, <2>3, <2>4, <2>5, <2>6 DEF Work
<1>3. ASSUME NEW f \in Files, NEW body \in Bodies \cup {None}, Edit(f, body)
      PROVE  AloneInv'
  <2>1. \A p \in Procs : /\ Working(p)' => Working(p)
                         /\ Working(p) => ~proc'[p].alone
    BY <1>3, EditIs DEF Disturbs, Working
  <2>2. /\ mishaps \subseteq mishaps'
        /\ "edited" \notin mishaps' => \A p \in Procs : ~Working(p)
    BY <1>3, EditIs
  <2>3. QED
    BY <2>1, <2>2 DEF AloneInv
<1>4. CASE UNCHANGED <<etc, backup, now, proc, mishaps, lost>>
  BY <1>4 DEF AloneInv, Working
<1>5. QED
  BY <1>1, <1>2, <1>3, <1>4, AloneKept DEF PamStep, ProcStep, Others

\* A process at work changes none but itself.
LEMMA WorkKeeps ==
  ASSUME TypeOK, Stepping, NEW p \in Procs, Work(p) \/ Crash(p) \/ Leave(p)
  PROVE  Keeps(p)
<1>1. ASSUME NEW task \in proc[p].todo, ReadForRecovery(p, task)
      PROVE  Keeps(p)
  BY <1>1, ReadForRecoveryIs DEF Goes, Stepping, StepInv
<1>2. ASSUME NEW second \in Seconds, OpenBackup(p, second)
      PROVE  Keeps(p)
  <2>1. proc[p].f \in Files
    BY <1>2 DEF Stepping, StepInv, OpenBackup, At
  <2>2. QED
    BY <1>2, <2>1, OpenBackupIs DEF Goes
<1>3. QED
  BY <1>1, <1>2, ReadForSwitchIs, CopyToBackupIs, InstallIs, StopsIs, FailAndGoOnIs
     DEF Work, Goes, Stops

\* It goes on with the command it began, until that is done or has failed.
LEMMA WorkGoesOn ==
  ASSUME TypeOK, Stepping, NEW p \in Procs, Work(p)
  PROVE  /\ proc[p].at # "free" /\ proc'[p].at # "free"
         /\ Working(p)' => /\ Working(p)
                           /\ proc'[p].op = proc[p].op /\ proc'[p].enable = proc[p].enable
                           /\ proc'[p].files = proc[p].files
<1>1. ASSUME NEW task \in proc[p].todo, ReadForSwitch(p, task) \/ ReadForRecovery(p, task)
      PROVE  /\ Working(p) /\ proc'[p].at # "free"
             /\ proc'[p].op = proc[p].op /\ proc'[p].enable = proc[p].enable
             /\ proc'[p].files = proc[p].files
  <2>1. task.kind = "restore" => task.s \in Seconds
    BY DEF Stepping, StepInv
  <2>2. QED
    BY <1>1, <2>1, ReadForSwitchIs, ReadForRecoveryIs DEF Goes, Working, At
<1>2. ASSUME NEW second \in Seconds, OpenBackup(p, second)
      PROVE  /\ Working(p) /\ proc'[p].at # "free"
             /\ proc'[p].op = proc[p].op /\ proc'[p].enable = proc[p].enable
             /\ proc'[p].files = proc[p].files
  <2>1. proc[p].f \in Files
    BY <1>2 DEF Stepping, StepInv, OpenBackup, At
  <2>2. QED
    BY <1>2, <2>1, OpenBackupIs DEF Goes, Working, At
<1>3. ASSUME CopyToBackup(p) \/ Install(p)
      PROVE  /\ Working(p) /\ proc'[p].at # "free"
             /\ proc'[p].op = proc[p].op /\ proc'[p].enable = proc[p].enable
             /\ proc'[p].files = proc[p].files
  BY <1>3, CopyToBackupIs, InstallIs DEF Goes, Working, At
<1>4. ASSUME FailAndGoOn(p)
      PROVE  /\ Working(p) /\ proc'[p].at # "free"
             /\ proc'[p].op = proc[p].op /\ proc'[p].enable = proc[p].enable
             /\ proc'[p].files = proc[p].files
  BY <1>4, FailAndGoOnIs DEF Goes
<1>5. ASSUME Finish(p) \/ Fail(p)
      PROVE  Working(p) /\ proc'[p].at \in {"done", "failed"}
  BY <1>5, EndsAt DEF Finish, Fail, Working, At
<1>6. Working(p) => proc[p].at # "free"
  BY DEF Working
<1>7. proc'[p].at \in {"done", "failed"} => ~Working(p)' /\ proc'[p].at # "free"
  BY DEF Working
<1>8. QED
  BY <1>1, <1>2, <1>3, <1>4, <1>5, <1>6, <1>7 DEF Work

\* While p is alone at work the others do nothing that it could notice.
LEMMA LeftAlone ==
  ASSUME TypeOK, Stepping, AloneInv, PamStep, NEW p \in Procs,
         Working(p)', proc'[p].alone
  PROVE  ProcStep(p) \/ UNCHANGED <<etc, backup, proc[p]>>
<1>1. ASSUME NEW q \in Procs, q # p,
             \/ \E known, extra \in SUBSET Files : StartToggle(q, known, extra)
             \/ \E fs \in SUBSET Files : StartDisabling(q, fs)
             \/ StartEmergency(q)
      PROVE  FALSE
  <2>1. Disturbs(p)
    BY <1>1, SomethingBegins DEF Begins
  <2>2. QED
    BY <2>1 DEF Disturbs, Working
<1>2. ASSUME NEW q \in Procs, q # p, Work(q) \/ Crash(q) \/ Leave(q)
      PROVE  UNCHANGED <<etc, backup, proc[p]>>
  <2>1. Keeps(q)
    BY <1>2, WorkKeeps
  <2>2. proc'[p] = proc[p] /\ Working(p) /\ proc[p].alone
    BY <1>2, <2>1 DEF Keeps, Working
  <2>3. ~Working(q)
    BY <1>2, <2>2 DEF AloneInv
  <2>4. Leave(q) \/ Finish(q)
    BY <1>2, <2>3 DEF Work, ReadForSwitch, ReadForRecovery, Begin, OpenBackup, CopyToBackup,
                      Install, Fail, FailAndGoOn, Crash, Working, At
  <2>5. QED
    BY <2>2, <2>4 DEF Leave, Finish
<1>3. ASSUME NEW f \in Files, NEW body \in Bodies \cup {None}, Edit(f, body)
      PROVE  FALSE
  BY <1>3, EditIs DEF Disturbs, Working
<1>4. QED
  BY <1>1, <1>2, <1>3 DEF PamStep, ProcStep, Others

-----------------------------------------------------------------------------
(* The emergency disable. *)

\* Nothing p does by itself loses sight of a file with the line.
LEMMA EmergencyOwn ==
  ASSUME TypeOK, Stepping, NEW p \in Procs, EmergencyInv(p), ProcStep(p)
  PROVE  EmergencyInv(p)'
<1> DEFINE Mine == /\ \A f \in Files : HasLine(etc[f]) =>
                        \/ \E task \in proc[p].todo : task.file = f
                        \/ At(p, "install") /\ proc[p].f = f
                   /\ \A task \in proc[p].todo :
                        task.kind = "restore" => task.s \in Clean(task.file)
                   /\ At(p, "install") => ~proc[p].content.line
<1>1. /\ proc[p] \in Process /\ StepInv(proc[p])
      /\ proc[p].op = "emergency" /\ Working(p) /\ proc[p].alone => Mine
  BY DEF TypeOK, Stepping, EmergencyInv
<1>2. "emergency" \notin Switching
  BY DEF Switching
<1>3. ASSUME NEW known \in SUBSET Files, NEW extra \in SUBSET Files,
             StartToggle(p, known, extra)
      PROVE  proc'[p].op # "emergency"
  BY <1>3, StartToggleIs DEF Begins
<1>4. ASSUME NEW fs \in SUBSET Files, StartDisabling(p, fs)
      PROVE  proc'[p].op # "emergency"
  BY <1>4, StartDisablingIs DEF Begins
<1>5. ASSUME StartEmergency(p)
      PROVE  EmergencyInv(p)'
  <2>1. Begins(p, "emergency", Plan, {}, FALSE)
    BY <1>5, StartEmergencyIs
  <2>2. proc'[p].todo = Plan /\ proc'[p].at = "next" /\ etc' = etc /\ backup' = backup
    BY <2>1 DEF Begins
  <2>3. \A f \in Files : HasLine(etc[f]) => \E task \in Plan : task.file = f
    BY PlanIs
  <2>4. \A task \in Plan : task.kind = "restore" => task.s \in Clean(task.file)
    BY PlanIs
  <2>5. QED
    BY <2>2, <2>3, <2>4 DEF EmergencyInv, HasLine, At, Clean
<1>6. ASSUME NEW task \in proc[p].todo, ReadForSwitch(p, task)
      PROVE  proc'[p].op # "emergency"
  BY <1>1, <1>2, <1>6, ReadForSwitchIs DEF Goes, StepInv
<1>7. ASSUME NEW second \in Seconds, OpenBackup(p, second)
      PROVE  proc'[p].op # "emergency"
  <2>1. proc[p].f \in Files /\ proc[p].op # "emergency"
    BY <1>1, <1>2, <1>7 DEF StepInv, At, OpenBackup
  <2>2. QED
    BY <1>7, <2>1, OpenBackupIs DEF Goes
<1>8. ASSUME CopyToBackup(p)
      PROVE  proc'[p].op # "emergency"
  BY <1>1, <1>2, <1>8, CopyToBackupIs DEF Goes, StepInv, At
<1>9. ASSUME FailAndGoOn(p)
      PROVE  proc'[p].op # "emergency"
  BY <1>9, FailAndGoOnIs DEF Goes
<1>10. ASSUME Install(p), proc[p].op = "emergency", proc[p].alone
       PROVE  EmergencyInv(p)'
  <2>1. /\ At(p, "install") /\ Working(p) /\ Mine
        /\ proc[p].f \in Files /\ proc[p].content \in Contents
    BY <1>1, <1>10, InstallIs DEF Working, At, StepInv, Process
  <2>2. /\ etc' = [etc EXCEPT ![proc[p].f] = proc[p].content] /\ backup' = backup
        /\ proc'[p].at = "next" /\ proc'[p].todo = proc[p].todo
    BY <1>10, InstallIs DEF Goes
  <2>3. ~HasLine(etc'[proc[p].f])
    BY <2>1, <2>2 DEF TypeOK, HasLine
  <2>4. \A f \in Files : f # proc[p].f => etc'[f] = etc[f]
    BY <2>2 DEF TypeOK
  <2>5. QED
    BY <2>1, <2>2, <2>3, <2>4 DEF EmergencyInv, HasLine, At, Clean
<1>11. ASSUME NEW task \in proc[p].todo, ReadForRecovery(p, task), proc[p].op = "emergency",
              proc[p].alone
       PROVE  EmergencyInv(p)'
  <2>1. At(p, "next") /\ Working(p) /\ Mine
    BY <1>1, <1>11 DEF ReadForRecovery, Begin, Working, At
  <2>2. /\ task.kind = "restore" => task.s \in Seconds
        /\ task.kind = "restore" => ~backup[task.file][task.s].line
    BY <1>1, <2>1 DEF StepInv, Clean
  <2>3. PICK c \in Contents :
          /\ ~c.line
          /\ Goes(p, "install", proc[p].todo \ {task}, task.file, c, proc[p].source, proc[p].s)
    BY <1>11, <2>2, ReadForRecoveryIs, LineSet
  <2>4. etc' = etc /\ backup' = backup
    BY <1>11 DEF ReadForRecovery
  <2>5. QED
    BY <2>1, <2>3, <2>4 DEF EmergencyInv, HasLine, At, Clean, Goes
<1>12. ASSUME Finish(p) \/ Fail(p) \/ Crash(p) \/ Leave(p)
       PROVE  ~Working(p)'
  BY <1>12, StopsIs DEF Stops, Working
<1>13. ASSUME Install(p) \/ \E task \in proc[p].todo : ReadForRecovery(p, task)
       PROVE  proc'[p].op = proc[p].op /\ proc'[p].alone = proc[p].alone
  BY <1>1, <1>13, InstallIs, ReadForRecoveryIs DEF Goes, StepInv
<1>14. QED
  <2> SUFFICES ASSUME proc'[p].op = "emergency", Working(p)', proc'[p].alone
               PROVE  EmergencyInv(p)'
    BY DEF EmergencyInv
  <2>1. QED
    BY <1>3, <1>4, <1>5, <1>6, <1>7, <1>8, <1>9, <1>10, <1>11, <1>12, <1>13
       DEF ProcStep, Work

\* A step of others either disturbs p or comes when p does not work alone.
LEMMA EmergencyStep ==
  ASSUME TypeOK, Stepping, AloneInv, PamStep, NEW p \in Procs, EmergencyInv(p)
  PROVE  EmergencyInv(p)'
<1> SUFFICES ASSUME proc'[p].op = "emergency", Working(p)', proc'[p].alone
             PROVE  EmergencyInv(p)'
  BY DEF EmergencyInv
<1>1. CASE ProcStep(p)
  BY <1>1, EmergencyOwn
<1>2. CASE UNCHANGED <<etc, backup, proc[p]>>
  BY <1>2 DEF EmergencyInv, Working, At, HasLine, Clean
<1>3. QED
  BY <1>1, <1>2, LeftAlone

-----------------------------------------------------------------------------
(* Toggles. *)

\* A file leaves what is to do when it is as wanted, or is taken in hand to be so.
LEMMA ToggleOwn ==
  ASSUME TypeOK, Stepping, NEW p \in Procs, ToggleInv(p), ProcStep(p)
  PROVE  ToggleInv(p)'
<1> DEFINE Mine == \A f \in proc[p].files : \/ \E task \in proc[p].todo : task.file = f
                                            \/ AtFile(p) /\ proc[p].f = f
                                            \/ HasLine(Source(f)) = proc[p].enable
<1>1. /\ proc[p] \in Process /\ StepInv(proc[p])
      /\ proc[p].op = "toggle" /\ Working(p) /\ proc[p].alone => Mine
  BY DEF TypeOK, Stepping, ToggleInv
<1>2. "toggle" \in Switching
  BY DEF Switching
<1>3. ASSUME NEW known \in SUBSET Files, NEW extra \in SUBSET Files,
             StartToggle(p, known, extra)
      PROVE  ToggleInv(p)'
  <2> DEFINE fs == {f \in known : Exists(f)} \cup extra
             on == \E f \in fs : ~HasLine(Source(f))
  <2>1. Begins(p, "toggle", SetTasks(fs), fs, on)
    BY <1>3, StartToggleIs
  <2>2. fs \in SUBSET Files
    OBVIOUS
  <2> HIDE DEF fs, on
  <2>3. \A f \in fs : \E task \in SetTasks(fs) : task.file = f
    BY <2>2, SetTasksAre
  <2>4. QED
    BY <2>1, <2>3 DEF Begins, ToggleInv
<1>4. ASSUME NEW fs \in SUBSET Files, StartDisabling(p, fs)
      PROVE  proc'[p].op # "toggle"
  BY <1>4, StartDisablingIs DEF Begins
<1>5. ASSUME StartEmergency(p)
      PROVE  proc'[p].op # "toggle"
  BY <1>5, StartEmergencyIs DEF Begins
<1>6. ASSUME NEW task \in proc[p].todo, ReadForSwitch(p, task), proc[p].op = "toggle",
             proc[p].alone
      PROVE  ToggleInv(p)'
  <2>1. Mine /\ proc[p].at = "next"
    BY <1>1, <1>6 DEF ReadForSwitch, Begin, Working, At
  <2>2. /\ etc' = etc
        /\ proc'[p].files = proc[p].files /\ proc'[p].enable = proc[p].enable
        /\ proc'[p].todo = proc[p].todo \ {task}
    BY <1>6, ReadForSwitchIs DEF Goes
  <2>3. \/ HasLine(Source(task.file)) = proc[p].enable
        \/ proc'[p].at = "copy" /\ proc'[p].f = task.file
    <3>1. Source(task.file) \in Contents
      BY <1>6, ReadForSwitchIs
    <3>2. CASE Source(task.file).line = proc[p].enable
      BY <3>1, <3>2, LineIs
    <3>3. CASE Source(task.file).line # proc[p].enable
      BY <1>6, <3>3, ReadForSwitchIs DEF Goes
    <3>4. QED
      BY <3>2, <3>3
  <2>4. \A f \in proc[p].files : Source(f)' = Source(f)
    BY <2>2 DEF Source
  <2>5. QED
    BY <2>1, <2>2, <2>3, <2>4 DEF ToggleInv, AtFile, HasLine
<1>7. ASSUME \/ \E second \in Seconds : OpenBackup(p, second)
             \/ CopyToBackup(p),
             proc[p].op = "toggle", proc[p].alone
      PROVE  ToggleInv(p)'
  <2>1. /\ AtFile(p) /\ AtFile(p)' /\ Mine /\ etc' = etc
        /\ proc'[p].files = proc[p].files /\ proc'[p].enable = proc[p].enable
        /\ proc'[p].todo = proc[p].todo /\ proc'[p].f = proc[p].f
    <3>1. proc[p].at \in {"copy", "copying"}
      BY <1>7 DEF OpenBackup, CopyToBackup, At
    <3>2. proc[p].f \in Files
      BY <1>1, <3>1 DEF StepInv
    <3>3. QED
      BY <1>1, <1>7, <3>1, <3>2, OpenBackupIs, CopyToBackupIs DEF Goes, AtFile, Working
  <2>2. \A f \in proc[p].files : Source(f)' = Source(f)
    BY <2>1 DEF Source
  <2>3. QED
    BY <2>1, <2>2 DEF ToggleInv, HasLine
<1>8. ASSUME Install(p), proc[p].op = "toggle", proc[p].alone
      PROVE  ToggleInv(p)'
  <2>1. /\ proc[p].at = "install" /\ Mine
        /\ proc[p].f \in Files /\ proc[p].content \in Contents
        /\ proc[p].content.line = proc[p].enable
    BY <1>1, <1>2, <1>8, InstallIs DEF Working, At, StepInv, Process
  <2>2. /\ etc' = [etc EXCEPT ![proc[p].f] = proc[p].content]
        /\ proc'[p].files = proc[p].files /\ proc'[p].enable = proc[p].enable
        /\ proc'[p].todo = proc[p].todo
    BY <1>8, InstallIs DEF Goes
  <2>3. ASSUME NEW f \in Files, f = proc[p].f
        PROVE  HasLine(Source(f)') = proc[p].enable
    <3>1. etc'[f] = proc[p].content
      BY <2>2, <2>3 DEF TypeOK
    <3>2. Source(f)' = proc[p].content
      BY <2>1, <3>1, PamAssumption DEF Source
    <3>3. QED
      BY <2>1, <3>2, LineIs
  <2>4. \A f \in Files : f # proc[p].f => Source(f)' = Source(f)
    BY <2>2 DEF TypeOK, Source
  <2>5. proc[p].files \subseteq Files
    BY <1>1 DEF Process
  <2>6. ASSUME NEW f \in proc[p].files
        PROVE  \/ \E task \in proc'[p].todo : task.file = f
               \/ HasLine(Source(f)') = proc[p].enable
    <3>1. CASE f = proc[p].f
      BY <2>3, <2>5, <3>1
    <3>2. CASE f # proc[p].f
      <4>1. \/ \E task \in proc[p].todo : task.file = f
            \/ HasLine(Source(f)) = proc[p].enable
        BY <2>1, <3>2
      <4>2. Source(f)' = Source(f)
        BY <2>4, <2>5, <3>2
      <4>3. QED
        BY <2>2, <4>1, <4>2
    <3>3. QED
      BY <3>1, <3>2
  <2>7. QED
    BY <2>2, <2>6 DEF ToggleInv, HasLine
<1>9. ASSUME NEW task \in proc[p].todo, ReadForRecovery(p, task)
      PROVE  proc'[p].op # "toggle"
  <2>1. /\ task.kind = "restore" => task.s \in Seconds
        /\ proc[p].op # "toggle"
    BY <1>1, <1>2, <1>9 DEF StepInv, ReadForRecovery
  <2>2. QED
    BY <1>9, <2>1, ReadForRecoveryIs DEF Goes
<1>10. ASSUME FailAndGoOn(p)
       PROVE  proc'[p].op # "toggle"
  BY <1>10, FailAndGoOnIs DEF Goes
<1>11. ASSUME Finish(p) \/ Fail(p) \/ Crash(p) \/ Leave(p)
       PROVE  ~Working(p)'
  BY <1>11, StopsIs DEF Stops, Working
<1>12. ASSUME \/ \E task \in proc[p].todo : ReadForSwitch(p, task)
              \/ \E second \in Seconds : OpenBackup(p, second)
              \/ CopyToBackup(p) \/ Install(p)
       PROVE  proc'[p].op = proc[p].op /\ proc'[p].alone = proc[p].alone
  <2>1. ASSUME NEW second \in Seconds, OpenBackup(p, second)
        PROVE  proc[p].f \in Files
    BY <1>1, <2>1 DEF OpenBackup, At, StepInv
  <2>2. QED
    BY <1>12, <2>1, ReadForSwitchIs, OpenBackupIs, CopyToBackupIs, InstallIs DEF Goes
<1>13. QED
  <2> SUFFICES ASSUME proc'[p].op = "toggle", Working(p)', proc'[p].alone
               PROVE  ToggleInv(p)'
    BY DEF ToggleInv
  <2>1. QED
    BY <1>3, <1>4, <1>5, <1>6, <1>7, <1>8, <1>9, <1>10, <1>11, <1>12
       DEF ProcStep, Work

LEMMA ToggleStep ==
  ASSUME TypeOK, Stepping, AloneInv, PamStep, NEW p \in Procs, ToggleInv(p)
  PROVE  ToggleInv(p)'
<1> SUFFICES ASSUME proc'[p].op = "toggle", Working(p)', proc'[p].alone
             PROVE  ToggleInv(p)'
  BY DEF ToggleInv
<1>1. CASE ProcStep(p)
  BY <1>1, ToggleOwn
<1>2. CASE UNCHANGED <<etc, backup, proc[p]>>
  BY <1>2 DEF ToggleInv, Working, AtFile, HasLine, Source
<1>3. QED
  BY <1>1, <1>2, LeftAlone

\* The invariant is inductive, for the files alone and for the menu that uses them.
LEMMA PamInvStep ==
  PamInv /\ PamStep /\ events' \in 0 .. MaxEvents => PamInv'
<1> SUFFICES ASSUME PamInv, PamStep, events' \in 0 .. MaxEvents
             PROVE  PamInv'
  OBVIOUS
<1>1. TypeOK /\ Stepping /\ AloneInv
  BY DEF PamInv, Stepping
<1>2. TypeOK' /\ Stepping' /\ AloneInv'
  BY <1>1, TypeStep, SteppingStep, AloneStep
<1>3. \A p \in Procs : EmergencyInv(p)' /\ ToggleInv(p)'
  BY <1>1, EmergencyStep, ToggleStep DEF PamInv
<1>4. QED
  BY <1>2, <1>3 DEF PamInv, Stepping

LEMMA PamInit == Init => PamInv
<1> SUFFICES ASSUME Init
             PROVE  PamInv
  OBVIOUS
<1>1. TypeOK
  BY FreeTyped, PamAssumption DEF Init, TypeOK, Free, Seconds
<1>2. \A p \in Procs : proc[p] = Free /\ ~Working(p)
  BY DEF Init, Working, Free
<1>3. \A p \in Procs : StepInv(proc[p]) /\ EmergencyInv(p) /\ ToggleInv(p)
  BY <1>2 DEF StepInv, EmergencyInv, ToggleInv, Free
<1>4. AloneInv
  BY <1>2 DEF AloneInv
<1>5. QED
  BY <1>1, <1>3, <1>4 DEF PamInv

-----------------------------------------------------------------------------
(* Nothing is emptied. *)

\* A process that is not copying takes up something whole.
LEMMA WholeKept ==
  ASSUME AllWhole, NEW p \in Procs, Keeps(p), ~At(p, "copying"), UNCHANGED <<etc, backup>>,
         IsWhole(proc'[p].content), IsWhole(proc'[p].source)
  PROVE  AllWhole'
<1>1. \A q \in Procs : q # p => proc'[q] = proc[q]
  BY DEF Keeps
<1>2. \A q \in Procs : IsWhole(proc'[q].content) /\ IsWhole(proc'[q].source)
  BY <1>1 DEF AllWhole
<1>3. ASSUME NEW f \in Files, NEW s \in Seconds, ~IsWhole(backup[f][s])
      PROVE  \E q \in Procs : proc'[q].at = "copying" /\ proc'[q].f = f /\ proc'[q].s = s
  <2>1. PICK q \in Procs : At(q, "copying") /\ proc[q].f = f /\ proc[q].s = s
    BY <1>3 DEF AllWhole
  <2>2. proc'[q] = proc[q]
    BY <1>1, <2>1
  <2>3. QED
    BY <2>1, <2>2 DEF At
<1>4. QED
  BY <1>2, <1>3 DEF AllWhole, At, IsWhole

\* The others, if another begins or an administrator edits whole files.
LEMMA WholeDisturbed ==
  ASSUME AllWhole, UNCHANGED backup, \A f \in Files : IsWhole(etc'[f]),
         \A p \in Procs : \/ Disturbs(p)
                          \/ /\ ~At(p, "copying")
                             /\ proc'[p].content = None /\ proc'[p].source = None
  PROVE  AllWhole'
<1>1. \A p \in Procs : IsWhole(proc'[p].content) /\ IsWhole(proc'[p].source)
  BY DEF AllWhole, Disturbs, IsWhole
<1>2. \A p \in Procs : At(p, "copying") => Disturbs(p)
  OBVIOUS
<1>3. \A p \in Procs : At(p, "copying") =>
        proc'[p].at = "copying" /\ proc'[p].f = proc[p].f /\ proc'[p].s = proc[p].s
  BY <1>2 DEF Disturbs, At
<1>4. ASSUME NEW f \in Files, NEW s \in Seconds, ~IsWhole(backup[f][s])
      PROVE  \E q \in Procs : proc'[q].at = "copying" /\ proc'[q].f = f /\ proc'[q].s = s
  BY <1>3, <1>4 DEF AllWhole
<1>5. QED
  BY <1>1, <1>4 DEF AllWhole, At, IsWhole

\* An incomplete backup is the one at hand; it is restored by nobody but another
\* process at work, which is a mishap, or after its copying was cut short.
LEMMA WholeStep ==
  WholeInitially /\ TypeOK /\ Stepping /\ AloneInv /\ WholeInv /\ PamStep => WholeInv'
<1> SUFFICES ASSUME WholeInitially, TypeOK, Stepping, AloneInv, WholeInv, PamStep,
                    mishaps' \cap {"cut", "overlap"} = {}
             PROVE  AllWhole'
  BY DEF WholeInv
<1> DEFINE Single == \A p, q \in Procs : Working(p) /\ Working(q) => p = q
<1>1. ASSUME mishaps \subseteq mishaps'
      PROVE  AllWhole /\ Single
  BY <1>1 DEF WholeInv, AloneInv
<1>2. ASSUME NEW p \in Procs,
             \/ \E known, extra \in SUBSET Files : StartToggle(p, known, extra)
             \/ \E fs \in SUBSET Files : StartDisabling(p, fs)
             \/ StartEmergency(p)
      PROVE  AllWhole'
  <2>1. PICK op, todo, fs, enable : Begins(p, op, todo, fs, enable)
    BY <1>2, SomethingBegins
  <2>2. /\ mishaps \subseteq mishaps' /\ etc' = etc /\ backup' = backup
        /\ ~At(p, "copying") /\ proc'[p].content = None /\ proc'[p].source = None
        /\ \A q \in Procs : q # p => Disturbs(q)
    BY <2>1 DEF Begins, At
  <2>3. \A f \in Files : IsWhole(etc'[f])
    BY <1>1, <2>2 DEF AllWhole
  <2>4. QED
    BY <1>1, <2>2, <2>3, WholeDisturbed
<1>3. ASSUME NEW p \in Procs, NEW task \in proc[p].todo, ReadForSwitch(p, task)
      PROVE  AllWhole'
  <2> DEFINE src == Source(task.file)
             new == [src EXCEPT !.line = proc[p].enable]
  <2>1. /\ proc[p].enable \in BOOLEAN /\ task.file \in Files
    BY DEF TypeOK, Process, Tasks
  <2>2. AllWhole
    BY <1>1, <1>3 DEF ReadForSwitch
  <2>3. src \in Contents /\ IsWhole(src)
    BY <1>3, <2>1, <2>2, ReadForSwitchIs DEF WholeInitially, AllWhole, Source
  <2> HIDE DEF src
  <2>4. IsWhole(new)
    BY <2>1, <2>3, LineSet, PamAssumption DEF IsWhole
  <2> HIDE DEF new
  <2>5. \/ Goes(p, "next", proc[p].todo \ {task}, proc[p].f, proc[p].content,
               proc[p].source, proc[p].s)
        \/ Goes(p, "copy", proc[p].todo \ {task}, task.file, new, proc[p].source, proc[p].s)
    BY <1>3, ReadForSwitchIs DEF new, src
  <2>6. /\ Keeps(p) /\ IsWhole(proc'[p].content) /\ IsWhole(proc'[p].source)
    BY <2>2, <2>4, <2>5 DEF Goes, AllWhole
  <2>7. ~At(p, "copying") /\ UNCHANGED <<etc, backup>>
    BY <1>3 DEF ReadForSwitch, Begin, At
  <2>8. QED
    BY <2>2, <2>6, <2>7, WholeKept
<1>4. ASSUME NEW p \in Procs, NEW second \in Seconds, OpenBackup(p, second)
      PROVE  AllWhole'
  <2>1. proc[p].f \in Files
    BY <1>4 DEF Stepping, StepInv, OpenBackup, At
  <2>2. /\ At(p, "copy") /\ etc' = etc /\ mishaps \subseteq mishaps'
        /\ Source(proc[p].f) \in Contents
        /\ backup' = [backup EXCEPT ![proc[p].f] = [@ EXCEPT ![second] = Torn]]
        /\ Goes(p, "copying", proc[p].todo, proc[p].f, proc[p].content,
                Source(proc[p].f), second)
    BY <1>4, <2>1, OpenBackupIs
  <2>3. AllWhole
    BY <1>1, <2>2
  <2>4. IsWhole(Source(proc[p].f)) /\ IsWhole(proc[p].content)
    BY <2>1, <2>3 DEF WholeInitially, AllWhole, Source
  <2>5. /\ proc'[p].at = "copying" /\ proc'[p].f = proc[p].f /\ proc'[p].s = second
        /\ proc'[p].content = proc[p].content /\ proc'[p].source = Source(proc[p].f)
        /\ \A q \in Procs : q # p => proc'[q] = proc[q]
    BY <2>2 DEF Goes, Keeps
  <2>6. \A q \in Procs : IsWhole(proc'[q].content) /\ IsWhole(proc'[q].source)
    BY <2>3, <2>4, <2>5 DEF AllWhole
  <2>7. /\ \A g \in Files : g # proc[p].f => backup'[g] = backup[g]
        /\ \A r \in Seconds : r # second => backup'[proc[p].f][r] = backup[proc[p].f][r]
    BY <2>1, <2>2, BackupOpened
  <2>8. ASSUME NEW g \in Files, NEW r \in Seconds, ~IsWhole(backup'[g][r])
        PROVE  \E q \in Procs : proc'[q].at = "copying" /\ proc'[q].f = g /\ proc'[q].s = r
    <3>1. CASE g = proc[p].f /\ r = second
      BY <2>5, <3>1
    <3>2. CASE g # proc[p].f \/ r # second
      <4>1. ~IsWhole(backup[g][r])
        BY <2>7, <2>8, <3>2
      <4>2. PICK q \in Procs : At(q, "copying") /\ proc[q].f = g /\ proc[q].s = r
        BY <2>3, <4>1 DEF AllWhole
      <4>3. q # p
        BY <2>2, <4>2 DEF At
      <4>4. QED
        BY <2>5, <4>2, <4>3 DEF At
    <3>3. QED
      BY <3>1, <3>2
  <2>9. QED
    BY <2>2, <2>3, <2>6, <2>8 DEF AllWhole, At, IsWhole
<1>5. ASSUME NEW p \in Procs, CopyToBackup(p)
      PROVE  AllWhole'
  <2>1. /\ proc[p].f \in Files /\ proc[p].s \in Seconds /\ proc[p].source \in Contents
    BY <1>5 DEF Stepping, StepInv, CopyToBackup, At, TypeOK, Process
  <2>2. /\ At(p, "copying") /\ UNCHANGED <<etc, mishaps>>
        /\ backup' = [backup EXCEPT ![proc[p].f] = Prune([@ EXCEPT ![proc[p].s] = proc[p].source])]
        /\ Goes(p, "install", proc[p].todo, proc[p].f, proc[p].content,
                proc[p].source, proc[p].s)
    BY <1>5, CopyToBackupIs
  <2>3. AllWhole /\ Single
    BY <1>1, <2>2
  <2>4. /\ proc'[p].content = proc[p].content /\ proc'[p].source = proc[p].source
        /\ \A q \in Procs : q # p => proc'[q] = proc[q]
    BY <2>2 DEF Goes, Keeps
  <2>5. \A q \in Procs : IsWhole(proc'[q].content) /\ IsWhole(proc'[q].source)
    BY <2>3, <2>4 DEF AllWhole
  <2>6. /\ \A g \in Files : g # proc[p].f => backup'[g] = backup[g]
        /\ backup'[proc[p].f][proc[p].s] \in {proc[p].source, None}
        /\ \A r \in Seconds : r # proc[p].s =>
             backup'[proc[p].f][r] \in {backup[proc[p].f][r], None}
    <3> DEFINE f == proc[p].f
               s == proc[p].s
               c == proc[p].source
    <3>1. /\ f \in Files /\ s \in Seconds /\ c \in Contents
          /\ backup' = [backup EXCEPT ![f] = Prune([@ EXCEPT ![s] = c])]
      BY <2>1, <2>2
    <3> HIDE DEF f, s, c
    <3>2. /\ \A g \in Files : g # f => backup'[g] = backup[g]
          /\ backup'[f][s] \in {c, None}
          /\ \A r \in Seconds : r # s => backup'[f][r] \in {backup[f][r], None}
      BY <3>1, BackupFilled
    <3>3. QED
      BY <3>2 DEF f, s, c
  <2>7. ASSUME NEW g \in Files, NEW r \in Seconds
        PROVE  IsWhole(backup'[g][r])
    <3>1. CASE g = proc[p].f /\ r = proc[p].s
      BY <2>3, <2>6, <3>1 DEF AllWhole, IsWhole
    <3>2. CASE g # proc[p].f \/ r # proc[p].s
      <4>1. IsWhole(backup[g][r])
        <5>1. ASSUME NEW q \in Procs, At(q, "copying")
              PROVE  q = p
          BY <2>2, <2>3, <5>1 DEF Working, At
        <5>2. QED
          BY <2>3, <3>2, <5>1 DEF AllWhole
      <4>2. backup'[g][r] \in {backup[g][r], None}
        BY <2>6, <3>2
      <4>3. QED
        BY <4>1, <4>2 DEF IsWhole
    <3>3. QED
      BY <3>1, <3>2
  <2>8. QED
    BY <2>2, <2>3, <2>5, <2>7 DEF AllWhole, IsWhole
<1>6. ASSUME NEW p \in Procs, Install(p)
      PROVE  AllWhole'
  <2>1. /\ At(p, "install") /\ UNCHANGED <<backup, mishaps>>
        /\ etc' = [etc EXCEPT ![proc[p].f] = proc[p].content]
        /\ Goes(p, "next", proc[p].todo, None, None, None, None)
    BY <1>6, InstallIs
  <2>2. AllWhole
    BY <1>1, <2>1
  <2>3. \A f \in Files : IsWhole(etc'[f])
    BY <2>1, <2>2 DEF AllWhole, TypeOK
  <2>4. ~At(p, "copying") /\ proc'[p].content = None /\ proc'[p].source = None
    BY <2>1 DEF At, Goes
  <2>5. \A q \in Procs : q # p => Disturbs(q)
    <3>1. \A q \in Procs : q # p => proc'[q] = proc[q]
      BY <2>1 DEF Goes, Keeps
    <3>2. \A q \in Procs : q # p => ~Working(q)
      BY <1>1, <2>1 DEF Working, At
    <3>3. QED
      BY <3>1, <3>2 DEF Disturbs
  <2>6. QED
    BY <2>1, <2>2, <2>3, <2>4, <2>5, WholeDisturbed
<1>7. ASSUME NEW p \in Procs, NEW task \in proc[p].todo, ReadForRecovery(p, task)
      PROVE  AllWhole'
  <2>1. /\ proc[p].at = "next" /\ UNCHANGED <<etc, backup, mishaps>>
        /\ task.kind = "restore" => task.s \in Seconds
        /\ task.file \in Files
    BY <1>7 DEF ReadForRecovery, Begin, At, Stepping, StepInv, TypeOK, Process, Tasks
  <2>2. AllWhole /\ Single
    BY <1>1, <2>1
  <2>3. task.kind = "restore" => IsWhole(backup[task.file][task.s])
    <3>1. ASSUME NEW q \in Procs, At(q, "copying")
          PROVE  FALSE
      BY <2>1, <2>2, <3>1 DEF Working, At
    <3>2. QED
      BY <2>1, <2>2, <3>1 DEF AllWhole
  <2>4. PICK c \in Contents :
          /\ IsWhole(c)
          /\ Goes(p, "install", proc[p].todo \ {task}, task.file, c, proc[p].source, proc[p].s)
    <3>1. IsWhole(etc[task.file])
      BY <2>1, <2>2 DEF AllWhole
    <3>2. CASE task.kind = "restore"
      BY <1>7, <2>1, <2>3, <3>2, ReadForRecoveryIs
    <3>3. CASE task.kind # "restore"
      <4> DEFINE new == [etc[task.file] EXCEPT !.line = FALSE]
      <4>1. /\ etc[task.file] \in Contents
            /\ Goes(p, "install", proc[p].todo \ {task}, task.file, new, proc[p].source, proc[p].s)
        BY <1>7, <3>3, ReadForRecoveryIs
      <4>2. new \in Contents /\ IsWhole(new)
        BY <3>1, <4>1, LineSet, PamAssumption DEF IsWhole
      <4>3. QED
        BY <4>1, <4>2
    <3>4. QED
      BY <3>2, <3>3
  <2>5. /\ Keeps(p) /\ IsWhole(proc'[p].content) /\ IsWhole(proc'[p].source)
        /\ ~At(p, "copying")
    BY <2>1, <2>2, <2>4 DEF Goes, AllWhole, At
  <2>6. QED
    BY <2>1, <2>2, <2>5, WholeKept
<1>8. ASSUME NEW p \in Procs, Finish(p) \/ Fail(p) \/ Crash(p) \/ Leave(p)
      PROVE  AllWhole'
  <2>1. /\ Stops(p) /\ UNCHANGED <<etc, backup>> /\ mishaps \subseteq mishaps'
        /\ At(p, "copying") => "cut" \in mishaps'
    BY <1>8, StopsIs
  <2>2. Keeps(p) /\ IsWhole(proc'[p].content) /\ IsWhole(proc'[p].source)
    BY <2>1 DEF Stops, IsWhole
  <2>3. QED
    BY <1>1, <2>1, <2>2, WholeKept
<1>9. ASSUME NEW p \in Procs, FailAndGoOn(p)
      PROVE  AllWhole'
  <2>1. /\ UNCHANGED <<etc, backup>> /\ mishaps \subseteq mishaps'
        /\ At(p, "copying") => "cut" \in mishaps'
    BY <1>9, FailAndGoOnIs
  <2>2. Keeps(p) /\ IsWhole(proc'[p].content) /\ IsWhole(proc'[p].source)
    BY <1>1, <1>9, <2>1, FailAndGoOnIs DEF Goes, AllWhole, IsWhole
  <2>3. QED
    BY <1>1, <2>1, <2>2, WholeKept
<1>10. ASSUME NEW g \in Files, NEW body \in Bodies \cup {None}, Edit(g, body)
       PROVE  AllWhole'
  <2>1. /\ backup' = backup /\ mishaps \subseteq mishaps'
        /\ \A f \in Files : f # g => etc'[f] = etc[f]
        /\ etc'[g] # None => etc'[g].body # "empty"
        /\ \A p \in Procs : Disturbs(p)
    BY <1>10, EditIs
  <2>2. \A f \in Files : IsWhole(etc'[f])
    BY <1>1, <2>1 DEF AllWhole, IsWhole
  <2>3. QED
    BY <1>1, <2>1, <2>2, WholeDisturbed
<1>11. ASSUME UNCHANGED <<etc, backup, now, proc, mishaps, lost>>
       PROVE  AllWhole'
  BY <1>1, <1>11 DEF AllWhole, At, IsWhole
<1>12. QED
  <2>1. ASSUME NEW p \in Procs, ProcStep(p)
        PROVE  AllWhole'
    BY <1>2, <1>3, <1>4, <1>5, <1>6, <1>7, <1>8, <1>9, <2>1 DEF ProcStep, Work
  <2>2. QED
    BY <1>10, <1>11, <2>1 DEF PamStep, Others

LEMMA WholeInit == WholeInitially /\ Init => WholeInv
<1> SUFFICES ASSUME WholeInitially, Init
             PROVE  AllWhole
  BY DEF WholeInv
<1>1. \A f \in Files : IsWhole(etc[f])
  BY DEF Init, WholeInitially
<1>2. \A p \in Procs : IsWhole(proc[p].content) /\ IsWhole(proc[p].source)
  BY DEF Init, Free, IsWhole
<1>3. \A f \in Files, s \in Seconds : IsWhole(backup[f][s])
  BY DEF Init, IsWhole
<1>4. QED
  BY <1>1, <1>2, <1>3 DEF AllWhole

-----------------------------------------------------------------------------
(* A backup to recover from is kept. *)

SameStep(p) ==
  /\ proc'[p].op = proc[p].op /\ proc'[p].at = proc[p].at /\ proc'[p].f = proc[p].f
  /\ proc'[p].content = proc[p].content /\ proc'[p].source = proc[p].source
  /\ proc'[p].s = proc[p].s

\* p has no backup to its name, before or after.
NoBackup(p) ==
  /\ proc[p].at \notin {"copying", "install"} \/ proc[p].op \notin Switching
  /\ proc'[p].at \notin {"copying", "install"} \/ proc'[p].op \notin Switching

\* A step that changes no file.
LEMMA RecoverFrame ==
  ASSUME Recoverable, UNCHANGED <<etc, backup, now, lost>>,
         \A p \in Procs : SameStep(p) \/ (NoBackup(p) /\ SwitchInv(p)')
  PROVE  Recoverable'
<1>1. \A f \in Files : Source(f)' = Source(f) /\ Clean(f)' = Clean(f)
  BY DEF Source, Clean
<1>2. ASSUME NEW p \in Procs, SameStep(p)
      PROVE  SwitchInv(p)'
  BY <1>2 DEF Recoverable, SwitchInv, SameStep, AtFile, At, Source, Newest
<1>3. ASSUME NEW p \in Procs, NEW f, NEW s
      PROVE  BacksUp(p, f, s)' <=> BacksUp(p, f, s)
  BY DEF BacksUp, SameStep, NoBackup
<1>4. \A f \in Files : Newest(f, now)'
  BY DEF Recoverable, Newest
<1>5. ASSUME NEW f \in Files, HasLine(etc[f]), Cardinality(lost[f]) + 2 <= MaxBackups
      PROVE  \E s \in Clean(f) : backup'[f][s].body = etc'[f].body /\ KeepsFrom(f, s)'
  BY <1>3, <1>5 DEF Recoverable, KeepsFrom, Clean
<1>6. QED
  BY <1>1, <1>2, <1>4, <1>5 DEF Recoverable, HasLine

\* p alone is at work; no other process is making or has just made a backup.
LEMMA OnlyOneBacksUp ==
  ASSUME AloneInv, mishaps \subseteq {"cut"}, NEW p \in Procs, Working(p)
  PROVE  /\ proc[p].alone
         /\ \A q \in Procs : q # p => ~Working(q) /\ ~AtFile(q)
         /\ \A q \in Procs, f \in Files, s \in Seconds : BacksUp(q, f, s) =>
              q = p /\ f = proc[p].f /\ s = proc[p].s /\ proc[p].op \in Switching
                    /\ proc[p].at \in {"copying", "install"}
<1>1. mishaps \cap {"edited", "overlap"} = {}
  OBVIOUS
<1>2. QED
  BY <1>1 DEF AloneInv, Working, AtFile, BacksUp

\* A switch that ends before it changes its file leaves a backup too many, which is
\* counted as lost.
LEMMA RecoverLoses ==
  ASSUME TypeOK, Stepping, AloneInv, Recoverable, mishaps \subseteq {"cut"},
         NEW p \in Procs, Keeps(p), Loses(p), UNCHANGED <<etc, backup, now>>,
         proc[p].op \in Switching, proc[p].at \in {"copying", "install"},
         proc'[p].at \notin {"copy", "copying", "install"}
  PROVE  Recoverable'
<1>1. PICK f \in Files, s \in Seconds : f = proc[p].f /\ s = proc[p].s
  BY DEF Stepping, StepInv
<1>2. Working(p)
  BY DEF Working
<1>3. /\ \A q \in Procs : q # p => ~AtFile(q)
      /\ \A q \in Procs, g \in Files, r \in Seconds : BacksUp(q, g, r) => g = f /\ r = s
  BY <1>1, <1>2, OnlyOneBacksUp
<1>4. lost' = [lost EXCEPT ![f] = @ \cup {s}] /\ lost \in [Files -> SUBSET Seconds]
  BY <1>1 DEF Loses, TypeOK
<1>5. \A q \in Procs : ~AtFile(q)'
  BY <1>3 DEF AtFile, Keeps
<1>6. \A q \in Procs : SwitchInv(q)' /\ \A g, r : ~BacksUp(q, g, r)'
  BY <1>5 DEF SwitchInv, BacksUp, AtFile
<1>7. \A g \in Files : Newest(g, now)'
  BY DEF Recoverable, Newest
<1>8. ASSUME NEW g \in Files, HasLine(etc[g]), Cardinality(lost'[g]) + 2 <= MaxBackups
      PROVE  \E w \in Clean(g)' : backup'[g][w].body = etc'[g].body /\ KeepsFrom(g, w)'
  <2>1. /\ lost[g] \in SUBSET lost'[g] /\ lost'[g] \in SUBSET Seconds
        /\ g = f => s \in lost'[g]
    BY <1>4
  <2>2. Cardinality(lost[g]) + 2 <= MaxBackups
    <3>1. /\ IsFiniteSet(lost'[g]) /\ Cardinality(lost'[g]) \in Nat
          /\ Cardinality(lost[g]) \in Nat
      BY <1>4, <2>1, SomeSeconds
    <3>2. Cardinality(lost[g]) <= Cardinality(lost'[g])
      BY <2>1, <3>1, FS_Subset
    <3>3. QED
      BY <1>8, <3>1, <3>2, PamAssumption
  <2>3. PICK w \in Clean(g) : backup[g][w].body = etc[g].body /\ KeepsFrom(g, w)
    BY <1>8, <2>2 DEF Recoverable
  <2>4. ASSUME NEW r \in Seconds, backup[g][r] # None, r > w
        PROVE  r \in lost'[g]
    <3>1. r \in lost[g] \/ \E q \in Procs : BacksUp(q, g, r)
      BY <2>3, <2>4 DEF KeepsFrom
    <3>2. QED
      BY <1>3, <2>1, <3>1
  <2>5. w \in Clean(g)' /\ KeepsFrom(g, w)'
    BY <1>6, <2>3, <2>4 DEF Clean, KeepsFrom
  <2>6. QED
    BY <2>3, <2>5
<1>9. QED
  BY <1>6, <1>7, <1>8 DEF Recoverable, HasLine

\* The clock does not go back, and a second that is used again is a mishap: so the
\* backup that p opens is the newest, and the good one is untouched.
LEMMA RecoverOpens ==
  ASSUME TypeOK, Stepping, AloneInv, Recoverable, mishaps' \subseteq {"cut"},
         NEW p \in Procs, NEW second \in Seconds, OpenBackup(p, second)
  PROVE  Recoverable'
<1>1. PICK f \in Files : f = proc[p].f /\ proc[p].op \in Switching /\ Working(p)
  BY DEF Stepping, StepInv, OpenBackup, At, Working
<1>2. /\ proc[p].at = "copy" /\ Source(f) \in Contents
      /\ second >= now /\ now' = second /\ UNCHANGED <<etc, lost>> /\ mishaps \subseteq {"cut"}
      /\ backup' = [backup EXCEPT ![f] = [@ EXCEPT ![second] = Torn]]
      /\ backup[f][second] = None
      /\ Goes(p, "copying", proc[p].todo, f, proc[p].content, Source(f), second)
  BY <1>1, OpenBackupIs DEF At
<1>3. /\ proc'[p].op = proc[p].op /\ proc'[p].at = "copying" /\ proc'[p].f = f
      /\ proc'[p].content = proc[p].content /\ proc'[p].source = Source(f)
      /\ proc'[p].s = second
      /\ \A q \in Procs : q # p => proc'[q] = proc[q]
  BY <1>2 DEF Goes, Keeps
<1>4. /\ \A g \in Files : g # f => backup'[g] = backup[g]
      /\ \A r \in Seconds : r # second => backup'[f][r] = backup[f][r]
  BY <1>2, BackupOpened
<1>5. /\ \A q \in Procs : q # p => ~AtFile(q)
      /\ \A q \in Procs, g \in Files, r \in Seconds : ~BacksUp(q, g, r)
  BY <1>1, <1>2, OnlyOneBacksUp
<1>6. SwitchInv(p) /\ \A g \in Files : Newest(g, now)
  BY DEF Recoverable
<1>7. ASSUME NEW g \in Files, NEW r \in Seconds, backup'[g][r] # None
      PROVE  r <= second
  <2>1. r \in Nat /\ now \in Nat /\ second \in Nat
    BY DEF TypeOK, Seconds
  <2>2. CASE g = f /\ r = second
    BY <2>1, <2>2
  <2>3. CASE g # f \/ r # second
    <3>1. backup[g][r] # None
      BY <1>4, <1>7, <2>3
    <3>2. r <= now
      BY <1>6, <3>1 DEF Newest
    <3>3. QED
      BY <1>2, <2>1, <3>2
  <2>4. QED
    BY <2>2, <2>3
<1>8. \A g \in Files : Newest(g, now)'
  BY <1>2, <1>7 DEF Newest
<1>9. SwitchInv(p)'
  <2>1. /\ Source(f) # None /\ proc[p].content.body = Source(f).body
        /\ proc[p].content.line # Source(f).line
    BY <1>1, <1>2, <1>6 DEF SwitchInv, AtFile
  <2>2. Source(f)' = Source(f)
    BY <1>2 DEF Source
  <2>3. second <= now'
    BY <1>2 DEF Seconds
  <2>4. Source(proc[p].f)' = Source(f)
    BY <1>2, <1>3 DEF Source
  <2>5. QED
    BY <1>2, <1>3, <1>7, <2>1, <2>3, <2>4 DEF SwitchInv, Newest, At
<1>10. \A q \in Procs : q # p => SwitchInv(q)'
  BY <1>3, <1>5 DEF SwitchInv, AtFile
<1>11. ASSUME NEW g \in Files, HasLine(etc[g]), Cardinality(lost[g]) + 2 <= MaxBackups
       PROVE  \E s \in Clean(g)' : backup'[g][s].body = etc'[g].body /\ KeepsFrom(g, s)'
  <2>1. PICK s \in Clean(g) : backup[g][s].body = etc[g].body /\ KeepsFrom(g, s)
    BY <1>11 DEF Recoverable
  <2>2. s \in Seconds /\ backup[g][s] # None
    BY <2>1 DEF Clean
  <2>3. g # f \/ s # second
    BY <1>2, <2>2
  <2>4. backup'[g][s] = backup[g][s] /\ s \in Clean(g)'
    BY <1>4, <2>1, <2>2, <2>3 DEF Clean
  <2>5. \A q \in Procs : ~BacksUp(q, g, s)'
    BY <1>3, <1>5, <2>2, <2>3 DEF BacksUp
  <2>6. ASSUME NEW r \in Seconds, backup'[g][r] # None, r > s
        PROVE  r \in lost'[g] \/ \E q \in Procs : BacksUp(q, g, r)'
    <3>1. r \in lost[g] \/ (g = f /\ r = second)
      BY <1>4, <1>5, <2>1, <2>6 DEF KeepsFrom
    <3>2. g = f /\ r = second => BacksUp(p, g, r)'
      BY <1>1, <1>3 DEF BacksUp
    <3>3. QED
      BY <1>2, <3>1, <3>2
  <2>7. QED
    BY <1>2, <2>1, <2>4, <2>5, <2>6 DEF KeepsFrom
<1>12. QED
  BY <1>2, <1>8, <1>9, <1>10, <1>11 DEF Recoverable, HasLine

\* Pruning removes the oldest: what is newer than the good backup of p's file is
\* that of p, and those of the switches that were lost.
LEMMA RecoverCopies ==
  ASSUME TypeOK, Stepping, AloneInv, Recoverable, mishaps' \subseteq {"cut"},
         NEW p \in Procs, CopyToBackup(p)
  PROVE  Recoverable'
<1>1. PICK f \in Files, s \in Seconds, c \in Contents :
        /\ f = proc[p].f /\ s = proc[p].s /\ c = proc[p].source
        /\ proc[p].op \in Switching /\ Working(p)
  BY DEF Stepping, StepInv, CopyToBackup, At, TypeOK, Process, Working
<1>2. /\ proc[p].at = "copying" /\ UNCHANGED <<etc, now, lost>> /\ mishaps \subseteq {"cut"}
      /\ backup' = [backup EXCEPT ![f] = Prune([@ EXCEPT ![s] = c])]
      /\ Goes(p, "install", proc[p].todo, f, proc[p].content, c, s)
  BY <1>1, CopyToBackupIs DEF At
<1>3. /\ proc'[p].op = proc[p].op /\ proc'[p].at = "install" /\ proc'[p].f = f
      /\ proc'[p].content = proc[p].content /\ proc'[p].source = c /\ proc'[p].s = s
      /\ \A q \in Procs : q # p => proc'[q] = proc[q]
  BY <1>2 DEF Goes, Keeps
<1>4. /\ \A q \in Procs : q # p => ~AtFile(q)
      /\ \A q \in Procs, g \in Files, r \in Seconds : BacksUp(q, g, r) => q = p /\ g = f /\ r = s
  BY <1>1, <1>2, OnlyOneBacksUp
<1>5. /\ Source(f) # None /\ proc[p].content.body = Source(f).body
      /\ proc[p].content.line # Source(f).line
      /\ c = Source(f) /\ Newest(f, s) /\ s <= now
  BY <1>1, <1>2 DEF Recoverable, SwitchInv, AtFile, At
<1>6. BacksUp(p, f, s) /\ BacksUp(p, f, s)'
  BY <1>1, <1>2, <1>3 DEF BacksUp
<1>7. /\ \A g \in Files : g # f => backup'[g] = backup[g]
      /\ \A r \in Seconds : r # s => backup'[f][r] \in {backup[f][r], None}
      /\ (\A r \in Seconds : backup[f][r] # None => r <= s) => backup'[f][s] = c
      /\ \A L \in SUBSET Seconds, r \in Seconds :
           /\ Cardinality(L) + 2 <= MaxBackups /\ r # s
           /\ \A q \in Seconds : backup[f][q] # None /\ q > r => q \in L \/ q = s
           => backup'[f][r] = backup[f][r]
  <2>1. /\ backup' = [backup EXCEPT ![f] = Prune([@ EXCEPT ![s] = c])]
        /\ f \in Files /\ s \in Seconds /\ c \in Contents
    BY <1>2
  <2>2. QED
    BY <2>1, BackupFilled
<1>8. backup'[f][s] = c
  BY <1>5, <1>7 DEF Newest
<1>9. ASSUME NEW g \in Files, NEW r \in Seconds, backup'[g][r] # None
      PROVE  backup[g][r] # None \/ (g = f /\ r = s)
  BY <1>7, <1>9
<1>10. ASSUME NEW r \in Seconds, backup'[f][r] # None
       PROVE  r <= s
  BY <1>5, <1>9, <1>10 DEF Newest, Seconds
<1>11. \A g \in Files : Newest(g, now)'
  BY <1>2, <1>5, <1>9 DEF Newest, Recoverable
<1>12. SwitchInv(p)'
  <2>1. Source(proc[p].f)' = Source(f)
    BY <1>2, <1>3 DEF Source
  <2>2. QED
    BY <1>3, <1>5, <1>8, <1>10, <2>1 DEF SwitchInv, Newest, At
<1>13. \A q \in Procs : q # p => SwitchInv(q)'
  BY <1>3, <1>4 DEF SwitchInv, AtFile
<1>14. ASSUME NEW g \in Files, HasLine(etc[g]), Cardinality(lost[g]) + 2 <= MaxBackups
       PROVE  \E w \in Clean(g)' : backup'[g][w].body = etc'[g].body /\ KeepsFrom(g, w)'
  <2>1. PICK w \in Clean(g) : backup[g][w].body = etc[g].body /\ KeepsFrom(g, w)
    BY <1>14 DEF Recoverable
  <2>2. w \in Seconds /\ backup[g][w] # None
    BY <2>1 DEF Clean
  <2>3. g # f \/ w # s
    BY <1>6, <2>1 DEF KeepsFrom
  <2>4. backup'[g][w] = backup[g][w]
    <3>1. ASSUME g = f
          PROVE  \A q \in Seconds : backup[f][q] # None /\ q > w => q \in lost[f] \/ q = s
      BY <1>4, <2>1, <3>1 DEF KeepsFrom
    <3>2. lost[f] \in SUBSET Seconds
      BY DEF TypeOK
    <3>3. QED
      BY <1>7, <1>14, <2>2, <2>3, <3>1, <3>2
  <2>5. w \in Clean(g)'
    BY <2>1, <2>2, <2>4 DEF Clean
  <2>6. \A q \in Procs : ~BacksUp(q, g, w)'
    BY <1>3, <1>4, <2>2, <2>3 DEF BacksUp
  <2>7. ASSUME NEW r \in Seconds, backup'[g][r] # None, r > w
        PROVE  r \in lost'[g] \/ \E q \in Procs : BacksUp(q, g, r)'
    <3>1. r \in lost[g] \/ (g = f /\ r = s)
      BY <1>4, <1>9, <2>1, <2>7 DEF KeepsFrom
    <3>2. QED
      BY <1>2, <1>6, <3>1
  <2>8. QED
    BY <1>2, <2>1, <2>4, <2>5, <2>6, <2>7 DEF KeepsFrom
<1>15. QED
  BY <1>2, <1>11, <1>12, <1>13, <1>14 DEF Recoverable, HasLine

\* A switch that adds the line has just made the backup that is called for; one
\* that removes it, and an emergency disable, leave nothing to recover from.
LEMMA RecoverInstalls ==
  ASSUME TypeOK, Stepping, AloneInv, Recoverable, mishaps' \subseteq {"cut"},
         NEW p \in Procs, EmergencyInv(p), Install(p)
  PROVE  Recoverable'
<1>1. PICK f \in Files, c \in Contents :
        /\ f = proc[p].f /\ c = proc[p].content
        /\ proc[p].op \in Switching \/ proc[p].op = "emergency"
        /\ proc[p].op \in Switching => proc[p].s \in Seconds
        /\ Working(p)
  BY DEF Stepping, StepInv, Install, At, TypeOK, Process, Working
<1>2. /\ proc[p].at = "install" /\ UNCHANGED <<backup, now>> /\ mishaps \subseteq {"cut"}
      /\ etc' = [etc EXCEPT ![f] = c]
      /\ \A g \in Files : g # f => lost'[g] = lost[g]
      /\ proc'[p].at = "next"
      /\ \A q \in Procs : q # p => proc'[q] = proc[q]
  BY <1>1, InstallIs DEF At, Goes, Keeps, TypeOK
<1>3. /\ proc[p].alone
      /\ \A q \in Procs : q # p => ~AtFile(q)
      /\ \A q \in Procs, g \in Files, r \in Seconds : BacksUp(q, g, r) =>
           q = p /\ g = f /\ proc[p].op \in Switching
  BY <1>1, <1>2, OnlyOneBacksUp
<1>4. \A q \in Procs : ~AtFile(q)' /\ SwitchInv(q)'
  BY <1>2, <1>3 DEF SwitchInv, AtFile
<1>5. \A q \in Procs : \A g, r : ~BacksUp(q, g, r)'
  BY <1>2, <1>3, <1>4 DEF BacksUp, AtFile
<1>6. \A g \in Files : Newest(g, now)'
  BY <1>2 DEF Recoverable, Newest
<1>7. /\ etc'[f] = c
      /\ \A g \in Files : g # f => etc'[g] = etc[g]
  BY <1>2 DEF TypeOK
<1>8. ASSUME NEW g \in Files, HasLine(etc'[g]), Cardinality(lost'[g]) + 2 <= MaxBackups
      PROVE  \E s \in Clean(g)' : backup'[g][s].body = etc'[g].body /\ KeepsFrom(g, s)'
  <2>1. CASE g # f
    <3>1. PICK s \in Clean(g) : backup[g][s].body = etc[g].body /\ KeepsFrom(g, s)
      BY <1>2, <1>7, <1>8, <2>1 DEF Recoverable
    <3>2. \A r \in Seconds : backup[g][r] # None /\ r > s => r \in lost'[g]
      BY <1>2, <1>3, <2>1, <3>1 DEF KeepsFrom
    <3>3. QED
      BY <1>2, <1>5, <1>7, <2>1, <3>1, <3>2 DEF KeepsFrom, Clean
  <2>2. CASE g = f
    <3>1. c.line
      BY <1>7, <1>8, <2>2 DEF HasLine
    <3>2. proc[p].op \in Switching
      <4>1. proc[p].op = "emergency" => ~c.line
        BY <1>1, <1>2, <1>3 DEF EmergencyInv, At
      <4>2. QED
        BY <1>1, <3>1, <4>1
    <3>3. PICK s \in Seconds : s = proc[p].s
      BY <1>1, <3>2
    <3>4. /\ Source(f) # None /\ c.body = Source(f).body /\ c.line # Source(f).line
          /\ backup[f][s] = Source(f) /\ Newest(f, s)
      BY <1>1, <1>2, <3>2, <3>3 DEF Recoverable, SwitchInv, AtFile, At
    <3>5. ~Source(f).line
      BY <3>1, <3>4, SourceTyped DEF Contents
    <3>6. s \in Clean(f)'
      BY <1>2, <3>3, <3>4, <3>5 DEF Clean
    <3>7. \A r \in Seconds : ~(backup[f][r] # None /\ r > s)
      BY <3>4 DEF Newest, Seconds
    <3>8. KeepsFrom(f, s)'
      BY <1>2, <1>5, <3>7 DEF KeepsFrom
    <3>9. QED
      BY <1>2, <1>7, <2>2, <3>4, <3>6, <3>8
  <2>3. QED
    BY <2>1, <2>2
<1>9. QED
  BY <1>4, <1>6, <1>8 DEF Recoverable, HasLine

\* p has begun a backup of the file it switches.
Switches(p) == proc[p].op \in Switching /\ proc[p].at \in {"copying", "install"}

\* No step but a mishap makes recovery impossible.
LEMMA RecoverStep ==
  /\ TypeOK /\ Stepping /\ AloneInv
  /\ \A p \in Procs : EmergencyInv(p)
  /\ RecoverInv /\ PamStep
  => RecoverInv'
<1> SUFFICES ASSUME TypeOK, Stepping, AloneInv, \A p \in Procs : EmergencyInv(p),
                    RecoverInv, PamStep, mishaps' \subseteq {"cut"}
             PROVE  Recoverable'
  BY DEF RecoverInv
<1>1. ASSUME mishaps \subseteq mishaps'
      PROVE  Recoverable
  BY <1>1 DEF RecoverInv
<1>2. ASSUME NEW p \in Procs, Keeps(p)
      PROVE  \A q \in Procs : q # p => SameStep(q)
  BY <1>2 DEF Keeps, SameStep
<1>3. ASSUME NEW p \in Procs,
             \/ \E known, extra \in SUBSET Files : StartToggle(p, known, extra)
             \/ \E fs \in SUBSET Files : StartDisabling(p, fs)
             \/ StartEmergency(p)
      PROVE  Recoverable'
  <2>1. PICK op, todo, fs, enable : Begins(p, op, todo, fs, enable)
    BY <1>3, SomethingBegins
  <2>2. mishaps \subseteq mishaps' /\ UNCHANGED <<etc, backup, now, lost>>
    BY <2>1 DEF Begins
  <2>3. NoBackup(p) /\ SwitchInv(p)'
    BY <2>1 DEF Begins, NoBackup, SwitchInv, AtFile, At
  <2>4. \A q \in Procs : q # p => SameStep(q)
    BY <2>1 DEF Begins, Disturbs, SameStep
  <2>5. QED
    BY <1>1, <2>2, <2>3, <2>4, RecoverFrame
<1>4. ASSUME NEW p \in Procs, NEW task \in proc[p].todo, ReadForSwitch(p, task)
      PROVE  Recoverable'
  <2> DEFINE src == Source(task.file)
             new == [src EXCEPT !.line = proc[p].enable]
  <2>1. proc[p].enable \in BOOLEAN /\ task.file \in Files
    BY DEF TypeOK, Process, Tasks
  <2>2. /\ At(p, "next") /\ src \in Contents /\ UNCHANGED <<etc, backup, now, mishaps, lost>>
        /\ \/ Goes(p, "next", proc[p].todo \ {task}, proc[p].f, proc[p].content,
                   proc[p].source, proc[p].s)
           \/ /\ src.line # proc[p].enable
              /\ Goes(p, "copy", proc[p].todo \ {task}, task.file, new,
                      proc[p].source, proc[p].s)
    BY <1>4, ReadForSwitchIs
  <2>3. /\ new.line = proc[p].enable /\ new.body = src.body /\ src # None
    BY <2>1, <2>2, LineSet, PamAssumption
  <2>4. \A f \in Files : Source(f)' = Source(f)
    BY <2>2 DEF Source
  <2>5. PICK f \in Files : f = task.file
    BY <2>1
  <2> HIDE DEF new
  <2>6. NoBackup(p)
    BY <2>2 DEF NoBackup, Goes, At
  <2>7. SwitchInv(p)'
    <3>1. CASE proc'[p].at = "next"
      BY <3>1 DEF SwitchInv, AtFile
    <3>2. CASE proc'[p].at # "next"
      <4>1. /\ src.line # proc[p].enable /\ proc'[p].at = "copy" /\ proc'[p].f = f
            /\ proc'[p].content = new
        BY <2>2, <2>5, <3>2 DEF Goes
      <4>2. Source(proc[p].f)' = src
        BY <2>4, <2>5, <4>1 DEF Source
      <4> HIDE DEF src
      <4>3. QED
        BY <2>3, <4>1, <4>2 DEF SwitchInv, At
    <3>3. QED
      BY <3>1, <3>2
  <2>8. Keeps(p)
    BY <2>2 DEF Goes
  <2>9. QED
    BY <1>1, <1>2, <2>2, <2>6, <2>7, <2>8, RecoverFrame
<1>5. ASSUME NEW p \in Procs, NEW second \in Seconds, OpenBackup(p, second)
      PROVE  Recoverable'
  <2>1. proc[p].f \in Files
    BY <1>5 DEF Stepping, StepInv, OpenBackup, At
  <2>2. QED
    BY <1>1, <1>5, <2>1, OpenBackupIs, RecoverOpens
<1>6. ASSUME NEW p \in Procs, CopyToBackup(p)
      PROVE  Recoverable'
  BY <1>1, <1>6, CopyToBackupIs, RecoverCopies
<1>7. ASSUME NEW p \in Procs, Install(p)
      PROVE  Recoverable'
  BY <1>1, <1>7, InstallIs, RecoverInstalls
<1>8. ASSUME NEW p \in Procs, NEW task \in proc[p].todo, ReadForRecovery(p, task)
      PROVE  Recoverable'
  <2>1. /\ task.kind = "restore" => task.s \in Seconds
        /\ proc[p].op \notin Switching /\ proc[p].at = "next"
    BY <1>8 DEF Stepping, StepInv, ReadForRecovery, Begin, At
  <2>2. Keeps(p) /\ UNCHANGED <<etc, backup, now, mishaps, lost>> /\ proc'[p].op = proc[p].op
    BY <1>8, <2>1, ReadForRecoveryIs DEF Goes
  <2>3. NoBackup(p) /\ SwitchInv(p)'
    BY <2>1, <2>2 DEF NoBackup, SwitchInv
  <2>4. QED
    BY <1>1, <1>2, <2>2, <2>3, RecoverFrame
<1>9. ASSUME NEW p \in Procs, Finish(p) \/ Fail(p) \/ Crash(p) \/ Leave(p)
      PROVE  Recoverable'
  <2>1. /\ Stops(p) /\ UNCHANGED <<etc, backup, now>> /\ mishaps \subseteq mishaps'
        /\ Loses(p)
    BY <1>9, StopsIs
  <2>2. Keeps(p) /\ proc'[p].at \notin {"next", "copy", "copying", "install"} /\ SwitchInv(p)'
    BY <2>1 DEF Stops, SwitchInv, AtFile
  <2>3. CASE Switches(p)
    BY <1>1, <2>1, <2>2, <2>3, RecoverLoses DEF Switches
  <2>4. CASE ~Switches(p)
    <3>1. NoBackup(p) /\ lost' = lost
      BY <2>1, <2>2, <2>4 DEF Switches, NoBackup, Loses
    <3>2. QED
      BY <1>1, <1>2, <2>1, <2>2, <3>1, RecoverFrame
  <2>5. QED
    BY <2>3, <2>4
<1>10. ASSUME NEW p \in Procs, FailAndGoOn(p)
       PROVE  Recoverable'
  <2>1. /\ Keeps(p) /\ UNCHANGED <<etc, backup, now>> /\ mishaps \subseteq mishaps'
        /\ Loses(p) /\ proc'[p].at = "next"
    BY <1>10, FailAndGoOnIs DEF Goes
  <2>2. SwitchInv(p)'
    BY <2>1 DEF SwitchInv, AtFile
  <2>3. CASE Switches(p)
    BY <1>1, <2>1, <2>3, RecoverLoses DEF Switches
  <2>4. CASE ~Switches(p)
    <3>1. NoBackup(p) /\ lost' = lost
      BY <2>1, <2>4 DEF Switches, NoBackup, Loses
    <3>2. QED
      BY <1>1, <1>2, <2>1, <2>2, <3>1, RecoverFrame
  <2>5. QED
    BY <2>3, <2>4
<1>11. ASSUME NEW g \in Files, NEW body \in Bodies \cup {None}, Edit(g, body)
       PROVE  Recoverable'
  <2>1. /\ UNCHANGED <<backup, now, lost>> /\ mishaps \subseteq mishaps'
        /\ \A f \in Files : f # g => etc'[f] = etc[f]
        /\ etc'[g] # None => ~etc'[g].line
        /\ \A p \in Procs : ~Working(p) /\ Disturbs(p)
    BY <1>11, EditIs
  <2>2. Recoverable
    BY <1>1, <2>1
  <2>3. \A p \in Procs : ~AtFile(p) /\ ~AtFile(p)'
    BY <2>1 DEF Disturbs, Working, AtFile
  <2>4. \A p \in Procs : \A f, s : ~BacksUp(p, f, s) /\ ~BacksUp(p, f, s)'
    BY <2>3 DEF BacksUp, AtFile
  <2>5. ASSUME NEW f \in Files, HasLine(etc'[f]), Cardinality(lost'[f]) + 2 <= MaxBackups
        PROVE  \E s \in Clean(f)' : backup'[f][s].body = etc'[f].body /\ KeepsFrom(f, s)'
    <3>1. f # g
      BY <2>1, <2>5 DEF HasLine
    <3>2. PICK s \in Clean(f) : backup[f][s].body = etc[f].body /\ KeepsFrom(f, s)
      BY <2>1, <2>2, <2>5, <3>1 DEF Recoverable
    <3>3. s \in Clean(f)'
      BY <2>1, <3>2 DEF Clean
    <3>4. KeepsFrom(f, s)'
      BY <2>1, <2>4, <3>2 DEF KeepsFrom
    <3>5. QED
      BY <2>1, <3>1, <3>2, <3>3, <3>4
  <2>6. \A f \in Files : Newest(f, now)'
    BY <2>1, <2>2 DEF Recoverable, Newest
  <2>7. \A p \in Procs : SwitchInv(p)'
    BY <2>3 DEF SwitchInv
  <2>8. QED
    BY <2>5, <2>6, <2>7 DEF Recoverable, HasLine
<1>12. ASSUME UNCHANGED <<etc, backup, now, proc, mishaps, lost>>
       PROVE  Recoverable'
  <2>1. \A p \in Procs : SameStep(p)
    BY <1>12 DEF SameStep
  <2>2. QED
    BY <1>1, <1>12, <2>1, RecoverFrame
<1>13. QED
  <2>1. ASSUME NEW p \in Procs, ProcStep(p)
        PROVE  Recoverable'
    BY <1>3, <1>4, <1>5, <1>6, <1>7, <1>8, <1>9, <1>10, <2>1 DEF ProcStep, Work
  <2>2. QED
    BY <1>11, <1>12, <2>1 DEF PamStep, Others

LEMMA RecoverInit == OffInitially /\ Init => RecoverInv
<1> SUFFICES ASSUME OffInitially, Init
             PROVE  Recoverable
  BY DEF RecoverInv
<1>1. \A f \in Files, s \in Seconds : backup[f][s] = None
  BY DEF Init
<1>2. \A p \in Procs : ~AtFile(p)
  BY DEF Init, AtFile, Free
<1>3. \A f \in Files : ~HasLine(etc[f])
  BY DEF Init, OffInitially
<1>4. QED
  BY <1>1, <1>2, <1>3 DEF Recoverable, Newest, SwitchInv

-----------------------------------------------------------------------------
(* The theorems. *)

\* A command can only end by Finish, with nothing left to do.
LEMMA CompletesIs ==
  ASSUME TypeOK, Stepping, PamStep, NEW p \in Procs, At(p, "next"), At(p, "done")'
  PROVE  proc[p].todo = {}
<1>1. ASSUME NEW q \in Procs,
             \/ \E known, extra \in SUBSET Files : StartToggle(q, known, extra)
             \/ \E fs \in SUBSET Files : StartDisabling(q, fs)
             \/ StartEmergency(q)
      PROVE  FALSE
  <2>1. PICK op, todo, fs, enable : Begins(q, op, todo, fs, enable)
    BY <1>1, SomethingBegins
  <2>2. QED
    BY <2>1 DEF Begins, Disturbs, At
<1>2. ASSUME NEW q \in Procs, Work(q) \/ Crash(q) \/ Leave(q)
      PROVE  q = p /\ Finish(p)
  <2>1. q = p
    BY <1>2, WorkKeeps DEF Keeps, At
  <2>2. ASSUME NEW task \in proc[p].todo, ReadForSwitch(p, task) \/ ReadForRecovery(p, task)
        PROVE  proc'[p].at # "done"
    <3>1. task.kind = "restore" => task.s \in Seconds
      BY DEF Stepping, StepInv
    <3>2. QED
      BY <2>2, <3>1, ReadForSwitchIs, ReadForRecoveryIs DEF Goes
  <2>3. ASSUME Fail(p) \/ Crash(p)
        PROVE  proc'[p].at # "done"
    BY <2>3, EndsAt
  <2>4. ASSUME FailAndGoOn(p)
        PROVE  proc'[p].at # "done"
    BY <2>4, FailAndGoOnIs DEF Goes
  <2>5. QED
    BY <1>2, <2>1, <2>2, <2>3, <2>4 DEF Work, OpenBackup, CopyToBackup, Install, Leave, At
<1>3. ASSUME NEW f \in Files, NEW body \in Bodies \cup {None}, Edit(f, body)
      PROVE  FALSE
  BY <1>3, EditIs DEF Disturbs, At
<1>4. CASE UNCHANGED <<etc, backup, now, proc, mishaps, lost>>
  BY <1>4 DEF At
<1>5. QED
  BY <1>1, <1>2, <1>3, <1>4 DEF PamStep, ProcStep, Others, Finish

LEMMA EmergencyCompletes ==
  PamInv /\ PamStep =>
    \A p \in Procs : Completes(p, "emergency") => \A f \in Files : ~HasLine(etc[f])
<1> SUFFICES ASSUME PamInv, PamStep, NEW p \in Procs, Completes(p, "emergency")
             PROVE  \A f \in Files : ~HasLine(etc[f])
  OBVIOUS
<1>1. TypeOK /\ Stepping /\ EmergencyInv(p)
  BY DEF PamInv, Stepping
<1>2. proc[p].op = "emergency" /\ proc[p].alone /\ proc[p].at = "next" /\ proc[p].todo = {}
  BY <1>1, CompletesIs DEF Completes, At
<1>3. QED
  BY <1>1, <1>2 DEF EmergencyInv, Working, At

LEMMA ToggleCompletes ==
  PamInv /\ PamStep =>
    \A p \in Procs : Completes(p, "toggle") =>
      \A f \in proc[p].files : HasLine(Source(f)) = proc[p].enable
<1> SUFFICES ASSUME PamInv, PamStep, NEW p \in Procs, Completes(p, "toggle")
             PROVE  \A f \in proc[p].files : HasLine(Source(f)) = proc[p].enable
  OBVIOUS
<1>1. TypeOK /\ Stepping /\ ToggleInv(p)
  BY DEF PamInv, Stepping
<1>2. proc[p].op = "toggle" /\ proc[p].alone /\ proc[p].at = "next" /\ proc[p].todo = {}
  BY <1>1, CompletesIs DEF Completes, At
<1>3. Working(p) /\ ~AtFile(p)
  BY <1>2 DEF Working, AtFile
<1>4. QED
  BY <1>1, <1>2, <1>3 DEF ToggleInv

LEMMA NextIsPamStep == TypeOK /\ [Next]_vars => PamStep /\ events' \in 0 .. MaxEvents
<1> SUFFICES ASSUME TypeOK, [Next]_vars
             PROVE  PamStep /\ events' \in 0 .. MaxEvents
  OBVIOUS
<1>1. events \in 0 .. MaxEvents /\ MaxEvents \in Nat
  BY PamAssumption DEF TypeOK
<1>2. CASE Others
  BY <1>2, EditIs DEF Others, PamStep
<1>3. ASSUME NEW p \in Procs, Work(p) \/ Crash(p) \/ Leave(p)
      PROVE  PamStep /\ events' = events
  BY <1>3 DEF PamStep, ProcStep, Work, Crash, Leave, ReadForSwitch, ReadForRecovery, OpenBackup,
              CopyToBackup, Install, Finish, Fail, FailAndGoOn
<1>4. ASSUME NEW p \in Procs, CommandLine(p), ~Leave(p)
      PROVE  PamStep /\ events' \in 0 .. MaxEvents
  <2>1. SessionServices \in SUBSET Files /\ \A extra \in SUBSET Typed : extra \in SUBSET Files
    BY PamAssumption
  <2>2. ProcStep(p)
    BY <1>4, <2>1 DEF CommandLine, ProcStep
  <2>3. events < MaxEvents /\ events' = events + 1
    BY <1>4 DEF CommandLine, Count
  <2>4. QED
    BY <1>1, <2>2, <2>3 DEF PamStep
<1>5. CASE UNCHANGED vars
  BY <1>1, <1>5 DEF vars, PamStep
<1>6. QED
  BY <1>1, <1>2, <1>3, <1>4, <1>5 DEF Next

\* In every reachable state the types are respected, each process has at its
\* step what it needs there, and PamInv's accounts of commands under way hold.
THEOREM PamInvariant == Spec => []PamInv
<1>1. PamInv /\ [Next]_vars => PamInv'
  BY NextIsPamStep, PamInvStep DEF PamInv
<1>2. QED
  BY <1>1, PamInit, PTL DEF Spec

\* TypeOK is an invariant: commands, edits and crashes in any order, and any
\* number at once, leave every variable well formed.
THEOREM PamTypeCorrect == Spec => []TypeOK
<1>1. PamInv => TypeOK
  BY DEF PamInv
<1>2. QED
  BY <1>1, PamInvariant, PTL

\* No PAM file is ever emptied (FilesNeverEmptied), unless a copy to a backup was
\* cut short or two processes overlapped, if none is empty to begin with.
THEOREM PamFilesStayWhole ==
  ASSUME WholeInitially
  PROVE  Spec => []FilesNeverEmptied
<1>1. Init => WholeInv
  BY WholeInit
<1>2. PamInv /\ WholeInv /\ [Next]_vars => WholeInv'
  <2>1. PamInv => TypeOK /\ Stepping /\ AloneInv
    BY DEF PamInv, Stepping
  <2>2. QED
    BY <2>1, NextIsPamStep, WholeStep
<1>3. WholeInv => FilesNeverEmptied
  BY DEF WholeInv, AllWhole, IsWhole, FilesNeverEmptied
<1>4. QED
  BY <1>1, <1>2, <1>3, PamInvariant, PTL DEF Spec

\* While commands are alone, leave each second to one backup of a file and find no
\* file with the line edited, a file with the line has a backup of the rest of it
\* (RecoveryPossible): for any number of files, switches and seconds, and as many
\* lost switches in a row as the limit on backups has room for, if Facegate is off
\* to begin with.
THEOREM PamRecoveryPossible ==
  ASSUME OffInitially
  PROVE  Spec => []RecoveryPossible
<1>1. Init => RecoverInv
  BY RecoverInit
<1>2. PamInv /\ RecoverInv /\ [Next]_vars => RecoverInv'
  <2>1. PamInv => TypeOK /\ Stepping /\ AloneInv /\ \A p \in Procs : EmergencyInv(p)
    BY DEF PamInv, Stepping
  <2>2. QED
    BY <2>1, NextIsPamStep, RecoverStep
<1>3. RecoverInv => RecoveryPossible
  BY DEF RecoverInv, Recoverable, RecoveryPossible, RecoverableByHand
<1>4. QED
  BY <1>1, <1>2, <1>3, PamInvariant, PTL DEF Spec

\* An emergency disable that ends without error, undisturbed, leaves no file with
\* a line in the spellings Facegate knows (EmergencyRemovesKnown), whatever state it
\* started from.  It is not so of lines spelled otherwise.
THEOREM PamEmergencyRemovesKnown == Spec => EmergencyRemovesKnown
<1> DEFINE A == \A p \in Procs : Completes(p, "emergency") => \A f \in Files : ~HasLine(etc[f])
<1>1. PamInv /\ [Next]_vars => A
  <2>1. PamInv => TypeOK
    BY DEF PamInv
  <2>2. QED
    BY <2>1, NextIsPamStep, EmergencyCompletes
<1>2. EmergencyRemovesKnown <=> [][A]_vars
  BY DEF EmergencyRemovesKnown
<1> HIDE DEF A
<1>3. QED
  BY <1>1, <1>2, PamInvariant, PTL DEF Spec

\* A toggle that ends without error, undisturbed, leaves its files alike
\* (TogglesAlike).
THEOREM PamTogglesAlike == Spec => TogglesAlike
<1> DEFINE A == \A p \in Procs : Completes(p, "toggle") =>
                  \A f \in proc[p].files : HasLine(Source(f)) = proc[p].enable
<1>1. PamInv /\ [Next]_vars => A
  <2>1. PamInv => TypeOK
    BY DEF PamInv
  <2>2. QED
    BY <2>1, NextIsPamStep, ToggleCompletes
<1>2. TogglesAlike <=> [][A]_vars
  BY DEF TogglesAlike
<1> HIDE DEF A
<1>3. QED
  BY <1>1, <1>2, PamInvariant, PTL DEF Spec

=============================================================================
