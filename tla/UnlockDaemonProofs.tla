------------------------- MODULE UnlockDaemonProofs -------------------------
(***************************************************************************)
(* Proofs about UnlockDaemon: any number of scans at a time, any policy,   *)
(* any number of captures per attempt, however locks, unlocks, stops and   *)
(* crashes follow each other.                                              *)
(*                                                                         *)
(* DaemonInv is inductive.  It relates the live scans to the one whose     *)
(* cancel flag the loop holds, the queues of signals to the session, and   *)
(* the late requests of a scan to the captures of its attempt.             *)
(***************************************************************************)
EXTENDS UnlockDaemon, FiniteSetTheorems, TLAPS

-----------------------------------------------------------------------------
(* The state of one scan. *)

\* A fresh scan, and what becomes of it at its start.
LEMMA FreshScan ==
  /\ NoScan \in ScanState
  /\ NoScan.at = "idle" /\ NoScan.late = 0 /\ NoScan.capture = 1
BY DaemonAssumption DEF NoScan, ScanState, ScanSteps

\* A scan that has been started, for the present lock or not.
LEMMA StartedScan ==
  ASSUME NEW b \in BOOLEAN
  PROVE  LET r == [NoScan EXCEPT !.at = "list", !.own = b]
         IN  /\ r \in ScanState /\ LateInv(r) /\ r.own = b
             /\ r.at = "list" /\ ~r.cancelled
<1> DEFINE r == [NoScan EXCEPT !.at = "list", !.own = b]
<1>1. /\ r.at = "list" /\ r.cancelled = FALSE /\ r.late = 0 /\ r.capture = 1
      /\ r.own = b
  BY DEF NoScan
<1>2. r \in ScanState
  BY FreshScan DEF ScanState, ScanSteps
<1> HIDE DEF r
<1>3. LateInv(r)
  BY <1>1, DaemonAssumption DEF LateInv
<1>4. /\ r \in ScanState /\ LateInv(r) /\ r.own = b
      /\ r.at = "list" /\ ~r.cancelled
  BY <1>1, <1>2, <1>3
<1>5. QED
  BY <1>4 DEF r

\* A scan whose state changes to r.
LEMMA Changed ==
  ASSUME TypeOK, NEW s \in Scans, NEW r \in ScanState, scan' = [scan EXCEPT ![s] = r]
  PROVE  /\ scan' \in [Scans -> ScanState] /\ scan'[s] = r
         /\ \A t \in Scans : t # s => scan'[t] = scan[t]
BY DEF TypeOK

\* Of a scan that is not running nothing is late.
LEMMA IdleNotLate == LateInv(NoScan)
BY DaemonAssumption DEF LateInv, NoScan

\* Cancelling changes no more than the flag.
LEMMA Cancelled ==
  ASSUME DaemonInv, NEW t \in Scans \cup {None}
  PROVE  /\ Cancel(t) \in [Scans -> ScanState]
         /\ \A s \in Scans : /\ Cancel(t)[s].at = scan[s].at
                             /\ Cancel(t)[s].own = scan[s].own
                             /\ s # t => Cancel(t)[s] = scan[s]
                             /\ LateInv(Cancel(t)[s])
         /\ t # None /\ Active(t) => Cancel(t)[t].cancelled
<1>1. scan \in [Scans -> ScanState] /\ \A s \in Scans : LateInv(scan[s])
  BY DEF DaemonInv, TypeOK
<1>2. CASE t = None \/ ~Active(t)
  BY <1>1, <1>2 DEF Cancel
<1>3. CASE t # None /\ Active(t)
  <2>1. t \in Scans /\ scan[t] \in ScanState
    BY <1>1, <1>3
  <2>2. Cancel(t) = [scan EXCEPT ![t] = [scan[t] EXCEPT !.cancelled = TRUE]]
    BY <1>3 DEF Cancel
  <2> DEFINE r == [scan[t] EXCEPT !.cancelled = TRUE]
  <2>3. /\ r.at = scan[t].at /\ r.cancelled = TRUE /\ r.capture = scan[t].capture
        /\ r.own = scan[t].own /\ r.late = scan[t].late
    BY <2>1 DEF ScanState
  <2>4. r \in ScanState
    BY <2>1 DEF ScanState
  <2>5. LateInv(r)
    BY <1>1, <2>1, <2>3 DEF LateInv
  <2>6. Cancel(t)[t] = [scan[t] EXCEPT !.cancelled = TRUE]
        /\ \A s \in Scans : s # t => Cancel(t)[s] = scan[s]
    BY <1>1, <2>1, <2>2
  <2>7. Cancel(t) \in [Scans -> ScanState]
    BY <1>1, <2>1, <2>2, <2>4
  <2>8. /\ Cancel(t)[t].at = scan[t].at /\ Cancel(t)[t].own = scan[t].own
        /\ Cancel(t)[t].cancelled
    BY <2>3, <2>6
  <2>9. QED
    BY <1>1, <2>1, <2>5, <2>6, <2>7, <2>8
<1>4. QED
  BY <1>2, <1>3

\* The numbers of threads and of running scans.
LEMMA Counts ==
  Cardinality(Scans) \in Nat /\ Cardinality(Running) \in Nat
<1>1. IsFiniteSet(Scans) /\ IsFiniteSet(Running)
  BY DaemonAssumption, FS_Subset DEF Running
<1>2. QED
  BY <1>1, FS_CardinalityType

-----------------------------------------------------------------------------
(* Steps of a scan. *)

\* A scan goes on, in state r.
LEMMA GoesOn ==
  ASSUME DaemonInv, NEW s \in Scans, Active(s), NEW r \in ScanState,
         scan' = [scan EXCEPT ![s] = r], r.at # "idle",
         r.cancelled = scan[s].cancelled, r.own = scan[s].own, LateInv(r),
         UNCHANGED <<locked, daemonVars, locks, unlocks>>,
         holder' \in [Cameras -> Scans \cup {None}]
  PROVE  DaemonInv'
<1>1. /\ scan' \in [Scans -> ScanState] /\ scan'[s] = r
      /\ \A t \in Scans : t # s => scan'[t] = scan[t]
  BY Changed DEF DaemonInv
<1>2. UNCHANGED <<locked, daemon, config, tracked, locks, unlocks>>
  BY DEF daemonVars
<1>3. TypeOK'
  BY <1>1, <1>2 DEF DaemonInv, TypeOK
<1>4. \A t \in Scans : /\ Active(t)' <=> Active(t)
                       /\ Live(t)' <=> Live(t)
                       /\ scan'[t].own = scan[t].own
  BY <1>1 DEF Live, Active, At
<1>5. LoopInv'
  BY <1>2, <1>4 DEF DaemonInv, LoopInv
<1>6. \A t \in Scans : LateInv(scan[t])'
  BY <1>1, <1>2 DEF DaemonInv, LateInv
<1>7. QED
  BY <1>3, <1>5, <1>6 DEF DaemonInv

\* A scan returns, having unlocked the session or not.
LEMMA Returns ==
  ASSUME DaemonInv, NEW s \in Scans, Active(s), Return(s), UNCHANGED <<daemonVars, locks>>,
         \/ UNCHANGED <<locked, unlocks>>
         \/ locked' = FALSE /\ unlocks' = Queued(unlocks)
  PROVE  DaemonInv'
<1>1. /\ scan' \in [Scans -> ScanState] /\ scan'[s] = NoScan
      /\ \A t \in Scans : t # s => scan'[t] = scan[t]
  BY FreshScan, Changed DEF DaemonInv, Return
<1>2. UNCHANGED <<daemon, config, tracked, locks>>
  BY DEF daemonVars
<1>3. holder' \in [Cameras -> Scans \cup {None}]
  BY DEF Return, DaemonInv, TypeOK
<1>4. /\ unlocks' \in 0 .. MaxSignals /\ locked' \in BOOLEAN
      /\ daemon # "running" => unlocks' = unlocks
      /\ daemon = "running" /\ unlocks' = 0 => unlocks = 0 /\ locked' = locked
  <2>1. unlocks \in 0 .. MaxSignals /\ locked \in BOOLEAN /\ MaxSignals \in Nat \ {0}
    BY DaemonAssumption DEF DaemonInv, TypeOK
  <2>2. CASE UNCHANGED <<locked, unlocks>>
    BY <2>1, <2>2
  <2>3. CASE locked' = FALSE /\ unlocks' = Queued(unlocks)
    <3>1. /\ unlocks' \in 0 .. MaxSignals
          /\ daemon # "running" => unlocks' = unlocks
          /\ daemon = "running" => unlocks' # 0
      BY <2>1, <2>3 DEF Queued
    <3>2. QED
      BY <2>3, <3>1
  <2>4. QED
    BY <2>2, <2>3
<1>5. TypeOK'
  BY <1>1, <1>2, <1>3, <1>4 DEF DaemonInv, TypeOK
<1>6. ~Active(s)' /\ ~Live(s)'
  BY <1>1, FreshScan DEF Active, At, Live
<1>7. \A t \in Scans : /\ Active(t)' => Active(t)
                       /\ Live(t)' => Live(t) /\ scan'[t].own = scan[t].own
  BY <1>1, <1>6 DEF Active, At, Live
<1>8. LoopInv'
  BY <1>2, <1>4, <1>7 DEF DaemonInv, LoopInv
<1>9. \A t \in Scans : LateInv(scan[t])'
  BY <1>1, <1>2, IdleNotLate DEF DaemonInv, LateInv
<1>10. QED
  BY <1>5, <1>8, <1>9 DEF DaemonInv

\* A scan goes to another step that bounds its late requests no more tightly.
LEMMA GoesTo ==
  ASSUME DaemonInv, NEW s \in Scans, Active(s), NEW step \in ScanSteps \ {"idle"},
         GoTo(s, step), UNCHANGED <<locked, daemonVars, locks, unlocks>>,
         holder' \in [Cameras -> Scans \cup {None}],
         \/ step \in {"attempt", "unlock"}
         \/ scan[s].late = 0 /\ step \notin {"sent"}
  PROVE  DaemonInv'
<1> DEFINE r == [scan[s] EXCEPT !.at = step]
<1>1. scan \in [Scans -> ScanState] /\ scan[s] \in ScanState /\ LateInv(scan[s])
  BY DEF DaemonInv, TypeOK
<1>2. r = [at |-> step, cancelled |-> scan[s].cancelled, attempt |-> scan[s].attempt,
           capture |-> scan[s].capture, wins |-> scan[s].wins, own |-> scan[s].own,
           late |-> scan[s].late]
  BY <1>1 DEF ScanState
<1>3. r \in ScanState
  BY <1>1, <1>2 DEF ScanState
<1>4. scan' = [scan EXCEPT ![s] = r]
  BY <1>1 DEF GoTo
<1>5. r.at # "idle" /\ r.cancelled = scan[s].cancelled /\ r.own = scan[s].own
  BY <1>2
<1>6. scan[s].late \in Nat /\ scan[s].capture \in 1 .. Retries
  BY <1>1 DEF ScanState
<1>7. LateInv(r)
  BY <1>1, <1>2, <1>6, DaemonAssumption DEF LateInv
<1> HIDE DEF r
<1>8. QED
  BY <1>3, <1>4, <1>5, <1>7, GoesOn

\* What is known of a running scan.
LEMMA Known ==
  ASSUME DaemonInv, NEW s \in Scans
  PROVE  /\ scan \in [Scans -> ScanState] /\ scan[s] \in ScanState /\ LateInv(scan[s])
         /\ scan[s].late \in Nat /\ scan[s].capture \in 1 .. Retries
         /\ scan[s].attempt \in Nat /\ scan[s].wins \in Nat
         /\ Retries \in Nat \ {0} /\ config \in Config
         /\ holder \in [Cameras -> Scans \cup {None}]
<1>1. scan \in [Scans -> ScanState] /\ LateInv(scan[s]) /\ config \in Configs
  BY DEF DaemonInv, TypeOK
<1>2. scan[s] \in ScanState
  BY <1>1
<1>3. holder \in [Cameras -> Scans \cup {None}]
  BY DEF DaemonInv, TypeOK
<1>4. QED
  BY <1>1, <1>2, <1>3, DaemonAssumption DEF ScanState

\* The next attempt, with w matches so far.
LEMMA Attempts ==
  ASSUME DaemonInv, NEW s \in Scans, Active(s), NEW w \in Nat,
         scan' = [scan EXCEPT ![s].at = "attempt", ![s].attempt = scan[s].attempt + 1,
                              ![s].capture = 1, ![s].wins = w],
         UNCHANGED <<locked, daemonVars, locks, unlocks, holder>>
  PROVE  DaemonInv'
<1> DEFINE r == [scan[s] EXCEPT !.at = "attempt", !.attempt = scan[s].attempt + 1,
                                !.capture = 1, !.wins = w]
<1>1. /\ scan \in [Scans -> ScanState] /\ scan[s] \in ScanState /\ LateInv(scan[s])
      /\ scan[s].attempt \in Nat /\ Retries \in Nat \ {0} /\ scan[s].late \in Nat
      /\ holder \in [Cameras -> Scans \cup {None}]
  BY Known
<1>2. /\ r.at = "attempt" /\ r.cancelled = scan[s].cancelled /\ r.own = scan[s].own
      /\ r.late = scan[s].late /\ r.capture = 1
  BY <1>1 DEF ScanState
<1>3. r \in ScanState
  BY <1>1 DEF ScanState, ScanSteps
<1>4. scan' = [scan EXCEPT ![s] = r]
  BY <1>1
<1>5. LateInv(r)
  BY <1>1, <1>2 DEF LateInv
<1>6. holder' \in [Cameras -> Scans \cup {None}] /\ r.at # "idle"
  BY <1>1, <1>2
<1>7. UNCHANGED <<locked, daemonVars, locks, unlocks>>
  OBVIOUS
<1> HIDE DEF r
<1>8. QED
  BY <1>2, <1>3, <1>4, <1>5, <1>6, <1>7, GoesOn

\* Capturing may be late, once for each capture of the attempt.
LEMMA CaptureStep ==
  ASSUME DaemonInv, NEW s \in Scans, Capture(s)
  PROVE  DaemonInv'
<1> DEFINE n == IF scan[s].cancelled THEN scan[s].late + 1 ELSE scan[s].late
           r == [scan[s] EXCEPT !.at = "sent", !.late = n]
<1>1. /\ scan \in [Scans -> ScanState] /\ scan[s] \in ScanState /\ LateInv(scan[s])
      /\ Retries \in Nat \ {0} /\ scan[s].late \in Nat /\ scan[s].capture \in 1 .. Retries
      /\ holder \in [Cameras -> Scans \cup {None}] /\ scan[s].at = "capture" /\ Active(s)
  BY Known DEF Capture, At, Active
<1>2. n \in Nat
  BY <1>1
<1>3. /\ r.at = "sent" /\ r.cancelled = scan[s].cancelled /\ r.own = scan[s].own
      /\ r.late = n /\ r.capture = scan[s].capture
  BY <1>1 DEF ScanState
<1>4. r \in ScanState
  BY <1>1, <1>2 DEF ScanState, ScanSteps
<1>5. scan' = [scan EXCEPT ![s] = r]
  BY <1>1 DEF Capture
<1>6. LateInv(r)
  <2>1. /\ scan[s].late < scan[s].capture
        /\ ~config.crossCheck => scan[s].capture = 1
        /\ ~scan[s].cancelled => scan[s].late = 0
    BY <1>1 DEF LateInv
  <2>2. n <= scan[s].capture /\ (~scan[s].cancelled => n = 0)
    BY <1>1, <2>1
  <2> HIDE DEF n, r
  <2>3. QED
    BY <1>1, <1>2, <1>3, <2>1, <2>2 DEF LateInv
<1>7. holder' \in [Cameras -> Scans \cup {None}] /\ r.at # "idle"
      /\ UNCHANGED <<locked, daemonVars, locks, unlocks>>
  BY <1>1, <1>3 DEF Capture
<1> HIDE DEF r
<1>8. QED
  BY <1>1, <1>3, <1>4, <1>5, <1>6, <1>7, GoesOn

\* Another capture of the attempt.
LEMMA RecaptureStep ==
  ASSUME DaemonInv, NEW s \in Scans, At(s, "sent"), Recaptures(s),
         scan' = [scan EXCEPT ![s].at = "capture", ![s].capture = scan[s].capture + 1],
         UNCHANGED <<locked, daemonVars, locks, unlocks, holder>>
  PROVE  DaemonInv'
<1> DEFINE r == [scan[s] EXCEPT !.at = "capture", !.capture = scan[s].capture + 1]
<1>1. /\ scan \in [Scans -> ScanState] /\ scan[s] \in ScanState /\ LateInv(scan[s])
      /\ Retries \in Nat \ {0} /\ scan[s].late \in Nat /\ scan[s].capture \in 1 .. Retries
      /\ holder \in [Cameras -> Scans \cup {None}] /\ scan[s].at = "sent" /\ Active(s)
      /\ config.crossCheck /\ scan[s].capture < Retries
  BY Known DEF At, Active, Recaptures
<1>2. scan[s].capture + 1 \in 1 .. Retries
  BY <1>1
<1>3. /\ r.at = "capture" /\ r.cancelled = scan[s].cancelled /\ r.own = scan[s].own
      /\ r.late = scan[s].late /\ r.capture = scan[s].capture + 1
  BY <1>1 DEF ScanState
<1>4. r \in ScanState
  BY <1>1, <1>2 DEF ScanState, ScanSteps
<1>5. scan' = [scan EXCEPT ![s] = r]
  BY <1>1
<1>6. LateInv(r)
  <2>1. /\ scan[s].late <= scan[s].capture /\ (~scan[s].cancelled => scan[s].late = 0)
        /\ scan[s].late <= Retries
    BY <1>1 DEF LateInv
  <2> HIDE DEF r
  <2>2. QED
    BY <1>1, <1>3, <2>1 DEF LateInv
<1>7. holder' \in [Cameras -> Scans \cup {None}] /\ r.at # "idle"
      /\ UNCHANGED <<locked, daemonVars, locks, unlocks>>
  BY <1>1, <1>3
<1> HIDE DEF r
<1>8. QED
  BY <1>1, <1>3, <1>4, <1>5, <1>6, <1>7, GoesOn

\* Whatever the broker answers.
LEMMA AnswerStep ==
  ASSUME DaemonInv, NEW s \in Scans, NEW a \in Answers, Answer(s, a)
  PROVE  DaemonInv'
<1>1. /\ At(s, "sent") /\ Active(s) /\ UNCHANGED <<locked, daemonVars, locks, unlocks>>
      /\ scan \in [Scans -> ScanState] /\ scan[s] \in ScanState
      /\ scan[s].wins \in Nat /\ holder \in [Cameras -> Scans \cup {None}]
  BY Known DEF Answer, At, Active
<1>2. UNCHANGED <<daemonVars, locks>> /\ UNCHANGED <<locked, unlocks>>
  BY <1>1
<1>3. ASSUME Return(s)
      PROVE  DaemonInv'
  BY <1>1, <1>2, <1>3, Returns
<1>4. ASSUME NextAttempt(s)
      PROVE  DaemonInv'
  <2>1. CASE scan[s].attempt < config.attempts
    <3>1. /\ scan' = [scan EXCEPT ![s].at = "attempt", ![s].attempt = scan[s].attempt + 1,
                                  ![s].capture = 1]
          /\ UNCHANGED holder
      BY <1>4, <2>1 DEF NextAttempt
    <3>2. scan' = [scan EXCEPT ![s].at = "attempt", ![s].attempt = scan[s].attempt + 1,
                               ![s].capture = 1, ![s].wins = scan[s].wins]
      BY <1>1, <3>1 DEF ScanState
    <3>3. QED
      BY <1>1, <3>1, <3>2, Attempts
  <2>2. CASE ~(scan[s].attempt < config.attempts)
    BY <1>3, <1>4, <2>2 DEF NextAttempt
  <2>3. QED
    BY <2>1, <2>2
<1>5. CASE a = "matched"
  <2>1. Matched(s)
    BY <1>5 DEF Answer
  <2>2. CASE scan[s].wins + 1 >= AtLeastOne(config.required)
    <3>1. GoTo(s, "unlock") /\ UNCHANGED holder
      BY <2>1, <2>2 DEF Matched
    <3>2. "unlock" \in ScanSteps \ {"idle"}
      BY DEF ScanSteps
    <3>3. QED
      BY <1>1, <3>1, <3>2, GoesTo
  <2>3. CASE ~(scan[s].wins + 1 >= AtLeastOne(config.required))
    <3>1. CASE scan[s].attempt < config.attempts
      <4>1. /\ scan' = [scan EXCEPT ![s].at = "attempt", ![s].attempt = scan[s].attempt + 1,
                                    ![s].capture = 1, ![s].wins = scan[s].wins + 1]
            /\ UNCHANGED holder
        BY <2>1, <2>3, <3>1 DEF Matched
      <4>2. scan[s].wins + 1 \in Nat
        BY <1>1
      <4>3. QED
        BY <1>1, <4>1, <4>2, Attempts
    <3>2. CASE ~(scan[s].attempt < config.attempts)
      BY <1>3, <2>1, <2>3, <3>2 DEF Matched
    <3>3. QED
      BY <3>1, <3>2
  <2>4. QED
    BY <2>2, <2>3
<1>6. CASE a = "mismatch"
  BY <1>4, <1>6 DEF Answer
<1>7. CASE a = "retryable" /\ Recaptures(s)
  <2>1. /\ scan' = [scan EXCEPT ![s].at = "capture", ![s].capture = scan[s].capture + 1]
        /\ UNCHANGED holder
    BY <1>7 DEF Answer
  <2>2. QED
    BY <1>1, <1>7, <2>1, RecaptureStep
<1>8. CASE a = "retryable" /\ ~Recaptures(s)
  BY <1>4, <1>8 DEF Answer
<1>9. CASE a = "error"
  BY <1>3, <1>9 DEF Answer
<1>10. QED
  BY <1>5, <1>6, <1>7, <1>8, <1>9 DEF Answers

\* Every step of a scan keeps the invariant.
LEMMA StepOfScan ==
  ASSUME DaemonInv, NEW s \in Scans, ScanStep(s)
  PROVE  DaemonInv'
<1>1. /\ LateInv(scan[s]) /\ holder \in [Cameras -> Scans \cup {None}]
  BY Known
<1>2. {"listed", "rgb", "ir", "attempt", "capture"} \subseteq ScanSteps \ {"idle"}
  BY DEF ScanSteps
<1>3. ASSUME ListTemplates(s) PROVE DaemonInv'
  <2>1. /\ Active(s) /\ GoTo(s, "listed") /\ scan[s].late = 0
        /\ UNCHANGED <<locked, daemonVars, locks, unlocks>> /\ UNCHANGED holder
    BY <1>1, <1>3 DEF ListTemplates, Active, At, LateInv
  <2>2. QED
    BY <1>1, <1>2, <2>1, GoesTo
<1>4. ASSUME NothingListed(s) \/ CameraFails(s) \/ UnlockFails(s) PROVE DaemonInv'
  <2>1. /\ Active(s) /\ Return(s)
        /\ UNCHANGED <<daemonVars, locks>> /\ UNCHANGED <<locked, unlocks>>
    BY <1>4 DEF NothingListed, CameraFails, UnlockFails, Active, At
  <2>2. QED
    BY <2>1, Returns
<1>5. ASSUME UnlockSession(s) PROVE DaemonInv'
  <2>1. /\ Active(s) /\ Return(s) /\ UNCHANGED <<daemonVars, locks>>
        /\ locked' = FALSE /\ unlocks' = Queued(unlocks)
    BY <1>5 DEF UnlockSession, Active, At
  <2>2. QED
    BY <2>1, Returns
<1>6. ASSUME CheckCancel(s) PROVE DaemonInv'
  <2>1. /\ Active(s) /\ UNCHANGED <<daemonVars, locks>> /\ UNCHANGED <<locked, unlocks>>
        /\ UNCHANGED <<locked, daemonVars, locks, unlocks>>
    BY <1>6 DEF CheckCancel, Active, At
  <2>2. CASE scan[s].cancelled
    <3>1. Return(s)
      BY <1>6, <2>2 DEF CheckCancel
    <3>2. QED
      BY <2>1, <3>1, Returns
  <2>3. CASE ~scan[s].cancelled
    <3> DEFINE step == IF At(s, "listed") THEN "rgb" ELSE "capture"
    <3>1. GoTo(s, step) /\ UNCHANGED holder
      BY <1>6, <2>3 DEF CheckCancel
    <3>2. scan[s].late = 0 /\ step \in {"rgb", "capture"}
      BY <1>1, <2>3 DEF LateInv
    <3> HIDE DEF step
    <3>3. QED
      BY <1>1, <1>2, <2>1, <3>1, <3>2, GoesTo
  <2>4. QED
    BY <2>2, <2>3
<1>7. ASSUME NEW c \in Cameras, OpenCamera(s, c) PROVE DaemonInv'
  <2> DEFINE step == IF c = "rgb" /\ config.crossCheck THEN "ir" ELSE "attempt"
  <2>1. /\ Active(s) /\ GoTo(s, step) /\ scan[s].late = 0
        /\ UNCHANGED <<locked, daemonVars, locks, unlocks>>
    BY <1>1, <1>7 DEF OpenCamera, Active, At, LateInv, Cameras
  <2>2. holder' \in [Cameras -> Scans \cup {None}] /\ step \in {"ir", "attempt"}
    BY <1>1, <1>7 DEF OpenCamera
  <2> HIDE DEF step
  <2>3. QED
    BY <1>2, <2>1, <2>2, GoesTo
<1>8. QED
  BY <1>3, <1>4, <1>5, <1>6, <1>7, CaptureStep, AnswerStep DEF ScanStep

-----------------------------------------------------------------------------
(* The session and the event loop. *)

\* A Lock makes the session locked, and no scan is for it yet.
LEMMA LockStep ==
  ASSUME DaemonInv, Lock
  PROVE  DaemonInv'
<1>1. /\ TypeOK /\ LoopInv /\ scan \in [Scans -> ScanState] /\ locks \in Nat
      /\ locked' = TRUE /\ locks' = (IF daemon = "running" THEN locks + 1 ELSE locks)
      /\ UNCHANGED <<daemon, config, tracked, unlocks, holder>>
  BY DEF DaemonInv, TypeOK, Lock, daemonVars
<1>2. locks' \in 0 .. Cardinality(Scans)
  BY <1>1, Counts DEF Lock, TypeOK
<1>3. \A s \in Scans : /\ scan'[s] = [scan[s] EXCEPT !.own = FALSE]
                       /\ scan[s] \in ScanState
  BY <1>1 DEF Lock
<1>4. \A s \in Scans : /\ scan'[s] \in ScanState
                       /\ scan'[s].at = scan[s].at /\ scan'[s].cancelled = scan[s].cancelled
                       /\ scan'[s].late = scan[s].late /\ scan'[s].capture = scan[s].capture
  BY <1>3 DEF ScanState
<1>5. scan' \in [Scans -> ScanState]
  BY <1>4 DEF Lock
<1>6. TypeOK'
  BY <1>1, <1>2, <1>5 DEF TypeOK
<1>7. \A s \in Scans : (Active(s)' <=> Active(s)) /\ (Live(s)' <=> Live(s))
  BY <1>4 DEF Active, At, Live
<1>8. daemon = "running" => locks' # 0
  BY <1>1
<1>9. LoopInv'
  BY <1>1, <1>7, <1>8 DEF LoopInv
<1>10. \A s \in Scans : LateInv(scan[s])'
  BY <1>1, <1>4 DEF DaemonInv, LateInv
<1>11. QED
  BY <1>6, <1>9, <1>10 DEF DaemonInv

\* After an Unlock, one waits.
LEMMA UnlockStep ==
  ASSUME DaemonInv, Unlock
  PROVE  DaemonInv'
<1>1. /\ TypeOK /\ LoopInv /\ unlocks \in 0 .. MaxSignals /\ MaxSignals \in Nat \ {0}
      /\ locked' = FALSE /\ unlocks' = Queued(unlocks)
      /\ UNCHANGED <<daemon, config, tracked, locks, scan, holder>>
  BY DaemonAssumption DEF DaemonInv, TypeOK, Unlock, daemonVars
<1>2. /\ unlocks' \in 0 .. MaxSignals
      /\ daemon # "running" => unlocks' = unlocks
      /\ daemon = "running" => unlocks' # 0
  BY <1>1 DEF Queued
<1>3. TypeOK'
  BY <1>1, <1>2 DEF TypeOK
<1>4. \A s \in Scans : (Active(s)' <=> Active(s)) /\ (Live(s)' <=> Live(s))
  BY <1>1 DEF Active, At, Live
<1>5. LoopInv'
  BY <1>1, <1>2, <1>4 DEF LoopInv
<1>6. \A s \in Scans : LateInv(scan[s])'
  BY <1>1 DEF DaemonInv, LateInv
<1>7. QED
  BY <1>3, <1>5, <1>6 DEF DaemonInv

\* A daemon starts with no scan.
LEMMA StartStep ==
  ASSUME DaemonInv, NEW c \in Configs, Start(c)
  PROVE  DaemonInv'
<1>1. /\ TypeOK /\ LoopInv /\ daemon = "down" /\ daemon' = "running" /\ config' = c
      /\ UNCHANGED <<locked, locks, unlocks, tracked, scan, holder>>
  BY DEF DaemonInv, Start
<1>2. TypeOK'
  BY <1>1 DEF TypeOK
<1>3. locks = 0 /\ \A s \in Scans : ~Live(s)'
  BY <1>1 DEF LoopInv, Live, Active, At
<1>4. LoopInv'
  BY <1>1, <1>3 DEF LoopInv
<1>5. \A s \in Scans : LateInv(scan[s])'
  <2> SUFFICES ASSUME NEW s \in Scans PROVE LateInv(scan[s])'
    OBVIOUS
  <2>1. scan'[s] = scan[s] /\ LateInv(scan[s]) /\ scan[s].at = "idle" /\ Retries \in Nat \ {0}
    BY <1>1, Known DEF DaemonInv, LoopInv, Active, At
  <2>2. scan[s].capture = 1
    BY <2>1 DEF LateInv
  <2>3. QED
    BY <2>1, <2>2 DEF LateInv
<1>6. QED
  BY <1>2, <1>4, <1>5 DEF DaemonInv

\* A Lock is taken: the scan that was live is cancelled, and the new one tracked.
LEMMA TakeLockStep ==
  ASSUME DaemonInv, NEW s \in Scans, TakeLock(s)
  PROVE  DaemonInv'
<1> DEFINE r == [NoScan EXCEPT !.at = "list", !.own = locks = 1]
<1>1. /\ TypeOK /\ LoopInv /\ daemon = "running" /\ ~Active(s) /\ locks > 0
      /\ locks \in 0 .. Cardinality(Scans) /\ tracked \in Scans \cup {None}
      /\ scan' = [Cancel(tracked) EXCEPT ![s] = r]
      /\ tracked' = s /\ locks' = locks - 1
      /\ UNCHANGED <<locked, daemon, config, unlocks, holder>>
  BY DEF DaemonInv, TypeOK, TakeLock, CancelStale
<1>2. /\ Cancel(tracked) \in [Scans -> ScanState]
      /\ \A t \in Scans : /\ Cancel(tracked)[t].at = scan[t].at
                          /\ t # tracked => Cancel(tracked)[t] = scan[t]
                          /\ LateInv(Cancel(tracked)[t])
      /\ tracked # None /\ Active(tracked) => Cancel(tracked)[tracked].cancelled
  BY <1>1, Cancelled
<1>3. /\ r \in ScanState /\ LateInv(r) /\ (r.own <=> locks = 1)
      /\ r.at = "list" /\ ~r.cancelled
  <2>1. CASE locks = 1
    <3>1. r = [NoScan EXCEPT !.at = "list", !.own = TRUE]
      BY <2>1
    <3>2. QED
      BY <2>1, <3>1, StartedScan
  <2>2. CASE locks # 1
    <3>1. r = [NoScan EXCEPT !.at = "list", !.own = FALSE]
      BY <2>2
    <3>2. QED
      BY <2>2, <3>1, StartedScan
  <2>3. QED
    BY <2>1, <2>2
<1>4. /\ scan' \in [Scans -> ScanState] /\ scan'[s] = r
      /\ \A t \in Scans : t # s => scan'[t] = Cancel(tracked)[t]
  BY <1>1, <1>2, <1>3
<1>5. locks' \in 0 .. Cardinality(Scans) /\ (locks' = 0 <=> locks = 1)
  BY <1>1, Counts
<1>6. TypeOK'
  BY <1>1, <1>4, <1>5 DEF TypeOK
<1>7. ASSUME NEW t \in Scans, t # s
      PROVE  ~Live(t)'
  <2>1. CASE t = tracked
    <3>1. CASE Active(t)
      <4>1. scan'[t].cancelled
        BY <1>2, <1>4, <1>7, <2>1, <3>1, DaemonAssumption
      <4>2. QED
        BY <4>1 DEF Live
    <3>2. CASE ~Active(t)
      BY <1>2, <1>4, <1>7, <3>2 DEF Live, Active, At
    <3>3. QED
      BY <3>1, <3>2
  <2>2. CASE t # tracked
    <3>1. ~Live(t) /\ scan'[t] = scan[t]
      BY <1>1, <1>2, <1>4, <1>7, <2>2 DEF LoopInv
    <3>2. QED
      BY <3>1 DEF Live, Active, At
  <2>3. QED
    BY <2>1, <2>2
<1>8. unlocks = 0 => locked
  BY <1>1 DEF LoopInv
<1>9. LoopInv'
  BY <1>1, <1>3, <1>4, <1>5, <1>7, <1>8 DEF LoopInv
<1>10. \A t \in Scans : LateInv(scan[t])'
  <2> SUFFICES ASSUME NEW t \in Scans PROVE LateInv(scan[t])'
    OBVIOUS
  <2>1. LateInv(scan'[t])
    BY <1>2, <1>3, <1>4
  <2>2. QED
    BY <1>1, <2>1 DEF LateInv
<1>11. QED
  BY <1>6, <1>9, <1>10 DEF DaemonInv

\* What is left when the tracked scan has been cancelled and no Lock waits.
LEMMA LoopCancels ==
  ASSUME DaemonInv, scan' = Cancel(tracked), tracked' = None, locks' = 0,
         unlocks' \in 0 .. MaxSignals,
         \/ daemon = "running" /\ daemon' = "running"
         \/ daemon = "running" /\ daemon' = "stopping" /\ unlocks' = 0,
         UNCHANGED <<locked, config, holder>>
  PROVE  DaemonInv'
<1>1. /\ TypeOK /\ LoopInv /\ tracked \in Scans \cup {None}
  BY DEF DaemonInv, TypeOK
<1>2. /\ Cancel(tracked) \in [Scans -> ScanState]
      /\ \A t \in Scans : /\ Cancel(tracked)[t].at = scan[t].at
                          /\ t # tracked => Cancel(tracked)[t] = scan[t]
                          /\ LateInv(Cancel(tracked)[t])
      /\ tracked # None /\ Active(tracked) => Cancel(tracked)[tracked].cancelled
  BY <1>1, Cancelled
<1>3. TypeOK'
  BY <1>1, <1>2, Counts DEF TypeOK
<1>4. ASSUME NEW t \in Scans PROVE ~Live(t)'
  <2>1. CASE t = tracked /\ Active(t)
    <3>1. scan'[t].cancelled
      BY <1>2, <2>1, DaemonAssumption
    <3>2. QED
      BY <3>1 DEF Live
  <2>2. CASE ~Active(t)
    BY <1>2, <2>2 DEF Live, Active, At
  <2>3. CASE t # tracked
    <3>1. ~Live(t) /\ scan'[t] = scan[t]
      BY <1>1, <1>2, <2>3 DEF LoopInv
    <3>2. QED
      BY <3>1 DEF Live, Active, At
  <2>4. QED
    BY <2>1, <2>2, <2>3
<1>5. LoopInv'
  BY <1>4 DEF LoopInv
<1>6. \A t \in Scans : LateInv(scan[t])'
  BY <1>2 DEF LateInv
<1>7. QED
  BY <1>3, <1>5, <1>6 DEF DaemonInv

\* An Unlock that is taken cancels the scan.
LEMMA TakeUnlockStep ==
  ASSUME DaemonInv, TakeUnlock
  PROVE  DaemonInv'
<1>1. unlocks \in 0 .. MaxSignals /\ MaxSignals \in Nat
  BY DaemonAssumption DEF DaemonInv, TypeOK
<1>2. unlocks' \in 0 .. MaxSignals
  BY <1>1 DEF TakeUnlock
<1>3. QED
  BY <1>2, LoopCancels DEF TakeUnlock, CancelOnUnlock

\* Leaving the loop cancels the scan and drops the signals.
LEMMA StopStep ==
  ASSUME DaemonInv, Stop
  PROVE  DaemonInv'
<1>1. MaxSignals \in Nat
  BY DaemonAssumption
<1>2. unlocks' \in 0 .. MaxSignals /\ unlocks' = 0 /\ locks' = 0
  BY <1>1 DEF Stop, DropSignals
<1>3. QED
  BY <1>2, LoopCancels DEF Stop

\* The process ends when no scan runs.
LEMMA ExitStep ==
  ASSUME DaemonInv, Exit
  PROVE  DaemonInv'
<1>1. /\ TypeOK /\ LoopInv /\ daemon = "stopping" /\ daemon' = "down" /\ Running = {}
      /\ UNCHANGED <<locked, config, locks, unlocks, tracked, scan, holder>>
  BY DEF DaemonInv, Exit
<1>2. TypeOK'
  BY <1>1 DEF TypeOK
<1>3. \A s \in Scans : ~Active(s) /\ (Active(s)' <=> Active(s))
  BY <1>1 DEF Running, Active, At
<1>4. LoopInv'
  BY <1>1, <1>3 DEF LoopInv
<1>5. \A s \in Scans : LateInv(scan[s])'
  BY <1>1 DEF DaemonInv, LateInv
<1>6. QED
  BY <1>2, <1>4, <1>5 DEF DaemonInv

\* Nothing is left of a process that dies.
LEMMA DieStep ==
  ASSUME DaemonInv, Die
  PROVE  DaemonInv'
<1>1. /\ TypeOK /\ daemon' = "down" /\ tracked' = None /\ locks' = 0 /\ unlocks' = 0
      /\ scan' = [s \in Scans |-> NoScan] /\ holder' = [c \in Cameras |-> None]
      /\ UNCHANGED <<locked, config>>
  BY DEF DaemonInv, Die, DropSignals
<1>2. TypeOK'
  BY <1>1, FreshScan, Counts, DaemonAssumption DEF TypeOK
<1>3. \A s \in Scans : ~Active(s)'
  BY <1>1, FreshScan DEF Active, At
<1>4. LoopInv'
  BY <1>1, <1>3 DEF LoopInv
<1>5. \A s \in Scans : LateInv(scan[s])'
  BY <1>1, IdleNotLate DEF LateInv
<1>6. QED
  BY <1>2, <1>4, <1>5 DEF DaemonInv

-----------------------------------------------------------------------------
(* The inductive invariant. *)

\* The invariant holds at the start.
LEMMA Initially == Init => DaemonInv
<1> SUFFICES ASSUME Init PROVE DaemonInv
  OBVIOUS
<1>1. TypeOK
  <2>1. /\ scan \in [Scans -> ScanState] /\ holder \in [Cameras -> Scans \cup {None}]
        /\ tracked \in Scans \cup {None}
    BY FreshScan DEF Init
  <2>2. locks \in 0 .. Cardinality(Scans) /\ unlocks \in 0 .. MaxSignals
    BY Counts, DaemonAssumption DEF Init
  <2>3. locked \in BOOLEAN /\ daemon \in {"running", "stopping", "down"} /\ config \in Configs
    BY DEF Init
  <2>4. QED
    BY <2>1, <2>2, <2>3 DEF TypeOK
<1>2. \A s \in Scans : ~Active(s) /\ LateInv(scan[s])
  BY FreshScan, IdleNotLate DEF Init, Active, At
<1>3. LoopInv
  BY <1>2 DEF Init, LoopInv
<1>4. QED
  BY <1>1, <1>2, <1>3 DEF DaemonInv

\* A step of nobody keeps it.
LEMMA Stutters ==
  ASSUME DaemonInv, UNCHANGED vars
  PROVE  DaemonInv'
<1>1. UNCHANGED <<locked, daemon, config, locks, unlocks, tracked, scan, holder>>
  BY DEF vars
<1>2. TypeOK'
  BY <1>1 DEF DaemonInv, TypeOK
<1>3. \A s \in Scans : (Active(s)' <=> Active(s)) /\ (Live(s)' <=> Live(s))
  BY <1>1 DEF Active, At, Live
<1>4. LoopInv'
  BY <1>1, <1>3 DEF DaemonInv, LoopInv
<1>5. \A s \in Scans : LateInv(scan[s])'
  BY <1>1 DEF DaemonInv, LateInv
<1>6. QED
  BY <1>2, <1>4, <1>5 DEF DaemonInv

\* Every step keeps it.
LEMMA Steps == DaemonInv /\ [Next]_vars => DaemonInv'
<1> SUFFICES ASSUME DaemonInv, [Next]_vars
             PROVE  DaemonInv'
  OBVIOUS
<1>1. CASE Lock \/ Unlock
  BY <1>1, LockStep, UnlockStep
<1>2. CASE \E c \in Configs : Start(c)
  BY <1>2, StartStep
<1>3. CASE Stop \/ Die
  BY <1>3, StopStep, DieStep
<1>4. CASE LoopStep
  BY <1>4, TakeLockStep, TakeUnlockStep, ExitStep DEF LoopStep
<1>5. CASE \E s \in Scans : ScanStep(s)
  BY <1>5, StepOfScan
<1>6. CASE UNCHANGED vars
  BY <1>6, Stutters
<1>7. QED
  BY <1>1, <1>2, <1>3, <1>4, <1>5, <1>6 DEF Next

\* DaemonInv holds at all times.
THEOREM DaemonInvariant == SafetySpec => []DaemonInv
<1>1. QED
  BY Initially, Steps, PTL DEF SafetySpec

-----------------------------------------------------------------------------
(* The properties; fairness is not needed. *)

\* The queues, the flags and the counters of the scans stay within their types:
\* no scan captures a pair more often than Retries.
THEOREM DaemonTypeCorrect == SafetySpec => []TypeOK
<1>1. DaemonInv => TypeOK
  BY DEF DaemonInv
<1>2. QED
  BY <1>1, DaemonInvariant, PTL

\* However fast locks and unlocks follow each other, a live scan is the one the
\* loop tracks, and once all signals are taken it is for the present lock.
THEOREM LiveScanIsCurrent == SafetySpec => []ScanOfPresentLock
<1>1. ASSUME DaemonInv, daemon = "running", NEW s \in Running, ~scan[s].cancelled
      PROVE  /\ s = tracked
             /\ locks = 0 /\ unlocks = 0 => locked /\ scan[s].own
  <2>1. s \in Scans /\ Live(s)
    BY <1>1 DEF Running, Live
  <2>2. QED
    BY <1>1, <2>1 DEF DaemonInv, LoopInv
<1>2. DaemonInv => ScanOfPresentLock
  BY <1>1 DEF ScanOfPresentLock
<1>3. QED
  BY <1>2, DaemonInvariant, PTL

\* A cancelled scan sends the requests of one attempt at most, whenever it was
\* cancelled and whatever the broker answers.
THEOREM CancelledScansStop == SafetySpec => []CancelledScanStops
<1>1. DaemonInv => CancelledScanStops
  BY DEF DaemonInv, LateInv, CancelledScanStops
<1>2. QED
  BY <1>1, DaemonInvariant, PTL

=============================================================================
