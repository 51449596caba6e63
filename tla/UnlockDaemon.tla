---------------------------- MODULE UnlockDaemon ----------------------------
(***************************************************************************)
(* `facegate watch` (crates/facegate_cli/src/commands/watch.rs): a user    *)
(* service that scans for the user's face when logind says that the        *)
(* session was locked, and unlocks it on a match.                          *)
(*                                                                         *)
(* Two things run concurrently: the event loop, which takes Lock and       *)
(* Unlock signals from two queues (Lock first), and the scans, each on a   *)
(* blocking thread.  The loop starts a scan without waiting for the one it *)
(* cancels; a scan looks at its cancel flag now and then.  The session is  *)
(* locked and unlocked by the user meanwhile, and the daemon is stopped,   *)
(* killed and started again.                                               *)
(*                                                                         *)
(* As in AuthFlow a stalled camera is a camera error, so the time-out      *)
(* branches are never taken.                                               *)
(***************************************************************************)
EXTENDS Naturals, FiniteSets

CONSTANTS
  Scans,       \* blocking threads: scans that may run at the same time
  Configs,     \* configurations the daemon may be started with
  Retries,     \* CROSS_CHECK_CAPTURE_RETRIES
  MaxSignals,  \* bound: further Unlock signals in a queue this long are dropped
  None

Cameras == {"rgb", "ir"}

\* The policy of the session scope, and whether the cross-check is active.
Config == [required : Nat, attempts : Nat, crossCheck : BOOLEAN]

ASSUME DaemonAssumption ==
  /\ Retries \in Nat \ {0}
  /\ MaxSignals \in Nat \ {0}
  /\ Configs \subseteq Config
  /\ IsFiniteSet(Scans)
  /\ None \notin Scans

\* Answers to a match request.
Answers == {"matched", "mismatch", "retryable", "error"}

VARIABLES
  locked,   \* the session is locked
  daemon,   \* "running", "stopping" (out of the event loop) or "down"
  config,   \* its config
  locks,    \* number of Lock signals in the queue of the daemon
  unlocks,  \* number of Unlock signals in the queue of the daemon
  tracked,  \* scan_cancel: the scan whose cancel flag the loop holds, or None
  scan,     \* scan[s]: the scan on thread s
  holder    \* holder[c]: the scan that has camera c open, or None

vars == <<locked, daemon, config, locks, unlocks, tracked, scan, holder>>

\* own, late: history.  No Lock signal was sent since the one the scan is for;
\* requests it sent since it was cancelled.
NoScan == [at |-> "idle", cancelled |-> FALSE, attempt |-> 1, capture |-> 1,
           wins |-> 0, own |-> FALSE, late |-> 0]

At(s, step) == scan[s].at = step
Active(s)   == ~At(s, "idle")
Running     == {s \in Scans : Active(s)}

Init ==
  /\ locked = FALSE
  /\ daemon = "down"
  /\ config \in Configs
  /\ locks = 0
  /\ unlocks = 0
  /\ tracked = None
  /\ scan = [s \in Scans |-> NoScan]
  /\ holder = [c \in Cameras |-> None]

daemonVars == <<daemon, config, tracked>>

-----------------------------------------------------------------------------
(* The session, as logind and the screen locker manage it. *)

Queued(n) == IF daemon = "running" /\ n < MaxSignals THEN n + 1 ELSE n

\* The user, or a timer, locks; a locked session can be told to lock again.
\* Bound: only while there is a thread for the scan.
Lock ==
  /\ locks + Cardinality(Running) < Cardinality(Scans)
  /\ locked' = TRUE
  /\ locks' = IF daemon = "running" THEN locks + 1 ELSE locks
  /\ scan' = [s \in Scans |-> [scan[s] EXCEPT !.own = FALSE]]
  /\ UNCHANGED <<daemonVars, unlocks, holder>>

\* The user types the password.
Unlock ==
  /\ locked
  /\ locked' = FALSE
  /\ unlocks' = Queued(unlocks)
  /\ UNCHANGED <<daemonVars, locks, scan, holder>>

-----------------------------------------------------------------------------
(* The daemon and its event loop. *)

Start(c) ==
  /\ daemon = "down"
  /\ daemon' = "running"
  /\ config' = c
  /\ UNCHANGED <<locked, locks, unlocks, tracked, scan, holder>>

Cancel(s) == IF s = None \/ ~Active(s) THEN scan
             ELSE [scan EXCEPT ![s].cancelled = TRUE]

\* Slip: the scan of an earlier lock goes on.
KeepsStaleScan(s) == scan

\* The cancel flag of the earlier scan, when a new one starts.
CancelStale(s) == Cancel(s)

\* A Lock signal: whatever scan there is is cancelled, a new one started.
TakeLock(s) ==
  /\ daemon = "running"
  /\ locks > 0
  /\ ~Active(s)
  /\ scan' = [CancelStale(tracked) EXCEPT ![s] =
                [NoScan EXCEPT !.at = "list", !.own = locks = 1]]
  /\ tracked' = s
  /\ locks' = locks - 1
  /\ UNCHANGED <<locked, daemon, config, unlocks, holder>>

\* Slip: the scan goes on after an unlock.
UnlockIgnored == scan

\* An Unlock signal, taken when no Lock signal waits.
CancelOnUnlock == Cancel(tracked)

TakeUnlock ==
  /\ daemon = "running"
  /\ locks = 0
  /\ unlocks > 0
  /\ scan' = CancelOnUnlock
  /\ tracked' = None
  /\ unlocks' = unlocks - 1
  /\ UNCHANGED <<locked, daemon, config, locks, holder>>

\* What the queues hold is lost with the loop.
DropSignals == locks' = 0 /\ unlocks' = 0

\* SIGINT, SIGTERM, or the end of a signal stream.
Stop ==
  /\ daemon = "running"
  /\ daemon' = "stopping"
  /\ scan' = Cancel(tracked)
  /\ tracked' = None
  /\ DropSignals
  /\ UNCHANGED <<locked, config, holder>>

\* The runtime waits for the scans before the process ends.
Exit ==
  /\ daemon = "stopping"
  /\ Running = {}
  /\ daemon' = "down"
  /\ UNCHANGED <<locked, config, locks, unlocks, tracked, scan, holder>>

\* The process dies: a crash, or SIGKILL when stopping took too long.
Die ==
  /\ daemon # "down"
  /\ daemon' = "down"
  /\ tracked' = None
  /\ scan' = [s \in Scans |-> NoScan]
  /\ holder' = [c \in Cameras |-> None]
  /\ DropSignals
  /\ UNCHANGED <<locked, config>>

-----------------------------------------------------------------------------
(* A scan: run_recognition. *)

GoTo(s, step) == scan' = [scan EXCEPT ![s].at = step]

\* It returns; its cameras are closed.
Return(s) ==
  /\ scan' = [scan EXCEPT ![s] = NoScan]
  /\ holder' = [c \in Cameras |-> IF holder[c] = s THEN None ELSE holder[c]]

\* The broker lists a template for the session scope.
ListTemplates(s) ==
  /\ At(s, "list")
  /\ GoTo(s, "listed")
  /\ UNCHANGED <<locked, daemonVars, locks, unlocks, holder>>

\* It lists none, or fails.
NothingListed(s) ==
  /\ At(s, "list")
  /\ Return(s)
  /\ UNCHANGED <<locked, daemonVars, locks, unlocks>>

\* The cancel flag is read before the cameras are opened and before each attempt.
CheckCancel(s) ==
  /\ At(s, "listed") \/ At(s, "attempt")
  /\ IF scan[s].cancelled THEN Return(s)
     ELSE /\ GoTo(s, IF At(s, "listed") THEN "rgb" ELSE "capture")
          /\ UNCHANGED holder
  /\ UNCHANGED <<locked, daemonVars, locks, unlocks>>

OpenCamera(s, c) ==
  /\ At(s, c)
  /\ holder[c] = None
  /\ holder' = [holder EXCEPT ![c] = s]
  /\ GoTo(s, IF c = "rgb" /\ config.crossCheck THEN "ir" ELSE "attempt")
  /\ UNCHANGED <<locked, daemonVars, locks, unlocks>>

\* Opening or capturing fails; opening fails while another scan, or another
\* program, has the camera.
CameraFails(s) ==
  /\ At(s, "rgb") \/ At(s, "ir") \/ At(s, "capture")
  /\ Return(s)
  /\ UNCHANGED <<locked, daemonVars, locks, unlocks>>

\* A frame, or a pair, is captured and sent to the broker.
Capture(s) ==
  /\ At(s, "capture")
  /\ scan' = [scan EXCEPT ![s].at = "sent",
                          ![s].late = IF scan[s].cancelled THEN @ + 1 ELSE @]
  /\ UNCHANGED <<locked, daemonVars, locks, unlocks, holder>>

\* Slip: the flag is not read between attempts.
StraightToCapture(s) ==
  /\ scan' = [scan EXCEPT ![s].at = "capture", ![s].attempt = @ + 1, ![s].capture = 1]
  /\ UNCHANGED holder

\* Slip: the attempt is not counted.
SameAttempt(s) == GoTo(s, "attempt") /\ UNCHANGED holder

\* The next attempt, if there is one.
NextAttempt(s) ==
  IF scan[s].attempt < config.attempts
  THEN /\ scan' = [scan EXCEPT ![s].at = "attempt", ![s].attempt = @ + 1, ![s].capture = 1]
       /\ UNCHANGED holder
  ELSE Return(s)

AtLeastOne(n) == IF n = 0 THEN 1 ELSE n

Matched(s) ==
  IF scan[s].wins + 1 >= AtLeastOne(config.required)
  THEN /\ GoTo(s, "unlock")
       /\ UNCHANGED holder
  ELSE IF scan[s].attempt < config.attempts
  THEN /\ scan' = [scan EXCEPT ![s].at = "attempt", ![s].attempt = @ + 1,
                               ![s].capture = 1, ![s].wins = @ + 1]
       /\ UNCHANGED holder
  ELSE Return(s)

\* Slip: captures of an attempt are not counted.
AlwaysRecaptures(s) == config.crossCheck

Recaptures(s) == config.crossCheck /\ scan[s].capture < Retries

Answer(s, a) ==
  /\ At(s, "sent")
  /\ a = "retryable" => config.crossCheck
  /\ CASE a = "matched"  -> Matched(s)
       [] a = "mismatch" -> NextAttempt(s)
       [] a = "retryable" /\ Recaptures(s) ->
            /\ scan' = [scan EXCEPT ![s].at = "capture", ![s].capture = @ + 1]
            /\ UNCHANGED holder
       [] a = "retryable" /\ ~Recaptures(s) -> NextAttempt(s)
       [] a = "error"    -> Return(s)
  /\ UNCHANGED <<locked, daemonVars, locks, unlocks>>

\* session.unlock(): logind unlocks and sends the Unlock signal to everybody.
UnlockSession(s) ==
  /\ At(s, "unlock")
  /\ locked' = FALSE
  /\ unlocks' = Queued(unlocks)
  /\ Return(s)
  /\ UNCHANGED <<daemonVars, locks>>

UnlockFails(s) ==
  /\ At(s, "unlock")
  /\ Return(s)
  /\ UNCHANGED <<locked, daemonVars, locks, unlocks>>

-----------------------------------------------------------------------------

LoopStep == (\E s \in Scans : TakeLock(s)) \/ TakeUnlock \/ Exit

ScanStep(s) ==
  \/ ListTemplates(s) \/ NothingListed(s) \/ CheckCancel(s)
  \/ \E c \in Cameras : OpenCamera(s, c)
  \/ CameraFails(s) \/ Capture(s)
  \/ \E a \in Answers : Answer(s, a)
  \/ UnlockSession(s) \/ UnlockFails(s)

Next ==
  \/ Lock \/ Unlock
  \/ \E c \in Configs : Start(c)
  \/ Stop \/ Die
  \/ LoopStep
  \/ \E s \in Scans : ScanStep(s)

SafetySpec == Init /\ [][Next]_vars

\* The threads are scheduled, cameras yield a frame or an error within their
\* time-out, and the broker answers: it gives every request a thread and never
\* waits for another request.  Nothing is asked of the user or of systemd.
Spec == SafetySpec /\ WF_vars(LoopStep) /\ \A s \in Scans : WF_vars(ScanStep(s))

-----------------------------------------------------------------------------
(* Properties. *)

ScanSteps == {"idle", "list", "listed", "rgb", "ir", "attempt", "capture", "sent", "unlock"}

ScanState == [at : ScanSteps, cancelled : BOOLEAN, attempt : Nat, capture : 1 .. Retries,
              wins : Nat, own : BOOLEAN, late : Nat]

TypeOK ==
  /\ locked \in BOOLEAN
  /\ daemon \in {"running", "stopping", "down"}
  /\ config \in Configs
  /\ locks \in 0 .. Cardinality(Scans)
  /\ unlocks \in 0 .. MaxSignals
  /\ tracked \in Scans \cup {None}
  /\ scan \in [Scans -> ScanState]
  /\ holder \in [Cameras -> Scans \cup {None}]

\* However fast locks and unlocks follow each other, a scan that nobody has
\* told to stop is the one whose cancel flag the event loop holds; and once the
\* loop has taken all signals, it is for the present lock of a session that is
\* still locked (watch.rs:143): an unlocked session is not scanned, and there
\* are never two scans that may unlock.
ScanOfPresentLock ==
  daemon = "running" =>
    \A s \in Running : ~scan[s].cancelled =>
      /\ s = tracked
      /\ locks = 0 /\ unlocks = 0 => locked /\ scan[s].own

\* A scan that was told to stop sends the requests of one attempt at most: one,
\* or Retries with cross-check (watch.rs:234, 240).  Each of them may count as a
\* failure of the user in the broker's guard.
CancelledScanStops ==
  \A s \in Scans : scan[s].late <= IF config.crossCheck THEN Retries ELSE 1

\* Every scan comes to its end and releases the cameras, whatever it finds
\* and whoever locks, unlocks or stops the daemon meanwhile.
ScansEnd == \A s \in Scans : Active(s) ~> ~Active(s)

\* A scan unlocks only the lock it was started for: an external unlock cancels
\* the scan (watch.rs:102), so that it cannot unlock a later lock.
UnlocksOwnLock ==
  [][\A s \in Scans : UnlockSession(s) /\ locked => scan[s].own]_vars

-----------------------------------------------------------------------------
(* Inductive strengthening of the properties, for the proofs. *)

\* A scan that nobody has told to stop.
Live(s) == Active(s) /\ ~scan[s].cancelled

\* Which scans are live, and what the queues say of the session: while a Lock
\* waits or a scan is live, the session is locked or an Unlock waits.
LoopInv ==
  /\ daemon # "running" => locks = 0 /\ unlocks = 0 /\ tracked = None
  /\ daemon = "down" => \A s \in Scans : ~Active(s)
  /\ daemon = "running" =>
       /\ \A s \in Scans : Live(s) => s = tracked /\ (locks = 0 => scan[s].own)
       /\ unlocks = 0 /\ (locks > 0 \/ \E s \in Scans : Live(s)) => locked

\* Requests a scan in state r has sent since it was cancelled: those of the
\* captures of one attempt.
LateInv(r) ==
  /\ ~r.cancelled => r.late = 0
  /\ r.at \in {"idle", "list", "listed", "rgb", "ir"} => r.late = 0
  /\ r.at = "capture" => r.late < r.capture
  /\ r.at = "sent" => r.late <= r.capture
  /\ r.at = "idle" \/ ~config.crossCheck => r.capture = 1
  /\ r.late <= IF config.crossCheck THEN Retries ELSE 1

DaemonInv == TypeOK /\ LoopInv /\ \A s \in Scans : LateInv(scan[s])

=============================================================================
