----------------------------- MODULE AbuseGuard -----------------------------
(***************************************************************************)
(* The limits facegate-brokerd puts on match requests: AbuseState of       *)
(* crates/facegate_brokerd/src/main.rs with the authorization that comes   *)
(* before it.                                                              *)
(*                                                                         *)
(* A match request is admitted or refused under the mutex of AbuseState,   *)
(* which is then released; decoding, inference and comparison run on the   *)
(* request's thread without it, and the outcome is recorded under the      *)
(* mutex again.  Between the two, other requests for the same user may be  *)
(* admitted and recorded and any amount of time may pass.  All of the      *)
(* state is memory of the process and is lost when the broker restarts.    *)
(*                                                                         *)
(* Time is discrete.  How a request is decided belongs to the broker's     *)
(* matching pipeline; here its outcome is a choice.                        *)
(***************************************************************************)
EXTENDS Naturals, Sequences

CONSTANTS
  Uids,           \* uids of the peers that connect
  Root,           \* uid 0
  Users,          \* user names
  UidOf,          \* UidOf[u]: uid of user u in the passwd database, or None
  Threads,        \* threads of the broker that serve match requests
  RateWindow,     \* RATE_LIMIT_WINDOW
  MaxMatches,     \* RATE_LIMIT_MAX_MATCHES
  FailureWindow,  \* FAILURE_WINDOW
  Threshold,      \* security.cooldown_after_failures
  Cooldown,       \* security.cooldown_seconds
  LastInstant,    \* the last point in time an Instant can represent
  MaxTime,        \* bound on the clock
  OnePerUser,     \* is a user's request answered before his next one starts?
  None            \* no entry, no lock, no request, no such user

Time == 0 .. MaxTime

ASSUME GuardAssumption ==
  /\ Root \in Uids
  /\ UidOf \in [Users -> Uids \cup {None}]
  /\ RateWindow \in Nat /\ FailureWindow \in Nat
  /\ MaxMatches \in Nat \ {0}
  /\ Threshold \in Nat \ {0}
  /\ Cooldown \in Nat \ {0}
  /\ MaxTime \in Nat /\ LastInstant \in Nat
  /\ OnePerUser \in BOOLEAN

\* WindowCounter, FailureCounter, and a request between check and record.
WindowCounter  == [started : Time, count : 0 .. MaxMatches]
FailureCounter == [started : Time, failures : Nat, locked_until : Nat \cup {None}]
Admitted       == [uid : Uids, user : Users]

ASSUME NoneAssumption ==
  /\ None \notin Nat
  /\ None \notin Uids
  /\ None \notin WindowCounter
  /\ None \notin FailureCounter
  /\ None \notin Admitted

VARIABLES
  now,        \* Instant::now()
  peer,       \* peer[uid]: entry of peer_limits
  failure,    \* failure[u]: entry of user_failures
  thread,     \* thread[t]: the admitted request t is working on, or None
  \* History of this process, never read by an action's guard:
  passed,     \* passed[uid]: when requests of uid passed the rate limit
  failedAt,   \* failedAt[u]: u's recorded failures since his last success
  promised    \* promised[u]: end of u's latest lockout since his last success

vars == <<now, peer, failure, thread, passed, failedAt, promised>>

\* A recorded failure: when, by which peer, and whether it locked the user out.
Failure == [at : Time, by : Uids, locked : BOOLEAN]

-----------------------------------------------------------------------------

\* authorized_for_match: root for everyone, a user for his own session.
Authorized(uid, u, scope) ==
  \/ uid = Root
  \/ scope = "session" /\ UidOf[u] = uid

\* Slip: an old window gets a new count but keeps its start.
WindowNotRestarted(uid) ==
  IF peer[uid] = None
  THEN [started |-> now, count |-> 0]
  ELSE IF now - peer[uid].started > RateWindow
       THEN [peer[uid] EXCEPT !.count = 0]
       ELSE peer[uid]

\* The peer's entry as check_match_allowed finds it: a new one, or restarted
\* when its window is over.
Window(uid) ==
  IF peer[uid] = None \/ now - peer[uid].started > RateWindow
  THEN [started |-> now, count |-> 0]
  ELSE peer[uid]

Unlocked == [started |-> now, failures |-> 0, locked_until |-> None]

\* Slip: the failure that reaches the threshold does not lock out yet.
LockedOutAboveThreshold(u) ==
  /\ failure[u] # None
  /\ failure[u].failures > Threshold
  /\ now < failure[u].locked_until

LockedOut(u) ==
  /\ failure[u] # None
  /\ failure[u].locked_until # None
  /\ now < failure[u].locked_until

\* Slip: an ended lockout is cleared but the failures are not.
LockForgotten(u) ==
  IF failure[u] = None THEN Unlocked ELSE [failure[u] EXCEPT !.locked_until = None]

\* The user's entry after a check that admits: a new one, or cleared when a
\* lockout has ended.
EntryAfterCheck(u) ==
  IF failure[u] = None \/ failure[u].locked_until # None
  THEN Unlocked
  ELSE failure[u]

\* Slip: old failures never expire.
EntryNeverExpiring(u) == IF failure[u] = None THEN Unlocked ELSE failure[u]

\* The user's entry as record_failure finds it.  It may be gone (a request of
\* the same user succeeded meanwhile), and an old one is restarted, which
\* also drops a lockout that was set meanwhile.
EntryForFailure(u) ==
  IF failure[u] = None \/ now - failure[u].started > FailureWindow
  THEN Unlocked
  ELSE failure[u]

\* Slip: > for >=.
LockOverThreshold(failures) == failures > Threshold

\* Does the failure that makes this many lock the user out?
LockAt(failures) == failures >= Threshold

\* Does the lockout that would start now end at an Instant?
CooldownRepresentable == now + Cooldown <= LastInstant

-----------------------------------------------------------------------------

Init ==
  /\ now = 0
  /\ peer = [uid \in Uids |-> None]
  /\ failure = [u \in Users |-> None]
  /\ thread = [t \in Threads |-> None]
  /\ passed = [uid \in Uids |-> <<>>]
  /\ failedAt = [u \in Users |-> <<>>]
  /\ promised = [u \in Users |-> 0]

Tick ==
  /\ now < MaxTime
  /\ now' = now + 1
  /\ UNCHANGED <<peer, failure, thread, passed, failedAt, promised>>

InFlight(u) == \E t \in Threads : thread[t] # None /\ thread[t].user = u

\* A match request gets past authorization to check_match_allowed.
Asks(t, uid, u) ==
  /\ thread[t] = None
  /\ \E scope \in {"sudo", "session"} : Authorized(uid, u, scope)
  /\ OnePerUser => ~InFlight(u)

\* Slip: refusals count too.
CountingRefused(t, uid, u) ==
  /\ Asks(t, uid, u)
  /\ Window(uid).count >= MaxMatches
  /\ peer' = [peer EXCEPT ![uid] = [Window(uid) EXCEPT !.count = @ + 1]]
  /\ UNCHANGED <<now, failure, thread, passed, failedAt, promised>>

\* Refused with rate_limited; the refusal itself is not counted.
RefuseRate(t, uid, u) ==
  /\ Asks(t, uid, u)
  /\ Window(uid).count >= MaxMatches
  /\ peer' = [peer EXCEPT ![uid] = Window(uid)]
  /\ UNCHANGED <<now, failure, thread, passed, failedAt, promised>>

\* The peer is below its limit and this request is counted.
PassRate(uid) ==
  /\ Window(uid).count < MaxMatches
  /\ peer' = [peer EXCEPT ![uid] = [Window(uid) EXCEPT !.count = @ + 1]]
  /\ passed' = [passed EXCEPT ![uid] = Append(@, now)]

\* Refused with locked_out: counts against the peer, not against the user.
RefuseLocked(t, uid, u) ==
  /\ Asks(t, uid, u)
  /\ PassRate(uid)
  /\ LockedOut(u)
  /\ UNCHANGED <<now, failure, thread, failedAt, promised>>

\* Admitted: the thread goes on without the mutex.
Admit(t, uid, u) ==
  /\ Asks(t, uid, u)
  /\ PassRate(uid)
  /\ ~LockedOut(u)
  /\ failure' = [failure EXCEPT ![u] = EntryAfterCheck(u)]
  /\ thread' = [thread EXCEPT ![t] = [uid |-> uid, user |-> u]]
  /\ UNCHANGED <<now, failedAt, promised>>

\* The request of t, whose outcome is recorded, is over.
Finish(t) ==
  /\ thread[t] # None
  /\ thread' = [thread EXCEPT ![t] = None]

\* record_success: the entry is removed, whatever it has come to hold since
\* the request was admitted.
RecordSuccess(t) ==
  LET u == thread[t].user
  IN  /\ Finish(t)
      /\ failure' = [failure EXCEPT ![u] = None]
      /\ failedAt' = [failedAt EXCEPT ![u] = <<>>]
      /\ promised' = [promised EXCEPT ![u] = 0]
      /\ UNCHANGED <<now, peer, passed>>

\* A failure goes into the history.
Note(u, uid, locks) ==
  failedAt' = [failedAt EXCEPT ![u] = Append(@, [at |-> now, by |-> uid, locked |-> locks])]

\* record_failure: one more failure in the window; from the threshold on each
\* one sets the end of the lockout.
RecordFailure(t) ==
  LET u     == thread[t].user
      entry == EntryForFailure(u)
      count == entry.failures + 1
      locks == LockAt(count)
      until == IF locks THEN now + Cooldown ELSE entry.locked_until
  IN  /\ Finish(t)
      /\ locks => CooldownRepresentable
      /\ failure' = [failure EXCEPT ![u] =
           [started |-> entry.started, failures |-> count, locked_until |-> until]]
      /\ promised' = [promised EXCEPT ![u] = IF locks THEN until ELSE @]
      /\ Note(u, thread[t].uid, locks)
      /\ UNCHANGED <<now, peer, passed>>

\* record_failure when the end of the lockout is not an Instant: the addition
\* panics after the failure was counted, the connection is dropped without an
\* answer, and the poisoned mutex is taken over by the next request.
RecordFailurePanics(t) ==
  LET u     == thread[t].user
      entry == EntryForFailure(u)
      count == entry.failures + 1
  IN  /\ Finish(t)
      /\ LockAt(count)
      /\ ~CooldownRepresentable
      /\ failure' = [failure EXCEPT ![u] = [entry EXCEPT !.failures = count]]
      /\ Note(u, thread[t].uid, FALSE)
      /\ UNCHANGED <<now, peer, passed, promised>>

\* The broker stops and systemd starts it again: counters and locks are gone,
\* and the history with them.
Restart ==
  /\ peer' = [uid \in Uids |-> None]
  /\ failure' = [u \in Users |-> None]
  /\ thread' = [t \in Threads |-> None]
  /\ passed' = [uid \in Uids |-> <<>>]
  /\ failedAt' = [u \in Users |-> <<>>]
  /\ promised' = [u \in Users |-> 0]
  /\ UNCHANGED now

Request(t) ==
  \E uid \in Uids, u \in Users :
    RefuseRate(t, uid, u) \/ RefuseLocked(t, uid, u) \/ Admit(t, uid, u)

Record(t) == RecordSuccess(t) \/ RecordFailure(t) \/ RecordFailurePanics(t)

Next ==
  \/ \E t \in Threads : Request(t) \/ Record(t)
  \/ Tick
  \/ Restart

Spec == Init /\ [][Next]_vars

-----------------------------------------------------------------------------
(* Properties. *)

\* The variables have their types; in particular no peer is ever counted
\* beyond the limit.
TypeOK ==
  /\ now \in Time
  /\ peer \in [Uids -> WindowCounter \cup {None}]
  /\ failure \in [Users -> FailureCounter \cup {None}]
  /\ thread \in [Threads -> Admitted \cup {None}]
  /\ passed \in [Uids -> Seq(Time)]
  /\ failedAt \in [Users -> Seq(Failure)]
  /\ promised \in [Users -> Nat]

\* A user's counter is at the threshold exactly while a lockout is set, ended
\* or not: no lockout outlives the failures that caused it, and no user at the
\* threshold goes on unlocked, however admitted requests overlap.
LockIffThreshold ==
  \A u \in Users : failure[u] # None =>
    (LockAt(failure[u].failures) <=> failure[u].locked_until # None)

\* Of the times L, any 2 * MaxMatches + 1 in a row take longer than RateWindow.
Spaced(L) ==
  \A i \in 1 .. Len(L) : i + 2 * MaxMatches <= Len(L) =>
    L[i + 2 * MaxMatches] > L[i] + RateWindow

\* The windows of a peer are fixed, not sliding, so two of them may meet; but
\* 2 * MaxMatches + 1 requests of one peer that pass the rate limit always
\* take longer than RateWindow.
BurstBounded == \A uid \in Uids : Spaced(passed[uid])

\* The lockouts among the failures L of u have their reasons.
Justified(u, L) ==
  \A k \in 1 .. Len(L) : L[k].locked =>
    /\ k >= Threshold
    /\ L[k].at <= L[k - Threshold + 1].at + FailureWindow
    /\ \A i \in k - Threshold + 1 .. k : L[i].by \in {Root, UidOf[u]}

\* A failure that locks a user out is at least the Threshold-th since his last
\* success, and the last Threshold failures lie within FailureWindow and were
\* all made by root or by the user himself: nobody locks out somebody else.
LockJustified == \A u \in Users : Justified(u, failedAt[u])

\* Of the failures L, 2 * Threshold - 1 in a row within FailureWindow include
\* one that locks the user out.
Limited(L) ==
  \A i \in 1 .. Len(L) :
    LET j == i + 2 * Threshold - 2
    IN  j <= Len(L) /\ L[j].at <= L[i].at + FailureWindow =>
          \E k \in i .. j : L[k].locked

\* Guesses are bounded: of any 2 * Threshold - 1 failures of a user without a
\* success in between, which take no longer than FailureWindow, at least one
\* locks the user out.
GuessesBounded == \A u \in Users : Limited(failedAt[u])

\* No request is admitted for a user before the lockout set for him ends, or
\* a request admitted earlier succeeds:
\* "Lockout duration after the threshold is hit" (configuration.md).
LockoutHolds ==
  [][\A t \in Threads, uid \in Uids, u \in Users :
       now < promised[u] => ~Admit(t, uid, u)]_vars

\* A step forgets a failure counted for u or a lockout set for him, or makes
\* the lockout shorter.
Forgets(u) ==
  /\ failure[u] # None
  /\ \/ failure'[u] = None
     \/ failure'[u].started # failure[u].started
     \/ failure'[u].failures < failure[u].failures
     \/ /\ failure[u].locked_until # None
        /\ \/ failure'[u].locked_until = None
           \/ failure'[u].locked_until < failure[u].locked_until

\* The lockout set for u has ended; the window of his failures is over.
LockEnded(u)  == failure[u].locked_until # None /\ failure[u].locked_until <= now
WindowOver(u) == failure[u].started + FailureWindow < now

-----------------------------------------------------------------------------
(* Inductive strengthenings of the properties, for the proofs. *)

\* What the entry w of a peer knows of the requests L that passed its limit:
\* the last w.count are in the current window, MaxMatches more at most in the
\* one before, and that one is RateWindow away.
WindowTracks(w, L) ==
  /\ w.count <= Len(L)
  /\ \A i \in 1 .. Len(L) :
       /\ i + w.count <= Len(L) => L[i] <= w.started
       /\ i + w.count + MaxMatches <= Len(L) => L[i] + RateWindow < w.started

RateInv ==
  /\ \A uid \in Uids :
       /\ peer[uid] = None => passed[uid] = <<>>
       /\ peer[uid] # None =>
            /\ peer[uid].started <= now
            /\ WindowTracks(peer[uid], passed[uid])
       /\ \A i \in 1 .. Len(passed[uid]) : passed[uid][i] <= now
  /\ BurstBounded

\* What the entry e of a user knows of his failures L since his last success:
\* the last e.failures of them, and no others, are in the current window.
CounterTracks(e, L) ==
  /\ e.failures <= Len(L)
  /\ \A i \in 1 .. Len(L) :
       /\ i + e.failures <= Len(L) => L[i].at <= e.started
       /\ i + e.failures > Len(L) =>
            e.started <= L[i].at /\ L[i].at <= e.started + FailureWindow

FailureInv ==
  /\ \A t \in Threads : thread[t] # None => thread[t].uid \in {Root, UidOf[thread[t].user]}
  /\ \A u \in Users :
       /\ \A i \in 1 .. Len(failedAt[u]) :
            failedAt[u][i].at <= now /\ failedAt[u][i].by \in {Root, UidOf[u]}
       /\ failure[u] = None => failedAt[u] = <<>>
       /\ failure[u] # None =>
            /\ failure[u].started <= now
            /\ CounterTracks(failure[u], failedAt[u])
  /\ LockJustified

\* No lockout ends later than one that starts now.
LocksEndSoon ==
  \A u \in Users : failure[u] # None /\ failure[u].locked_until # None =>
    failure[u].locked_until <= now + Cooldown

\* The last instant is too far away for RecordFailurePanics.
CooldownsFit == MaxTime + Cooldown <= LastInstant

\* Before the current window of e, Threshold - 1 failures are at most one
\* window back, unless one of them locked the user out.
GuessesTrack(e, L) ==
  /\ e.failures >= Threshold => L[Len(L)].locked
  /\ \A i \in 1 .. Len(L) : i + e.failures + Threshold - 1 <= Len(L) =>
       \/ L[i].at + FailureWindow < e.started
       \/ \E k \in i .. Len(L) : k + e.failures <= Len(L) /\ L[k].locked

GuessInv ==
  /\ LockIffThreshold
  /\ \A u \in Users : failure[u] # None => GuessesTrack(failure[u], failedAt[u])
  /\ GuessesBounded

\* With one request per user at a time, the lockout promised is the one set,
\* and nobody is at work for the user.
PromiseInv ==
  /\ \A s, t \in Threads :
       thread[s] # None /\ thread[t] # None /\ thread[s].user = thread[t].user => s = t
  /\ \A u \in Users : now < promised[u] =>
       /\ failure[u] # None
       /\ failure[u].locked_until = promised[u]
       /\ ~InFlight(u)

=============================================================================
