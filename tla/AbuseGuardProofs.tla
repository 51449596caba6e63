-------------------------- MODULE AbuseGuardProofs --------------------------
(***************************************************************************)
(* Proofs about AbuseGuard, for any number of peers, users and threads,    *)
(* any windows, limits and cooldown, and requests that overlap in any way. *)
(***************************************************************************)
EXTENDS AbuseGuard, TLAPS

LEMMA AppendIs ==
  ASSUME NEW S, NEW L \in Seq(S), NEW x \in S
  PROVE  /\ Append(L, x) \in Seq(S)
         /\ Len(L) \in Nat
         /\ Len(Append(L, x)) = Len(L) + 1
         /\ \A i \in 1 .. Len(L) : Append(L, x)[i] = L[i]
         /\ Append(L, x)[Len(L) + 1] = x
OBVIOUS

\* The user entries the two halves of a request compute.
LEMMA EntriesType ==
  ASSUME TypeOK, NEW u \in Users
  PROVE  /\ Unlocked \in FailureCounter
         /\ EntryAfterCheck(u) \in FailureCounter
         /\ EntryForFailure(u) \in FailureCounter
BY DEF TypeOK, Unlocked, EntryAfterCheck, EntryForFailure, FailureCounter

LEMMA WindowType ==
  ASSUME TypeOK, NEW uid \in Uids
  PROVE  /\ Window(uid) \in WindowCounter
         /\ Window(uid).count < MaxMatches =>
              [Window(uid) EXCEPT !.count = @ + 1] \in WindowCounter
<1> DEFINE w == Window(uid)
<1>1. [started |-> now, count |-> 0] \in WindowCounter
  BY GuardAssumption DEF TypeOK, WindowCounter
<1>2. w \in WindowCounter
  BY <1>1 DEF Window, TypeOK
<1> HIDE DEF w
<1>3. w.count < MaxMatches => [w EXCEPT !.count = @ + 1] \in WindowCounter
  BY <1>2, GuardAssumption DEF WindowCounter
<1>4. QED
  BY <1>2, <1>3 DEF w

\* What a request that passes the rate limit does to the peer's entry.
LEMMA PassRateType ==
  ASSUME TypeOK, NEW uid \in Uids, PassRate(uid)
  PROVE  /\ peer' \in [Uids -> WindowCounter \cup {None}]
         /\ passed' \in [Uids -> Seq(Time)]
<1>1. /\ [Window(uid) EXCEPT !.count = @ + 1] \in WindowCounter
      /\ now \in Time /\ passed[uid] \in Seq(Time)
  BY WindowType DEF PassRate, TypeOK
<1>2. Append(passed[uid], now) \in Seq(Time)
  BY <1>1, AppendIs
<1>3. QED
  BY <1>1, <1>2 DEF PassRate, TypeOK

\* The effect of record_failure for user u, whose entry it finds to be e: it
\* leaves the entry n and remembers the failure r.
Failed(u, e, n, r) ==
  /\ e = EntryForFailure(u)
  /\ n.started = e.started
  /\ n.failures = e.failures + 1
  /\ n.locked_until \in {e.locked_until, now + Cooldown}
  /\ r.at = now
  /\ r.locked => LockAt(n.failures)
  /\ CooldownRepresentable =>
       /\ r.locked <=> LockAt(n.failures)
       /\ n.locked_until = IF r.locked THEN now + Cooldown ELSE e.locked_until
       /\ promised' = [promised EXCEPT ![u] = IF r.locked THEN now + Cooldown ELSE @]
  /\ failure' = [failure EXCEPT ![u] = n]
  /\ failedAt' = [failedAt EXCEPT ![u] = Append(@, r)]
  /\ UNCHANGED <<now, peer, passed>>

\* Both ways record_failure can end have that effect.
LEMMA RecordIs ==
  ASSUME TypeOK, NEW t \in Threads, RecordFailure(t) \/ RecordFailurePanics(t)
  PROVE  /\ Finish(t)
         /\ promised' \in [Users -> Nat]
         /\ \E u \in Users, e \in FailureCounter, n \in FailureCounter, r \in Failure :
              Failed(u, e, n, r) /\ u = thread[t].user /\ r.by = thread[t].uid
<1>1. Finish(t) /\ thread[t] \in Admitted
  BY DEF TypeOK, RecordFailure, RecordFailurePanics, Finish
<1>2. PICK u \in Users : u = thread[t].user
  BY <1>1 DEF Admitted
<1>3. PICK e \in FailureCounter : e = EntryForFailure(u)
  BY EntriesType
<1> DEFINE locks == LockAt(e.failures + 1)
<1>4. /\ now \in Time /\ now + Cooldown \in Nat /\ locks \in BOOLEAN
      /\ promised[u] \in Nat /\ promised = [promised EXCEPT ![u] = @]
  BY <1>3, GuardAssumption DEF TypeOK, Time, LockAt, FailureCounter
<1>5. CASE RecordFailure(t)
  <2> DEFINE r == [at |-> now, by |-> thread[t].uid, locked |-> locks]
             until == IF locks THEN now + Cooldown ELSE e.locked_until
             n == [started |-> e.started, failures |-> e.failures + 1, locked_until |-> until]
  <2>1. r \in Failure
    BY <1>1, <1>4 DEF Failure, Admitted
  <2>2. until \in Nat \cup {None}
    BY <1>4 DEF FailureCounter
  <2> HIDE DEF until
  <2>3. /\ n \in FailureCounter /\ n.started = e.started
        /\ n.failures = e.failures + 1 /\ n.locked_until = until
    BY <2>2 DEF FailureCounter
  <2>4. /\ failure' = [failure EXCEPT ![u] = n]
        /\ failedAt' = [failedAt EXCEPT ![u] = Append(@, r)]
        /\ promised' = [promised EXCEPT ![u] = IF locks THEN until ELSE @]
        /\ UNCHANGED <<now, peer, passed>>
    BY <1>2, <1>3, <1>5 DEF RecordFailure, Note, until
  <2>5. promised' \in [Users -> Nat]
    BY <1>4, <2>4 DEF TypeOK, until
  <2> HIDE DEF n, locks
  <2>6. Failed(u, e, n, r)
    BY <1>3, <2>3, <2>4 DEF Failed, locks, until
  <2>7. QED
    BY <1>1, <1>2, <2>1, <2>3, <2>5, <2>6
<1>6. CASE RecordFailurePanics(t)
  <2> DEFINE r == [at |-> now, by |-> thread[t].uid, locked |-> FALSE]
             n == [e EXCEPT !.failures = e.failures + 1]
  <2>1. r \in Failure
    BY <1>1, <1>4 DEF Failure, Admitted
  <2>2. /\ n \in FailureCounter /\ n.started = e.started
        /\ n.failures = e.failures + 1 /\ n.locked_until = e.locked_until
    BY DEF FailureCounter
  <2>3. /\ failure' = [failure EXCEPT ![u] = n]
        /\ failedAt' = [failedAt EXCEPT ![u] = Append(@, r)]
        /\ UNCHANGED <<now, peer, passed, promised>>
        /\ ~CooldownRepresentable
    BY <1>2, <1>3, <1>6 DEF RecordFailurePanics, Note
  <2> HIDE DEF n
  <2>4. Failed(u, e, n, r)
    BY <1>3, <2>2, <2>3 DEF Failed
  <2>5. QED
    BY <1>1, <1>2, <2>1, <2>2, <2>3, <2>4 DEF TypeOK
<1>7. QED
  BY <1>5, <1>6

LEMMA TypeStep == TypeOK /\ [Next]_vars => TypeOK'
<1> SUFFICES ASSUME TypeOK, [Next]_vars
             PROVE  TypeOK'
  OBVIOUS
<1>1. ASSUME NEW t \in Threads, NEW uid \in Uids, NEW u \in Users, RefuseRate(t, uid, u)
      PROVE  TypeOK'
  <2>1. Window(uid) \in WindowCounter
    BY WindowType
  <2>2. peer' \in [Uids -> WindowCounter \cup {None}]
    BY <1>1, <2>1 DEF RefuseRate, TypeOK
  <2>3. QED
    BY <1>1, <2>2 DEF RefuseRate, TypeOK
<1>2. ASSUME NEW t \in Threads, NEW uid \in Uids, NEW u \in Users, RefuseLocked(t, uid, u)
      PROVE  TypeOK'
  BY <1>2, PassRateType DEF RefuseLocked, TypeOK
<1>3. ASSUME NEW t \in Threads, NEW uid \in Uids, NEW u \in Users, Admit(t, uid, u)
      PROVE  TypeOK'
  <2>1. [uid |-> uid, user |-> u] \in Admitted
    BY DEF Admitted
  <2>2. QED
    BY <1>3, <2>1, PassRateType, EntriesType DEF Admit, TypeOK
<1>4. ASSUME NEW t \in Threads, RecordSuccess(t)
      PROVE  TypeOK'
  <2>1. <<>> \in Seq(Failure)
    OBVIOUS
  <2>2. failedAt' \in [Users -> Seq(Failure)]
    BY <1>4, <2>1 DEF RecordSuccess, TypeOK
  <2>3. QED
    BY <1>4, <2>2 DEF RecordSuccess, Finish, TypeOK
<1>5. ASSUME NEW t \in Threads, RecordFailure(t) \/ RecordFailurePanics(t)
      PROVE  TypeOK'
  <2>1. Finish(t) /\ promised' \in [Users -> Nat]
    BY <1>5, RecordIs
  <2>2. PICK u \in Users, e \in FailureCounter, n \in FailureCounter, r \in Failure :
          Failed(u, e, n, r)
    BY <1>5, RecordIs
  <2>3. Append(failedAt[u], r) \in Seq(Failure)
    BY AppendIs DEF TypeOK
  <2>4. QED
    BY <2>1, <2>2, <2>3 DEF Failed, Finish, TypeOK
<1>6. CASE Tick
  BY <1>6, GuardAssumption DEF Tick, TypeOK, Time
<1>7. CASE Restart
  BY <1>7 DEF Restart, TypeOK
<1>8. CASE UNCHANGED vars
  BY <1>8 DEF vars, TypeOK
<1>9. QED
  BY <1>1, <1>2, <1>3, <1>4, <1>5, <1>6, <1>7, <1>8 DEF Next, Request, Record

LEMMA TypeInit == Init => TypeOK
BY GuardAssumption DEF Init, TypeOK, Time

\* The guard's state has its type, and no peer is counted beyond the limit.
THEOREM GuardTypeCorrect == Spec => []TypeOK
BY TypeInit, TypeStep, PTL DEF Spec

-----------------------------------------------------------------------------
(* What is forgotten. *)

\* Which failures and lockouts a check that admits, or the recording of a
\* failure, leaves: those it found, unless the lockout had ended or the window
\* was over.
LEMMA AdmitKeeps ==
  ASSUME TypeOK, NEW t \in Threads, NEW uid \in Uids, NEW v \in Users, Admit(t, uid, v),
         NEW u \in Users, failure[u] # None
  PROVE  \/ failure'[u] = failure[u]
         \/ u = v /\ LockEnded(u) /\ failure'[u].locked_until = None
<1>1. failure' = [failure EXCEPT ![v] = EntryAfterCheck(v)] /\ ~LockedOut(v)
  BY DEF Admit
<1>2. CASE u = v /\ failure[u].locked_until # None
  <2>1. failure'[u] = Unlocked
    BY <1>1, <1>2 DEF TypeOK, EntryAfterCheck
  <2>2. failure[u].locked_until \in Nat /\ now \in Nat /\ ~(now < failure[u].locked_until)
    BY <1>1, <1>2 DEF TypeOK, FailureCounter, Time, LockedOut
  <2>3. LockEnded(u)
    BY <1>2, <2>2 DEF LockEnded
  <2>4. QED
    BY <1>2, <2>1, <2>3 DEF Unlocked
<1>3. CASE u # v \/ failure[u].locked_until = None
  BY <1>1, <1>3 DEF TypeOK, EntryAfterCheck
<1>4. QED
  BY <1>2, <1>3

LEMMA RecordKeeps ==
  ASSUME TypeOK, NEW t \in Threads, RecordFailure(t) \/ RecordFailurePanics(t),
         NEW u \in Users, failure[u] # None
  PROVE  \/ failure'[u] = failure[u]
         \/ u = thread[t].user /\ WindowOver(u)
         \/ /\ failure'[u] # None
            /\ failure'[u].started = failure[u].started
            /\ failure'[u].failures = failure[u].failures + 1
            /\ failure'[u].locked_until \in {failure[u].locked_until, now + Cooldown}
<1>1. PICK v \in Users, e \in FailureCounter, n \in FailureCounter, r \in Failure :
        Failed(v, e, n, r) /\ v = thread[t].user
  BY RecordIs
<1>2. failure' = [failure EXCEPT ![v] = n] /\ e = EntryForFailure(v)
  BY <1>1 DEF Failed
<1>3. CASE u = v /\ ~WindowOver(u)
  <2>1. /\ now \in Nat /\ FailureWindow \in Nat /\ failure[u].started \in Nat
    BY GuardAssumption DEF TypeOK, FailureCounter, Time
  <2>2. ~(now - failure[u].started > FailureWindow)
    BY <1>3, <2>1 DEF WindowOver
  <2>3. e = failure[u] /\ failure'[u] = n /\ n # None
    BY <1>2, <1>3, <2>2, NoneAssumption DEF TypeOK, EntryForFailure
  <2>4. QED
    BY <1>1, <2>3 DEF Failed
<1>4. CASE u # v
  BY <1>2, <1>4 DEF TypeOK
<1>5. QED
  BY <1>1, <1>3, <1>4

\* An entry that appears has no lockout yet, or one that starts now.
LEMMA NewEntry ==
  ASSUME TypeOK, NEW t \in Threads, NEW uid \in Uids, NEW v \in Users,
         Admit(t, uid, v) \/ RecordFailure(t) \/ RecordFailurePanics(t),
         NEW u \in Users, failure[u] = None \/ WindowOver(u), failure'[u] # failure[u]
  PROVE  failure'[u].locked_until \in {None, now + Cooldown}
<1>1. CASE Admit(t, uid, v)
  <2>1. failure' = [failure EXCEPT ![v] = EntryAfterCheck(v)]
    BY <1>1 DEF Admit
  <2>2. u = v /\ failure'[u] = Unlocked
    BY <2>1 DEF TypeOK, EntryAfterCheck
  <2>3. QED
    BY <2>2 DEF Unlocked
<1>2. CASE RecordFailure(t) \/ RecordFailurePanics(t)
  <2>1. PICK w \in Users, e \in FailureCounter, n \in FailureCounter, r \in Failure :
          Failed(w, e, n, r)
    BY <1>2, RecordIs
  <2>2. failure' = [failure EXCEPT ![w] = n] /\ e = EntryForFailure(w)
    BY <2>1 DEF Failed
  <2>3. u = w /\ failure'[u] = n
    BY <2>2 DEF TypeOK
  <2>4. failure[u] # None => now - failure[u].started > FailureWindow
    <3>1. ASSUME failure[u] # None
          PROVE  now \in Nat /\ FailureWindow \in Nat /\ failure[u].started \in Nat
      BY <3>1, GuardAssumption DEF TypeOK, FailureCounter, Time
    <3>2. QED
      BY <3>1 DEF WindowOver
  <2>5. e = Unlocked
    BY <2>2, <2>3, <2>4 DEF EntryForFailure
  <2>6. QED
    BY <2>1, <2>3, <2>5 DEF Failed, Unlocked
<1>3. QED
  BY <1>1, <1>2

LEMMA LocksEndSoonStep == TypeOK /\ LocksEndSoon /\ [Next]_vars => LocksEndSoon'
<1> SUFFICES ASSUME TypeOK, LocksEndSoon, [Next]_vars,
                    NEW u \in Users, failure'[u] # None, failure'[u].locked_until # None
             PROVE  failure'[u].locked_until <= now' + Cooldown
  BY DEF LocksEndSoon
<1>0. /\ now \in Nat /\ Cooldown \in Nat
      /\ failure[u] # None /\ failure[u].locked_until # None =>
           failure[u].locked_until \in Nat /\ failure[u].locked_until <= now + Cooldown
  BY GuardAssumption DEF TypeOK, Time, FailureCounter, LocksEndSoon
<1>1. ASSUME failure'[u] = failure[u], now' = now \/ now' = now + 1
      PROVE  failure'[u].locked_until <= now' + Cooldown
  BY <1>0, <1>1
<1>2. ASSUME NEW t \in Threads, NEW uid \in Uids, NEW v \in Users, Admit(t, uid, v)
      PROVE  failure'[u].locked_until <= now' + Cooldown
  <2>1. now' = now
    BY <1>2 DEF Admit
  <2>2. failure'[u] = failure[u] \/ failure'[u].locked_until = now + Cooldown
    BY <1>2, AdmitKeeps, NewEntry
  <2>3. QED
    BY <1>0, <1>1, <2>1, <2>2
<1>3. ASSUME NEW t \in Threads, RecordFailure(t) \/ RecordFailurePanics(t)
      PROVE  failure'[u].locked_until <= now' + Cooldown
  <2>1. now' = now /\ t \in Threads /\ Root \in Uids
    BY <1>3, GuardAssumption DEF RecordFailure, RecordFailurePanics
  <2>2. \/ failure'[u] = failure[u]
        \/ failure'[u].locked_until = now + Cooldown
        \/ failure[u] # None /\ failure'[u].locked_until = failure[u].locked_until
    BY <1>3, <2>1, RecordKeeps, NewEntry
  <2>3. QED
    BY <1>0, <1>1, <2>1, <2>2
<1>4. ASSUME NEW t \in Threads, RecordSuccess(t)
      PROVE  failure'[u].locked_until <= now' + Cooldown
  <2>1. PICK v : failure' = [failure EXCEPT ![v] = None]
    BY <1>4 DEF RecordSuccess
  <2>2. failure'[u] = failure[u] /\ now' = now
    BY <1>4, <2>1 DEF RecordSuccess, TypeOK
  <2>3. QED
    BY <1>1, <2>2
<1>5. ASSUME NEW t \in Threads, NEW uid \in Uids, NEW v \in Users,
             RefuseRate(t, uid, v) \/ RefuseLocked(t, uid, v)
      PROVE  failure'[u].locked_until <= now' + Cooldown
  BY <1>1, <1>5 DEF RefuseRate, RefuseLocked
<1>6. CASE Tick
  BY <1>1, <1>6 DEF Tick
<1>7. CASE Restart
  BY <1>7 DEF Restart
<1>8. CASE UNCHANGED vars
  BY <1>1, <1>8 DEF vars
<1>9. QED
  BY <1>2, <1>3, <1>4, <1>5, <1>6, <1>7, <1>8 DEF Next, Request, Record

LEMMA LocksEndSoonAlways == Spec => [](TypeOK /\ LocksEndSoon)
<1>1. Init => LocksEndSoon
  BY DEF Init, LocksEndSoon
<1>2. QED
  BY <1>1, TypeInit, TypeStep, LocksEndSoonStep, PTL DEF Spec

\* What is forgotten of u is forgotten for a reason.
LEMMA AdmitForgets ==
  ASSUME TypeOK, NEW t \in Threads, NEW uid \in Uids, NEW v \in Users, Admit(t, uid, v),
         NEW u \in Users, Forgets(u)
  PROVE  u = v /\ LockEnded(u)
<1>1. failure'[u] # failure[u]
  BY DEF Forgets, TypeOK, FailureCounter, Time
<1>2. QED
  BY <1>1, AdmitKeeps DEF Forgets

LEMMA RecordForgets ==
  ASSUME TypeOK, LocksEndSoon, NEW t \in Threads,
         RecordFailure(t) \/ RecordFailurePanics(t),
         NEW u \in Users, Forgets(u)
  PROVE  u = thread[t].user /\ WindowOver(u)
<1>1. failure[u] # None /\ failure[u] \in FailureCounter /\ failure'[u] # failure[u]
  BY DEF Forgets, TypeOK, FailureCounter, Time
<1>2. /\ now \in Nat /\ Cooldown \in Nat /\ failure[u].failures \in Nat
      /\ failure[u].locked_until # None =>
           failure[u].locked_until \in Nat /\ failure[u].locked_until <= now + Cooldown
  <2>1. /\ now \in Nat /\ Cooldown \in Nat /\ failure[u].failures \in Nat
        /\ failure[u].locked_until \in Nat \cup {None}
    BY <1>1, GuardAssumption DEF TypeOK, Time, FailureCounter
  <2>2. QED
    BY <1>1, <2>1 DEF LocksEndSoon
<1>3. now + Cooldown # None
  BY <1>2, NoneAssumption
<1>4. CASE /\ failure'[u] # None
           /\ failure'[u].started = failure[u].started
           /\ failure'[u].failures = failure[u].failures + 1
           /\ failure'[u].locked_until \in {failure[u].locked_until, now + Cooldown}
  <2>1. failure[u].locked_until # None => ~(failure'[u].locked_until < failure[u].locked_until)
    BY <1>2, <1>4
  <2>2. ~(failure'[u].failures < failure[u].failures)
    BY <1>2, <1>4
  <2>3. QED
    BY <1>1, <1>3, <1>4, <2>1, <2>2 DEF Forgets
<1>5. QED
  BY <1>1, <1>4, RecordKeeps

-----------------------------------------------------------------------------
(* The rate limit. *)

\* Counting one more request in a window that is not full.
LEMMA PassTracks ==
  ASSUME NEW L \in Seq(Time), NEW n \in Time, NEW w \in WindowCounter,
         w.count < MaxMatches, w.started <= n, WindowTracks(w, L), Spaced(L),
         NEW v \in WindowCounter, v.started = w.started, v.count = w.count + 1
  PROVE  WindowTracks(v, Append(L, n)) /\ Spaced(Append(L, n))
<1> DEFINE M == Append(L, n)
<1>1. /\ M \in Seq(Time) /\ Len(L) \in Nat /\ Len(M) = Len(L) + 1
      /\ \A i \in 1 .. Len(L) : M[i] = L[i]
      /\ M[Len(L) + 1] = n
  BY AppendIs
<1>2. \A i \in 1 .. Len(L) : L[i] \in Time
  OBVIOUS
<1>3. w.count \in Nat /\ w.started \in Nat /\ n \in Nat /\ MaxMatches \in Nat \ {0} /\ RateWindow \in Nat
  BY GuardAssumption DEF WindowCounter, Time
<1> HIDE DEF M
<1>4. WindowTracks(v, M)
  <2>1. v.count <= Len(M)
    BY <1>1, <1>3 DEF WindowTracks
  <2>2. ASSUME NEW i \in 1 .. Len(M), i + v.count <= Len(M)
        PROVE  /\ i \in 1 .. Len(L) /\ M[i] = L[i] /\ i + w.count <= Len(L)
               /\ M[i] <= w.started
    <3>1. i \in 1 .. Len(L) /\ i + w.count <= Len(L)
      BY <1>1, <1>3, <2>2
    <3>2. QED
      BY <1>1, <3>1 DEF WindowTracks
  <2>3. ASSUME NEW i \in 1 .. Len(M), i + v.count + MaxMatches <= Len(M)
        PROVE  M[i] + RateWindow < w.started
    <3>1. i + v.count <= Len(M) /\ i + w.count + MaxMatches <= Len(L)
      BY <1>1, <1>3, <2>3
    <3>2. i \in 1 .. Len(L) /\ M[i] = L[i]
      BY <2>2, <3>1
    <3>3. QED
      BY <3>1, <3>2 DEF WindowTracks
  <2>4. QED
    BY <2>1, <2>2, <2>3 DEF WindowTracks
<1>5. ASSUME NEW i \in 1 .. Len(M), i + 2 * MaxMatches <= Len(M)
      PROVE  M[i + 2 * MaxMatches] > M[i] + RateWindow
  <2>1. i \in 1 .. Len(L) /\ M[i] = L[i] /\ L[i] \in Nat
    BY <1>1, <1>2, <1>3, <1>5 DEF Time
  <2>2. CASE i + 2 * MaxMatches <= Len(L)
    <3>1. L[i + 2 * MaxMatches] > L[i] + RateWindow
      BY <2>1, <2>2 DEF Spaced
    <3>2. i + 2 * MaxMatches \in 1 .. Len(L)
      BY <1>1, <1>3, <2>1, <2>2
    <3>3. QED
      BY <1>1, <2>1, <3>1, <3>2
  <2>3. CASE i + 2 * MaxMatches = Len(L) + 1
    <3>1. i + w.count + MaxMatches <= Len(L)
      BY <1>1, <1>3, <2>1, <2>3
    <3>2. L[i] + RateWindow < w.started
      BY <2>1, <3>1 DEF WindowTracks
    <3>3. M[i + 2 * MaxMatches] = n
      BY <1>1, <2>3
    <3>4. n > L[i] + RateWindow
      BY <1>3, <2>1, <3>2
    <3>5. M[i] = L[i]
      BY <2>1
    <3>6. QED
      BY <3>3, <3>4, <3>5
  <2>4. i + 2 * MaxMatches <= Len(L) \/ i + 2 * MaxMatches = Len(L) + 1
    BY <1>1, <1>3, <1>5
  <2>5. QED
    BY <2>2, <2>3, <2>4
<1>6. Spaced(M)
  BY <1>5 DEF Spaced
<1>7. QED
  BY <1>4, <1>6 DEF M

\* The window a check finds, restarted or not.
LEMMA WindowIs ==
  ASSUME TypeOK, RateInv, NEW uid \in Uids
  PROVE  Window(uid).started <= now /\ WindowTracks(Window(uid), passed[uid])
<1>1. /\ now \in Nat /\ passed[uid] \in Seq(Time) /\ Len(passed[uid]) \in Nat
      /\ \A i \in 1 .. Len(passed[uid]) : passed[uid][i] \in Nat /\ passed[uid][i] <= now
      /\ MaxMatches \in Nat \ {0} /\ RateWindow \in Nat
  BY GuardAssumption DEF TypeOK, RateInv, Time
<1>2. CASE peer[uid] = None
  BY <1>1, <1>2 DEF RateInv, Window, WindowTracks
<1>3. CASE peer[uid] # None /\ now - peer[uid].started > RateWindow
  <2>1. peer[uid].count \in 0 .. MaxMatches /\ peer[uid].started \in Nat
    BY <1>3 DEF TypeOK, WindowCounter, Time
  <2>2. WindowTracks(peer[uid], passed[uid])
    BY <1>3 DEF RateInv
  <2>3. Window(uid) = [started |-> now, count |-> 0]
    BY <1>3 DEF Window
  <2>4. \A i \in 1 .. Len(passed[uid]) : i + MaxMatches <= Len(passed[uid]) =>
          i + peer[uid].count <= Len(passed[uid])
    BY <1>1, <2>1
  <2>5. \A i \in 1 .. Len(passed[uid]) : i + MaxMatches <= Len(passed[uid]) =>
          passed[uid][i] <= peer[uid].started
    BY <2>2, <2>4 DEF WindowTracks
  <2>a. peer[uid].started + RateWindow < now
    BY <1>1, <1>3, <2>1
  <2>b. \A i \in 1 .. Len(passed[uid]) : passed[uid][i] \in Nat
    BY <1>1
  <2>6. \A i \in 1 .. Len(passed[uid]) : i + MaxMatches <= Len(passed[uid]) =>
          passed[uid][i] + RateWindow < now
    <3> DEFINE start == peer[uid].started
               len == Len(passed[uid])
    <3>1. start \in Nat /\ start + RateWindow < now
      BY <2>1, <2>a
    <3> HIDE DEF start
    <3>2. \A i \in 1 .. len : i + MaxMatches <= len => passed[uid][i] <= start
      BY <2>5 DEF start
    <3>3. \A i \in 1 .. len : passed[uid][i] \in Nat
      BY <2>b
    <3> HIDE DEF len
    <3>4. \A i \in 1 .. len : i + MaxMatches <= len => passed[uid][i] + RateWindow < now
      BY <1>1, <3>1, <3>2, <3>3
    <3>5. QED
      BY <3>4 DEF len
  <2>7. QED
    BY <1>1, <2>3, <2>6 DEF WindowTracks
<1>4. CASE peer[uid] # None /\ ~(now - peer[uid].started > RateWindow)
  BY <1>4 DEF Window, RateInv
<1>5. QED
  BY <1>2, <1>3, <1>4

LEMMA PassKeepsRate ==
  ASSUME TypeOK, RateInv, NEW uid \in Uids, PassRate(uid), UNCHANGED now
  PROVE  RateInv'
<1> DEFINE w == Window(uid)
           v == [w EXCEPT !.count = @ + 1]
<1>1. /\ w \in WindowCounter /\ w.count < MaxMatches
      /\ w.started <= now /\ WindowTracks(w, passed[uid])
  BY WindowType, WindowIs DEF PassRate
<1>2. v \in WindowCounter /\ v.started = w.started /\ v.count = w.count + 1 /\ v # None
  BY <1>1, WindowType, NoneAssumption DEF WindowCounter
<1>3. now \in Time /\ passed[uid] \in Seq(Time) /\ Spaced(passed[uid])
  BY DEF TypeOK, RateInv, BurstBounded
<1>4. /\ WindowTracks(v, Append(passed[uid], now))
      /\ Spaced(Append(passed[uid], now))
  BY <1>1, <1>2, <1>3, PassTracks
<1>5. \A i \in 1 .. Len(Append(passed[uid], now)) : Append(passed[uid], now)[i] <= now
  BY <1>3, AppendIs DEF RateInv, Time
<1>6. /\ peer' = [peer EXCEPT ![uid] = v]
      /\ passed' = [passed EXCEPT ![uid] = Append(passed[uid], now)]
  BY DEF PassRate
<1> HIDE DEF v, w
<1>7. \A x \in Uids : x # uid => peer'[x] = peer[x] /\ passed'[x] = passed[x]
  BY <1>6 DEF TypeOK
<1>8. peer'[uid] = v /\ passed'[uid] = Append(passed[uid], now)
  BY <1>6 DEF TypeOK
<1>9. \A x \in Uids : Spaced(passed'[x])
  BY <1>4, <1>7, <1>8 DEF RateInv, BurstBounded
<1>10. \A x \in Uids : peer'[x] # None =>
         peer'[x].started <= now /\ WindowTracks(peer'[x], passed'[x])
  BY <1>1, <1>2, <1>4, <1>7, <1>8 DEF RateInv
<1>11. QED
  BY <1>2, <1>5, <1>7, <1>8, <1>9, <1>10 DEF RateInv, BurstBounded

LEMMA RateStep == TypeOK /\ RateInv /\ [Next]_vars => RateInv'
<1> SUFFICES ASSUME TypeOK, RateInv, [Next]_vars
             PROVE  RateInv'
  OBVIOUS
<1>1. ASSUME NEW t \in Threads, NEW uid \in Uids, NEW u \in Users, RefuseRate(t, uid, u)
      PROVE  RateInv'
  <2> DEFINE w == Window(uid)
  <2>1. w.started <= now /\ WindowTracks(w, passed[uid]) /\ w \in WindowCounter
    BY WindowType, WindowIs
  <2>2. peer' = [peer EXCEPT ![uid] = w] /\ UNCHANGED <<now, passed>>
    BY <1>1 DEF RefuseRate
  <2>3. w.count >= MaxMatches /\ MaxMatches \in Nat \ {0}
    BY <1>1, GuardAssumption DEF RefuseRate
  <2>4. w # None
    BY <2>1, NoneAssumption
  <2> HIDE DEF w
  <2>5. \A x \in Uids : peer'[x] = IF x = uid THEN w ELSE peer[x]
    BY <2>2 DEF TypeOK
  <2>6. QED
    BY <2>1, <2>2, <2>4, <2>5 DEF RateInv, BurstBounded
<1>2. ASSUME NEW t \in Threads, NEW uid \in Uids, NEW u \in Users,
             RefuseLocked(t, uid, u) \/ Admit(t, uid, u)
      PROVE  RateInv'
  BY <1>2, PassKeepsRate DEF RefuseLocked, Admit
<1>3. ASSUME NEW t \in Threads, RecordSuccess(t) \/ RecordFailure(t) \/ RecordFailurePanics(t)
      PROVE  RateInv'
  BY <1>3 DEF RecordSuccess, RecordFailure, RecordFailurePanics, RateInv, BurstBounded
<1>4. CASE Tick
  <2>1. now \in Nat /\ now' = now + 1 /\ UNCHANGED <<peer, passed>>
    BY <1>4 DEF Tick, TypeOK, Time
  <2>2. \A uid \in Uids : peer[uid] # None => peer[uid].started \in Nat
    BY DEF TypeOK, WindowCounter, Time
  <2>3. \A uid \in Uids : \A i \in 1 .. Len(passed[uid]) : passed[uid][i] \in Nat
    <3>1. ASSUME NEW uid \in Uids, NEW i \in 1 .. Len(passed[uid])
          PROVE  passed[uid][i] \in Nat
      <4>1. passed[uid] \in Seq(Time)
        BY DEF TypeOK
      <4>2. passed[uid][i] \in Time
        BY <4>1
      <4>3. QED
        BY <4>2 DEF Time
    <3>2. QED
      BY <3>1
  <2>4. QED
    BY <2>1, <2>2, <2>3 DEF RateInv, BurstBounded
<1>5. CASE Restart
  BY <1>5 DEF Restart, RateInv, BurstBounded, Spaced
<1>6. CASE UNCHANGED vars
  BY <1>6 DEF vars, RateInv, BurstBounded
<1>7. QED
  BY <1>1, <1>2, <1>3, <1>4, <1>5, <1>6 DEF Next, Request, Record

\* For every limit and window, 2 * MaxMatches + 1 requests of one peer that
\* pass the rate limit take longer than RateWindow.
THEOREM BurstsBounded == Spec => []BurstBounded
<1>1. Init => RateInv
  BY DEF Init, RateInv, BurstBounded, Spaced
<1>2. RateInv => BurstBounded
  BY DEF RateInv
<1>3. QED
  BY <1>1, <1>2, TypeInit, TypeStep, RateStep, PTL DEF Spec

-----------------------------------------------------------------------------
(* Who is locked out, and why. *)

\* One more failure, at time m, in the window of the entry b.
LEMMA FailureTracks ==
  ASSUME NEW L \in Seq(Failure), NEW r \in Failure, NEW m \in Time, r.at = m,
         NEW b \in FailureCounter, CounterTracks(b, L),
         b.started <= m, m <= b.started + FailureWindow,
         NEW n \in FailureCounter, n.started = b.started, n.failures = b.failures + 1
  PROVE  CounterTracks(n, Append(L, r))
<1> DEFINE M == Append(L, r)
<1>1. /\ Len(L) \in Nat /\ Len(M) = Len(L) + 1 /\ M[Len(L) + 1] = r
      /\ \A i \in 1 .. Len(L) : M[i] = L[i]
  BY AppendIs
<1>2. b.failures \in Nat /\ b.started \in Nat
  BY DEF FailureCounter, Time
<1> HIDE DEF M
<1>3. n.failures <= Len(M)
  BY <1>1, <1>2 DEF CounterTracks
<1>4. ASSUME NEW i \in 1 .. Len(M), i + n.failures <= Len(M)
      PROVE  M[i].at <= n.started
  <2>1. i \in 1 .. Len(L) /\ i + b.failures <= Len(L)
    BY <1>1, <1>2, <1>4
  <2>2. QED
    BY <1>1, <2>1 DEF CounterTracks
<1>5. ASSUME NEW i \in 1 .. Len(M), i + n.failures > Len(M)
      PROVE  n.started <= M[i].at /\ M[i].at <= n.started + FailureWindow
  <2>1. CASE i = Len(L) + 1
    BY <1>1, <2>1
  <2>2. CASE i # Len(L) + 1
    <3>1. i \in 1 .. Len(L) /\ i + b.failures > Len(L)
      BY <1>1, <1>2, <1>5, <2>2
    <3>2. QED
      BY <1>1, <3>1 DEF CounterTracks
  <2>3. QED
    BY <2>1, <2>2
<1>6. QED
  BY <1>3, <1>4, <1>5 DEF CounterTracks, M

\* It locks the user out only for a reason.
LEMMA FailureJustified ==
  ASSUME NEW u \in Users, NEW L \in Seq(Failure), NEW r \in Failure,
         NEW n \in FailureCounter, CounterTracks(n, Append(L, r)),
         r.locked => n.failures >= Threshold,
         r.at \in Nat, r.at <= n.started + FailureWindow,
         r.by \in {Root, UidOf[u]},
         \A i \in 1 .. Len(L) : L[i].by \in {Root, UidOf[u]},
         Justified(u, L)
  PROVE  Justified(u, Append(L, r))
<1> DEFINE M == Append(L, r)
<1>1. /\ Len(L) \in Nat /\ Len(M) = Len(L) + 1 /\ M[Len(L) + 1] = r
      /\ \A i \in 1 .. Len(L) : M[i] = L[i]
      /\ M \in Seq(Failure)
  BY AppendIs
<1>2. n.failures \in Nat /\ n.started \in Nat /\ Threshold \in Nat \ {0} /\ FailureWindow \in Nat
  BY GuardAssumption DEF FailureCounter, Time
<1> HIDE DEF M
<1>3. \A i \in 1 .. Len(M) : M[i].by \in {Root, UidOf[u]}
  BY <1>1
<1>4. ASSUME NEW k \in 1 .. Len(M), M[k].locked
      PROVE  k >= Threshold /\ M[k].at <= M[k - Threshold + 1].at + FailureWindow
  <2>1. CASE k \in 1 .. Len(L)
    <3>1. L[k].locked
      BY <1>1, <1>4, <2>1
    <3>2. k >= Threshold /\ L[k].at <= L[k - Threshold + 1].at + FailureWindow
      BY <2>1, <3>1 DEF Justified
    <3>3. k - Threshold + 1 \in 1 .. Len(L)
      BY <1>1, <1>2, <2>1, <3>2
    <3>4. QED
      BY <1>1, <2>1, <3>2, <3>3
  <2>2. CASE k = Len(L) + 1
    <3>1. n.failures >= Threshold /\ n.failures <= Len(M)
      BY <1>1, <1>4, <2>2 DEF CounterTracks, M
    <3>2. k >= Threshold /\ k - Threshold + 1 \in 1 .. Len(M)
      BY <1>1, <1>2, <2>2, <3>1
    <3>3. k - Threshold + 1 + n.failures > Len(M)
      BY <1>1, <1>2, <2>2, <3>1
    <3>4. n.started <= M[k - Threshold + 1].at
      BY <3>2, <3>3 DEF CounterTracks, M
    <3>5. M[k - Threshold + 1] \in Failure
      BY <1>1, <3>2
    <3>6. M[k - Threshold + 1].at \in Nat
      BY <3>5 DEF Failure, Time
    <3>7. r.at <= M[k - Threshold + 1].at + FailureWindow
      BY <1>2, <3>4, <3>6
    <3>8. QED
      BY <1>1, <2>2, <3>2, <3>7
  <2>3. QED
    BY <1>1, <2>1, <2>2
<1>5. ASSUME NEW k \in 1 .. Len(M), M[k].locked, NEW i \in k - Threshold + 1 .. k
      PROVE  M[i].by \in {Root, UidOf[u]}
  <2>1. i \in 1 .. Len(M)
    BY <1>1, <1>2, <1>4, <1>5
  <2>2. QED
    BY <1>3, <2>1
<1>6. QED
  BY <1>4, <1>5 DEF Justified, M

\* The entries that the two halves of a request find.
LEMMA EntriesTrack ==
  ASSUME TypeOK, FailureInv, NEW u \in Users
  PROVE  /\ EntryAfterCheck(u).started <= now
         /\ CounterTracks(EntryAfterCheck(u), failedAt[u])
         /\ EntryForFailure(u).started <= now
         /\ now <= EntryForFailure(u).started + FailureWindow
         /\ CounterTracks(EntryForFailure(u), failedAt[u])
<1>1. /\ now \in Nat /\ FailureWindow \in Nat /\ Len(failedAt[u]) \in Nat
      /\ \A i \in 1 .. Len(failedAt[u]) : failedAt[u][i].at <= now
  BY GuardAssumption DEF TypeOK, FailureInv, Time
<1>2. Unlocked.started = now /\ CounterTracks(Unlocked, failedAt[u])
  BY <1>1 DEF Unlocked, CounterTracks
<1>3. CASE failure[u] = None
  BY <1>1, <1>2, <1>3 DEF EntryAfterCheck, EntryForFailure
<1>4. CASE failure[u] # None
  <2>1. /\ failure[u].started \in Nat /\ failure[u].started <= now
        /\ CounterTracks(failure[u], failedAt[u])
    BY <1>4 DEF TypeOK, FailureInv, FailureCounter, Time
  <2>2. ~(now - failure[u].started > FailureWindow) => now <= failure[u].started + FailureWindow
    BY <1>1, <2>1
  <2>3. QED
    BY <1>1, <1>2, <2>1, <2>2 DEF EntryAfterCheck, EntryForFailure
<1>5. QED
  BY <1>3, <1>4

\* A step that changes what is known of user u only.
LEMMA FailureInvForOne ==
  ASSUME TypeOK, FailureInv, NEW u \in Users, UNCHANGED now,
         \A x \in Users : x # u => failure'[x] = failure[x] /\ failedAt'[x] = failedAt[x],
         \A t \in Threads : thread'[t] # None =>
           thread'[t].uid \in {Root, UidOf[thread'[t].user]},
         \A i \in 1 .. Len(failedAt'[u]) :
           failedAt'[u][i].at <= now /\ failedAt'[u][i].by \in {Root, UidOf[u]},
         failure'[u] = None => failedAt'[u] = <<>>,
         failure'[u] # None =>
           failure'[u].started <= now /\ CounterTracks(failure'[u], failedAt'[u]),
         Justified(u, failedAt'[u])
  PROVE  FailureInv'
<1>1. \A x \in Users : Justified(x, failedAt'[x])
  BY DEF FailureInv, LockJustified
<1>2. \A x \in Users :
        /\ \A i \in 1 .. Len(failedAt'[x]) :
             failedAt'[x][i].at <= now /\ failedAt'[x][i].by \in {Root, UidOf[x]}
        /\ failure'[x] = None => failedAt'[x] = <<>>
        /\ failure'[x] # None =>
             failure'[x].started <= now /\ CounterTracks(failure'[x], failedAt'[x])
  BY DEF FailureInv
<1>3. QED
  BY <1>1, <1>2 DEF FailureInv, LockJustified

LEMMA FailureStep == TypeOK /\ FailureInv /\ [Next]_vars => FailureInv'
<1> SUFFICES ASSUME TypeOK, FailureInv, [Next]_vars
             PROVE  FailureInv'
  OBVIOUS
<1>1. ASSUME NEW t \in Threads, NEW uid \in Uids, NEW u \in Users,
             RefuseRate(t, uid, u) \/ RefuseLocked(t, uid, u)
      PROVE  FailureInv'
  BY <1>1 DEF RefuseRate, RefuseLocked, FailureInv, LockJustified
<1>2. ASSUME NEW t \in Threads, NEW uid \in Uids, NEW u \in Users, Admit(t, uid, u)
      PROVE  FailureInv'
  <2> DEFINE e == EntryAfterCheck(u)
  <2>1. /\ failure' = [failure EXCEPT ![u] = e]
        /\ thread' = [thread EXCEPT ![t] = [uid |-> uid, user |-> u]]
        /\ UNCHANGED <<now, failedAt>>
    BY <1>2 DEF Admit
  <2>2. uid \in {Root, UidOf[u]}
    BY <1>2 DEF Admit, Asks, Authorized
  <2>3. e \in FailureCounter /\ e.started <= now /\ CounterTracks(e, failedAt[u])
    BY EntriesType, EntriesTrack
  <2> HIDE DEF e
  <2>4. /\ failure'[u] = e /\ e # None
        /\ \A x \in Users : x # u => failure'[x] = failure[x]
    BY <2>1, <2>3, NoneAssumption DEF TypeOK
  <2>5. \A v \in Threads : thread'[v] # None =>
          thread'[v].uid \in {Root, UidOf[thread'[v].user]}
    BY <2>1, <2>2 DEF TypeOK, FailureInv
  <2>6. Justified(u, failedAt'[u])
    BY <2>1 DEF FailureInv, LockJustified
  <2>7. \A i \in 1 .. Len(failedAt'[u]) :
          failedAt'[u][i].at <= now /\ failedAt'[u][i].by \in {Root, UidOf[u]}
    BY <2>1 DEF FailureInv
  <2>8. QED
    BY <2>1, <2>3, <2>4, <2>5, <2>6, <2>7, FailureInvForOne
<1>3. ASSUME NEW t \in Threads, RecordSuccess(t)
      PROVE  FailureInv'
  <2>1. PICK u \in Users : u = thread[t].user
    BY <1>3 DEF RecordSuccess, Finish, TypeOK, Admitted
  <2>2. /\ failure' = [failure EXCEPT ![u] = None]
        /\ failedAt' = [failedAt EXCEPT ![u] = <<>>]
        /\ thread' = [thread EXCEPT ![t] = None]
        /\ UNCHANGED now
    BY <1>3, <2>1 DEF RecordSuccess, Finish
  <2>3. /\ failure'[u] = None /\ failedAt'[u] = <<>>
        /\ \A x \in Users : x # u => failure'[x] = failure[x] /\ failedAt'[x] = failedAt[x]
    BY <2>2 DEF TypeOK
  <2>4. \A v \in Threads : thread'[v] # None =>
          thread'[v].uid \in {Root, UidOf[thread'[v].user]}
    BY <2>2 DEF TypeOK, FailureInv
  <2>5. Justified(u, failedAt'[u])
    BY <2>3 DEF Justified
  <2>6. \A i \in 1 .. Len(failedAt'[u]) :
          failedAt'[u][i].at <= now /\ failedAt'[u][i].by \in {Root, UidOf[u]}
    BY <2>3
  <2>7. QED
    BY <2>2, <2>3, <2>4, <2>5, <2>6, FailureInvForOne
<1>4. ASSUME NEW t \in Threads, RecordFailure(t) \/ RecordFailurePanics(t)
      PROVE  FailureInv'
  <2>1. PICK u \in Users, e \in FailureCounter, n \in FailureCounter, r \in Failure :
          Failed(u, e, n, r) /\ u = thread[t].user /\ r.by = thread[t].uid
    BY <1>4, RecordIs
  <2>2. thread' = [thread EXCEPT ![t] = None] /\ thread[t] # None
    BY <1>4, RecordIs DEF Finish
  <2> DEFINE L == failedAt[u]
             M == Append(L, r)
  <2>3. /\ L \in Seq(Failure) /\ now \in Time /\ now \in Nat
        /\ Len(L) \in Nat /\ Len(M) = Len(L) + 1 /\ M[Len(L) + 1] = r
        /\ \A i \in 1 .. Len(L) : M[i] = L[i]
    BY AppendIs DEF TypeOK, Time
  <2>4. /\ \A i \in 1 .. Len(L) : L[i].at <= now /\ L[i].by \in {Root, UidOf[u]}
        /\ Justified(u, L) /\ r.by \in {Root, UidOf[u]}
    BY <2>1, <2>2 DEF FailureInv, LockJustified
  <2>5. /\ failure'[u] = n /\ failedAt'[u] = M /\ n # None /\ UNCHANGED now
        /\ \A x \in Users : x # u => failure'[x] = failure[x] /\ failedAt'[x] = failedAt[x]
    BY <2>1, NoneAssumption DEF Failed, TypeOK
  <2>6. /\ CounterTracks(e, L) /\ e.started <= now /\ now <= e.started + FailureWindow
        /\ n.started = e.started /\ n.failures = e.failures + 1
        /\ r.at = now /\ (r.locked => n.failures >= Threshold)
    BY <2>1, EntriesTrack DEF Failed, LockAt
  <2> HIDE DEF L
  <2>7. CounterTracks(n, M)
    BY <2>3, <2>6, FailureTracks
  <2>8. Justified(u, M)
    BY <2>3, <2>4, <2>6, <2>7, FailureJustified
  <2>9. \A i \in 1 .. Len(M) : M[i].at <= now /\ M[i].by \in {Root, UidOf[u]}
    BY <2>3, <2>4, <2>6
  <2> HIDE DEF M
  <2>10. \A v \in Threads : thread'[v] # None =>
          thread'[v].uid \in {Root, UidOf[thread'[v].user]}
    BY <2>2 DEF TypeOK, FailureInv
  <2>11. QED
    BY <2>5, <2>6, <2>7, <2>8, <2>9, <2>10, FailureInvForOne
<1>5. CASE Tick
  <2>1. now \in Nat /\ now' = now + 1 /\ UNCHANGED <<failure, failedAt, thread>>
    BY <1>5 DEF Tick, TypeOK, Time
  <2>2. \A u \in Users : failure[u] # None => failure[u].started \in Nat
    BY DEF TypeOK, FailureCounter, Time
  <2>3. ASSUME NEW u \in Users, NEW i \in 1 .. Len(failedAt[u])
        PROVE  failedAt[u][i].at \in Nat
    <3>1. failedAt[u] \in Seq(Failure)
      BY DEF TypeOK
    <3>2. failedAt[u][i] \in Failure
      BY <3>1
    <3>3. QED
      BY <3>2 DEF Failure, Time
  <2>4. QED
    BY <2>1, <2>2, <2>3 DEF FailureInv, LockJustified
<1>6. CASE Restart
  BY <1>6 DEF Restart, FailureInv, LockJustified, Justified
<1>7. CASE UNCHANGED vars
  BY <1>7 DEF vars, FailureInv, LockJustified
<1>8. QED
  BY <1>1, <1>2, <1>3, <1>4, <1>5, <1>6, <1>7 DEF Next, Request, Record

LEMMA FailureAlways == Spec => [](TypeOK /\ FailureInv)
<1>1. Init => FailureInv
  BY DEF Init, FailureInv, LockJustified, Justified
<1>2. QED
  BY <1>1, TypeInit, TypeStep, FailureStep, PTL DEF Spec

\* However requests overlap, a user is locked out only by Threshold failures
\* within FailureWindow that root or he himself made.
THEOREM LockoutsJustified == Spec => []LockJustified
<1>1. FailureInv => LockJustified
  BY DEF FailureInv
<1>2. QED
  BY <1>1, FailureAlways, PTL

-----------------------------------------------------------------------------
(* Guesses are bounded, where every cooldown can be represented. *)

\* One more failure, at time m, in the window of the entry b, which locks the
\* user out from the threshold on.
LEMMA FailureLimited ==
  ASSUME NEW L \in Seq(Failure), NEW r \in Failure, r.at \in Nat,
         NEW b \in FailureCounter, GuessesTrack(b, L), b.started <= r.at,
         NEW n \in FailureCounter, n.started = b.started, n.failures = b.failures + 1,
         r.locked <=> n.failures >= Threshold,
         Limited(L)
  PROVE  GuessesTrack(n, Append(L, r)) /\ Limited(Append(L, r))
<1> DEFINE M == Append(L, r)
<1>1. /\ Len(L) \in Nat /\ Len(M) = Len(L) + 1 /\ M[Len(L) + 1] = r
      /\ \A i \in 1 .. Len(L) : M[i] = L[i]
      /\ M \in Seq(Failure)
  BY AppendIs
<1>2. /\ b.failures \in Nat /\ b.started \in Nat
      /\ Threshold \in Nat \ {0} /\ FailureWindow \in Nat
  BY GuardAssumption DEF FailureCounter, Time
<1>3. \A i \in 1 .. Len(M) : M[i].at \in Nat
  <2>1. \A i \in 1 .. Len(M) : M[i] \in Failure
    BY <1>1
  <2>2. QED
    BY <2>1 DEF Failure, Time
<1> HIDE DEF M
<1>4. n.failures >= Threshold => M[Len(M)].locked
  BY <1>1
<1>5. ASSUME NEW i \in 1 .. Len(M), i + n.failures + Threshold - 1 <= Len(M)
      PROVE  \/ M[i].at + FailureWindow < n.started
             \/ \E k \in i .. Len(M) : k + n.failures <= Len(M) /\ M[k].locked
  <2>1. i \in 1 .. Len(L) /\ i + b.failures + Threshold - 1 <= Len(L)
    BY <1>1, <1>2, <1>5
  <2>2. CASE L[i].at + FailureWindow < b.started
    BY <1>1, <2>1, <2>2
  <2>3. CASE \E k \in i .. Len(L) : k + b.failures <= Len(L) /\ L[k].locked
    <3>1. PICK k \in i .. Len(L) : k + b.failures <= Len(L) /\ L[k].locked
      BY <2>3
    <3>2. k \in 1 .. Len(L) /\ k \in i .. Len(M) /\ k + n.failures <= Len(M)
      BY <1>1, <1>2, <2>1, <3>1
    <3>3. QED
      BY <1>1, <3>1, <3>2
  <2>4. QED
    BY <2>1, <2>2, <2>3 DEF GuessesTrack
<1>6. GuessesTrack(n, M)
  BY <1>4, <1>5 DEF GuessesTrack
<1>7. ASSUME NEW i \in 1 .. Len(M), NEW j \in Nat, j = i + 2 * Threshold - 2,
             j <= Len(M), M[j].at <= M[i].at + FailureWindow
      PROVE  \E k \in i .. j : M[k].locked
  <2>1. j >= i /\ j \in 1 .. Len(M)
    BY <1>1, <1>2, <1>7
  <2>2. CASE j <= Len(L)
    <3>1. i \in 1 .. Len(L) /\ j \in 1 .. Len(L)
      BY <1>1, <2>1, <2>2
    <3>2. L[j].at <= L[i].at + FailureWindow
      BY <1>1, <1>7, <3>1
    <3>3. PICK k \in i .. j : L[k].locked
      BY <1>7, <2>2, <3>1, <3>2 DEF Limited
    <3>4. k \in 1 .. Len(L)
      BY <1>1, <3>1, <3>3
    <3>5. QED
      BY <1>1, <3>3, <3>4
  <2>3. CASE j = Len(L) + 1 /\ n.failures >= Threshold
    BY <1>1, <1>4, <2>1, <2>3
  <2>4. CASE j = Len(L) + 1 /\ ~(n.failures >= Threshold)
    <3>1. i + n.failures + Threshold - 1 <= Len(M)
      BY <1>1, <1>2, <1>7, <2>4
    <3>a. r.at <= M[i].at + FailureWindow /\ M[i].at \in Nat
      BY <1>1, <1>3, <1>7, <2>4
    <3>2. ~(M[i].at + FailureWindow < n.started)
      BY <1>2, <3>a
    <3>3. PICK k \in i .. Len(M) : M[k].locked
      BY <1>5, <3>1, <3>2
    <3>4. QED
      BY <1>1, <2>4, <3>3
  <2>5. QED
    BY <1>1, <2>1, <2>2, <2>3, <2>4
<1>8. Limited(M)
  <2>1. \A i \in 1 .. Len(M) : i + 2 * Threshold - 2 \in Nat
    BY <1>2
  <2>2. QED
    BY <1>7, <2>1 DEF Limited
<1>9. QED
  BY <1>6, <1>8 DEF M

\* The entries that the two halves of a request find.
LEMMA EntriesGuess ==
  ASSUME TypeOK, FailureInv, GuessInv, NEW u \in Users
  PROVE  /\ GuessesTrack(EntryAfterCheck(u), failedAt[u])
         /\ LockAt(EntryAfterCheck(u).failures) <=> EntryAfterCheck(u).locked_until # None
         /\ GuessesTrack(EntryForFailure(u), failedAt[u])
         /\ LockAt(EntryForFailure(u).failures) <=> EntryForFailure(u).locked_until # None
<1> DEFINE L == failedAt[u]
<1>1. /\ now \in Nat /\ FailureWindow \in Nat /\ Threshold \in Nat \ {0} /\ Len(L) \in Nat
      /\ L \in Seq(Failure)
  BY GuardAssumption DEF TypeOK, Time
<1>2. \A i \in 1 .. Len(L) : L[i].at \in Nat
  <2>1. \A i \in 1 .. Len(L) : L[i] \in Failure
    BY <1>1
  <2>2. QED
    BY <2>1 DEF Failure, Time
<1>3. /\ Unlocked.failures = 0 /\ Unlocked.started = now
      /\ LockAt(Unlocked.failures) <=> Unlocked.locked_until # None
  BY <1>1 DEF Unlocked, LockAt
<1>4. CASE failure[u] = None
  <2>1. L = <<>>
    BY <1>4 DEF FailureInv
  <2>2. GuessesTrack(Unlocked, L)
    BY <1>1, <1>3, <2>1 DEF GuessesTrack
  <2>3. QED
    BY <1>3, <1>4, <2>2 DEF EntryAfterCheck, EntryForFailure
<1>5. CASE failure[u] # None
  <2> DEFINE e == failure[u]
  <2>1. /\ e.failures \in Nat /\ e.started \in Nat /\ CounterTracks(e, L)
        /\ GuessesTrack(e, L) /\ (LockAt(e.failures) <=> e.locked_until # None)
    BY <1>5 DEF TypeOK, FailureCounter, Time, FailureInv, GuessInv, LockIffThreshold
  <2> HIDE DEF L
  <2>2. CASE e.failures >= Threshold
    <3>1. e.failures <= Len(L) /\ L[Len(L)].locked
      BY <2>1, <2>2 DEF CounterTracks, GuessesTrack
    <3>2. GuessesTrack(Unlocked, L)
      BY <1>1, <1>3, <3>1 DEF GuessesTrack
    <3>3. QED
      BY <1>3, <1>5, <2>1, <3>2 DEF EntryAfterCheck, EntryForFailure, L
  <2>3. CASE ~(e.failures >= Threshold)
    <3>1. e.locked_until = None
      BY <2>1, <2>3 DEF LockAt
    <3>2. ASSUME now - e.started > FailureWindow
          PROVE  GuessesTrack(Unlocked, L)
      <4>1. ASSUME NEW i \in 1 .. Len(L), i + Threshold - 1 <= Len(L)
            PROVE  L[i].at + FailureWindow < now
        <5>1. i + e.failures <= Len(L)
          BY <1>1, <2>1, <2>3, <4>1
        <5>2. L[i].at <= e.started
          BY <2>1, <5>1 DEF CounterTracks
        <5>3. e.started + FailureWindow < now
          BY <1>1, <2>1, <3>2
        <5>4. L[i].at \in Nat
          BY <1>2 DEF L
        <5>5. QED
          BY <1>1, <2>1, <5>2, <5>3, <5>4
      <4>2. QED
        BY <1>1, <1>3, <4>1 DEF GuessesTrack
    <3>3. QED
      BY <1>3, <1>5, <2>1, <3>1, <3>2 DEF EntryAfterCheck, EntryForFailure, L
  <2>4. QED
    BY <2>2, <2>3
<1>6. QED
  BY <1>4, <1>5

LEMMA GuessInvForOne ==
  ASSUME TypeOK, GuessInv, NEW u \in Users,
         \A x \in Users : x # u => failure'[x] = failure[x] /\ failedAt'[x] = failedAt[x],
         failure'[u] # None =>
           /\ GuessesTrack(failure'[u], failedAt'[u])
           /\ LockAt(failure'[u].failures) <=> failure'[u].locked_until # None,
         Limited(failedAt'[u])
  PROVE  GuessInv'
<1>1. \A x \in Users : Limited(failedAt'[x])
  BY DEF GuessInv, GuessesBounded
<1>2. \A x \in Users : failure'[x] # None =>
        /\ GuessesTrack(failure'[x], failedAt'[x])
        /\ LockAt(failure'[x].failures) <=> failure'[x].locked_until # None
  BY DEF GuessInv, LockIffThreshold
<1>3. QED
  BY <1>1, <1>2 DEF GuessInv, GuessesBounded, LockIffThreshold

LEMMA GuessStep ==
  ASSUME CooldownsFit
  PROVE  TypeOK /\ FailureInv /\ GuessInv /\ [Next]_vars => GuessInv'
<1> SUFFICES ASSUME TypeOK, FailureInv, GuessInv, [Next]_vars
             PROVE  GuessInv'
  OBVIOUS
<1>1. ASSUME UNCHANGED <<failure, failedAt>>
      PROVE  GuessInv'
  BY <1>1 DEF GuessInv, GuessesBounded, LockIffThreshold
<1>2. ASSUME NEW t \in Threads, NEW uid \in Uids, NEW u \in Users, Admit(t, uid, u)
      PROVE  GuessInv'
  <2>1. /\ failure'[u] = EntryAfterCheck(u) /\ UNCHANGED failedAt
        /\ \A x \in Users : x # u => failure'[x] = failure[x]
    BY <1>2 DEF Admit, TypeOK
  <2>2. Limited(failedAt'[u])
    BY <2>1 DEF GuessInv, GuessesBounded
  <2>3. QED
    BY <2>1, <2>2, EntriesGuess, GuessInvForOne
<1>3. ASSUME NEW t \in Threads, RecordSuccess(t)
      PROVE  GuessInv'
  <2>1. PICK u \in Users : u = thread[t].user
    BY <1>3 DEF RecordSuccess, Finish, TypeOK, Admitted
  <2>2. /\ failure'[u] = None /\ failedAt'[u] = <<>>
        /\ \A x \in Users : x # u => failure'[x] = failure[x] /\ failedAt'[x] = failedAt[x]
    BY <1>3, <2>1 DEF RecordSuccess, TypeOK
  <2>3. Limited(failedAt'[u])
    BY <2>2 DEF Limited
  <2>4. QED
    BY <2>2, <2>3, GuessInvForOne
<1>4. ASSUME NEW t \in Threads, RecordFailure(t) \/ RecordFailurePanics(t)
      PROVE  GuessInv'
  <2>1. PICK u \in Users, e \in FailureCounter, n \in FailureCounter, r \in Failure :
          Failed(u, e, n, r)
    BY <1>4, RecordIs
  <2>2. now \in Nat /\ CooldownRepresentable /\ now + Cooldown # None
    BY GuardAssumption, NoneAssumption DEF TypeOK, Time, CooldownsFit, CooldownRepresentable
  <2>3. /\ failure'[u] = n /\ failedAt'[u] = Append(failedAt[u], r)
        /\ \A x \in Users : x # u => failure'[x] = failure[x] /\ failedAt'[x] = failedAt[x]
    BY <2>1 DEF Failed, TypeOK
  <2>4. /\ e.started <= now /\ n.started = e.started /\ n.failures = e.failures + 1
        /\ r.at = now /\ (r.locked <=> n.failures >= Threshold)
        /\ n.locked_until = IF r.locked THEN now + Cooldown ELSE e.locked_until
        /\ GuessesTrack(e, failedAt[u])
        /\ LockAt(e.failures) <=> e.locked_until # None
    BY <2>1, <2>2, EntriesTrack, EntriesGuess DEF Failed, LockAt
  <2>5. failedAt[u] \in Seq(Failure) /\ Limited(failedAt[u])
    BY DEF TypeOK, GuessInv, GuessesBounded
  <2>6. GuessesTrack(n, failedAt'[u]) /\ Limited(failedAt'[u])
    BY <2>2, <2>3, <2>4, <2>5, FailureLimited
  <2>7. LockAt(n.failures) <=> n.locked_until # None
    <3>1. e.failures \in Nat /\ Threshold \in Nat
      BY GuardAssumption DEF FailureCounter
    <3>2. QED
      BY <2>2, <2>4, <3>1 DEF LockAt
  <2>8. QED
    BY <2>3, <2>6, <2>7, GuessInvForOne
<1>5. CASE Restart
  BY <1>5 DEF Restart, GuessInv, GuessesBounded, LockIffThreshold, Limited
<1>6. QED
  BY <1>1, <1>2, <1>3, <1>4, <1>5
  DEF Next, Request, Record, RefuseRate, RefuseLocked, Tick, vars

LEMMA GuessAlways ==
  ASSUME CooldownsFit
  PROVE  Spec => []GuessInv
<1>1. Init => GuessInv
  BY DEF Init, GuessInv, GuessesBounded, LockIffThreshold, Limited
<1>2. QED
  BY <1>1, FailureAlways, GuessStep, PTL DEF Spec

\* However requests overlap, of any 2 * Threshold - 1 failures in a row within
\* FailureWindow one locks the user out.
THEOREM GuessingBounded ==
  ASSUME CooldownsFit
  PROVE  Spec => []GuessesBounded
<1>1. GuessInv => GuessesBounded
  BY DEF GuessInv
<1>2. QED
  BY <1>1, GuessAlways, PTL

\* However requests overlap, a lockout is set exactly at the threshold.
THEOREM LocksAtThreshold ==
  ASSUME CooldownsFit
  PROVE  Spec => []LockIffThreshold
<1>1. GuessInv => LockIffThreshold
  BY DEF GuessInv
<1>2. QED
  BY <1>1, GuessAlways, PTL

-----------------------------------------------------------------------------
(* With one request per user at a time, lockouts hold. *)

LEMMA PromiseStep ==
  ASSUME OnePerUser, CooldownsFit
  PROVE  TypeOK /\ PromiseInv /\ [Next]_vars => PromiseInv'
<1> SUFFICES ASSUME TypeOK, PromiseInv, [Next]_vars
             PROVE  PromiseInv'
  OBVIOUS
<1>1. ASSUME UNCHANGED <<now, failure, thread, promised>>
      PROVE  PromiseInv'
  BY <1>1 DEF PromiseInv, InFlight
<1>2. ASSUME NEW t \in Threads, NEW uid \in Uids, NEW u \in Users, Admit(t, uid, u)
      PROVE  PromiseInv'
  <2>1. ~InFlight(u) /\ ~LockedOut(u) /\ UNCHANGED <<now, promised>>
    BY <1>2 DEF Admit, Asks
  <2>2. ~(now < promised[u])
    <3>1. promised[u] # None
      BY NoneAssumption DEF TypeOK
    <3>2. QED
      BY <2>1, <3>1 DEF PromiseInv, LockedOut
  <2>3. /\ \A x \in Users : x # u => failure'[x] = failure[x]
        /\ \A v \in Threads : v # t => thread'[v] = thread[v]
        /\ thread'[t].user = u
    BY <1>2 DEF Admit, TypeOK
  <2>4. QED
    BY <2>1, <2>2, <2>3 DEF PromiseInv, InFlight
<1>3. ASSUME NEW t \in Threads, RecordSuccess(t)
      PROVE  PromiseInv'
  <2>1. PICK u \in Users : u = thread[t].user
    BY <1>3 DEF RecordSuccess, Finish, TypeOK, Admitted
  <2>2. /\ promised'[u] = 0 /\ UNCHANGED now /\ now \in Nat
        /\ \A x \in Users : x # u => failure'[x] = failure[x] /\ promised'[x] = promised[x]
        /\ \A v \in Threads : thread'[v] # None => thread'[v] = thread[v]
    BY <1>3, <2>1 DEF RecordSuccess, Finish, TypeOK, Time
  <2>3. QED
    BY <2>2 DEF PromiseInv, InFlight
<1>4. ASSUME NEW t \in Threads, RecordFailure(t) \/ RecordFailurePanics(t)
      PROVE  PromiseInv'
  <2>1. PICK u \in Users, e \in FailureCounter, n \in FailureCounter, r \in Failure :
          Failed(u, e, n, r) /\ u = thread[t].user
    BY <1>4, RecordIs
  <2>2. now \in Nat /\ CooldownRepresentable
    BY GuardAssumption DEF TypeOK, Time, CooldownsFit, CooldownRepresentable
  <2>3. /\ failure'[u] = n /\ UNCHANGED now /\ n # None
        /\ n.locked_until = IF r.locked THEN now + Cooldown ELSE e.locked_until
        /\ promised' = [promised EXCEPT ![u] = IF r.locked THEN now + Cooldown ELSE @]
        /\ \A x \in Users : x # u => failure'[x] = failure[x]
    BY <2>1, <2>2, NoneAssumption DEF Failed, TypeOK
  <2>4. /\ promised'[u] = IF r.locked THEN now + Cooldown ELSE promised[u]
        /\ \A x \in Users : x # u => promised'[x] = promised[x]
    BY <2>3 DEF TypeOK
  <2>5. thread' = [thread EXCEPT ![t] = None] /\ thread[t] # None
    BY <1>4, RecordIs DEF Finish
  <2>6. /\ thread'[t] = None
        /\ \A v \in Threads : v # t => thread'[v] = thread[v]
    BY <2>5 DEF TypeOK
  <2>7. \A v \in Threads : v # t /\ thread[v] # None => thread[v].user # u
    BY <2>1, <2>5 DEF PromiseInv
  <2>8. ~InFlight(u)'
    BY <2>6, <2>7 DEF InFlight
  <2>9. ~(now < promised[u])
    BY <2>1, <2>5 DEF PromiseInv, InFlight
  <2>10. QED
    BY <2>3, <2>4, <2>6, <2>8, <2>9 DEF PromiseInv, InFlight
<1>5. CASE Tick
  <2>1. now \in Nat /\ now' = now + 1 /\ UNCHANGED <<failure, thread, promised>>
    BY <1>5 DEF Tick, TypeOK, Time
  <2>2. \A u \in Users : promised[u] \in Nat
    BY DEF TypeOK
  <2>3. QED
    BY <2>1, <2>2 DEF PromiseInv, InFlight
<1>6. CASE Restart
  <2>1. now \in Nat /\ UNCHANGED now /\ \A u \in Users : promised'[u] = 0
    BY <1>6 DEF Restart, TypeOK, Time
  <2>2. \A t \in Threads : thread'[t] = None
    BY <1>6 DEF Restart
  <2>3. QED
    BY <2>1, <2>2 DEF PromiseInv
<1>7. QED
  BY <1>1, <1>2, <1>3, <1>4, <1>5, <1>6
  DEF Next, Request, Record, RefuseRate, RefuseLocked, vars

\* With one request per user at a time, no request is admitted for a user
\* before his lockout ends.
THEOREM LockoutsHold ==
  ASSUME OnePerUser, CooldownsFit
  PROVE  Spec => LockoutHolds
<1> DEFINE NotEarly ==
      \A t \in Threads, uid \in Uids, u \in Users :
        now < promised[u] => ~Admit(t, uid, u)
<1>1. Init => PromiseInv
  <2>1. 0 \in Nat /\ ~(0 < 0)
    OBVIOUS
  <2>2. QED
    BY <2>1 DEF Init, PromiseInv
<1>2. TypeOK /\ PromiseInv => NotEarly
  <2> SUFFICES ASSUME TypeOK, PromiseInv, NEW t \in Threads, NEW uid \in Uids, NEW u \in Users,
                      now < promised[u]
               PROVE  ~Admit(t, uid, u)
    OBVIOUS
  <2>1. promised[u] # None
    BY NoneAssumption DEF TypeOK
  <2>2. QED
    BY <2>1 DEF PromiseInv, Admit, LockedOut
<1>3. Spec => [](TypeOK /\ PromiseInv)
  BY <1>1, TypeInit, TypeStep, PromiseStep, PTL DEF Spec
<1>4. Spec => [][NotEarly]_vars
  BY <1>2, <1>3, PTL
<1>5. QED
  BY <1>4 DEF LockoutHolds

=============================================================================
