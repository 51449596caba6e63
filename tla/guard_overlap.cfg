\* Requests of one user overlap.
SPECIFICATION Spec
CONSTANTS
  alice = alice
  aliceUid = aliceUid
  bobUid = bobUid
  Root = root
  Uids = {root, aliceUid, bobUid}
  Users = {alice}
  UidOf <- AliceUid
  None = None
  Threads = {t1, t2}
  RateWindow = 1
  MaxMatches = 2
  FailureWindow = 2
  Threshold = 2
  Cooldown = 1
  LastInstant = 10
  MaxTime = 6
  OnePerUser = FALSE
INVARIANTS LockIffThreshold LockJustified GuessesBounded
VIEW overlapView
CONSTRAINT FewFailures
CHECK_DEADLOCK FALSE
