\* Requests of one user overlap: a lockout can end early.
SPECIFICATION Spec
CONSTANTS
  alice = alice
  aliceUid = aliceUid
  bobUid = bobUid
  Root = root
  Uids = {root, aliceUid, bobUid}
  Users = {alice}
  UidOf <- AliceUid
  None = None
  Threads = {t1, t2}
  RateWindow = 1
  MaxMatches = 2
  FailureWindow = 2
  Threshold = 2
  Cooldown = 4
  LastInstant = 20
  MaxTime = 5
  OnePerUser = FALSE
PROPERTY LockoutHolds
CHECK_DEADLOCK FALSE
