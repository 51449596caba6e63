\* One request per user at a time; late cooldowns end beyond the last instant.
SPECIFICATION Spec
CONSTANTS
  alice = alice
  aliceUid = aliceUid
  bobUid = bobUid
  Root = root
  Uids = {root, aliceUid, bobUid}
  Users = {alice}
  UidOf <- AliceUid
  None = None
  Threads = {t1, t2}
  RateWindow = 1
  MaxMatches = 2
  FailureWindow = 2
  Threshold = 2
  Cooldown = 3
  LastInstant = 7
  MaxTime = 5
  OnePerUser = TRUE
INVARIANTS TypeOK BurstBounded
PROPERTY LockoutHolds
CHECK_DEADLOCK FALSE
VIEW serialView
