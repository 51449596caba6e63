\* Two requests for one user at a time, file changes, lockouts, restarts.
SPECIFICATION Spec
CONSTANTS
  alice = alice
  aliceUid = aliceUid
  bobUid = bobUid
  Root = root
  Uids = {root, aliceUid, bobUid}
  Users = {alice}
  UidOf <- AliceUid
  None = None
  Threads = {t1, t2}
  RateWindow = 1
  MaxMatches = 2
  FailureWindow = 0
  Threshold = 2
  Cooldown = 1
  LastInstant = 1
  MaxTime = 1
  OnePerUser = FALSE
  Faces <- AllFaces
  Score <- Similarity
  RequiredScore <- Policy
  Templates <- EnrolledTemplates
  Contents <- EnrolledContents
  Requests <- SomeRequests
INVARIANTS TypeOK MatchSound MatchComplete
PROPERTIES ForgottenWithReason ImplementsGuard
CHECK_DEADLOCK FALSE
VIEW stepView
SYMMETRY Threadwise
CONSTRAINT OneUnusual
