\* Two logins share the cameras; any answer of the broker or none.
SPECIFICATION Spec
CONSTANTS
  Logins = {l1, l2}
  Configs <- SomeConfigs
  Retries = 2
  None = None
INVARIANTS TypeOK SuccessEarned ResultByPolicy OneVerdictPerAttempt CamerasReleased
PROPERTY LoginEnds
