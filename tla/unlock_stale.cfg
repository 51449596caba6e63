\* An earlier scan unlocks a later lock.
SPECIFICATION SafetySpec
CONSTANTS
  Scans = {s1, s2}
  Configs <- SomeConfigs
  Retries = 2
  MaxSignals = 2
  None = None
PROPERTY UnlocksOwnLock
