\* Locks, unlocks, stops and starts while up to three scans run.
SPECIFICATION Spec
CONSTANTS
  Scans = {s1, s2, s3}
  Configs <- SomeConfigs
  Retries = 3
  MaxSignals = 2
  None = None
INVARIANTS TypeOK ScanOfPresentLock CancelledScanStops
PROPERTY ScansEnd
