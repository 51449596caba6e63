\* The menu, a shell and an administrator change PAM files, one command at a time.
SPECIFICATION MenuSpec
CONSTANTS
  Files = {"sudo", "kde"}
  Vendor <- VendorFiles
  InitialFiles <- SomeFiles
  SudoFiles = {"sudo"}
  SessionServices = {"kde"}
  Typed = {"sudo"}
  Bodies = {"b1", "b2"}
  Procs = {"menu", "shell"}
  Console = "menu"
  People = {alice}
  Items <- SomeItems
  MaxBackups = 3
  MaxTime = 3
  MaxEvents = 4
  MaxWorking = 1
  None = None
INVARIANTS TypeOK FilesNeverEmptied RecoveryPossible
INVARIANTS MenuTypeOK LaunchedAsAgreed
PROPERTIES EmergencyRemovesKnown TogglesAlike
CHECK_DEADLOCK FALSE
CONSTRAINTS ClockBehind FullFirst
