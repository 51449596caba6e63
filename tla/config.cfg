\* Two processes read and write the configuration.
SPECIFICATION Spec
CONSTANTS
  Cameras = {"video0", "video2"}
  Procs = {p1, p2}
  InitialFiles <- SomeFiles
  MaxWrites = 2
  Blank = Blank
  None = None
  Torn = Torn
INVARIANTS TypeOK SavedConfigsLoad DaemonsCurrent
PROPERTY WholeBackup
SYMMETRY Symmetry
CHECK_DEADLOCK FALSE
