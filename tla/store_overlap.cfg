\* Admin requests on two threads at once, legacy files included.
SPECIFICATION Spec
CONSTANTS
  a = a
  b = b
  Users = {u1}
  Samples = {a, b}
  Workers = {w1, w2}
  Pids = {p1}
  MaxId = 2
  InitialFiles <- AnyFiles
  Overlap = TRUE
  Idle = Idle
  Absent = Absent
  Partial = Partial
INVARIANTS NeverTorn TmpExclusive UniqueIds
CHECK_DEADLOCK FALSE
VIEW fileView
CONSTRAINT OneUnsynced
