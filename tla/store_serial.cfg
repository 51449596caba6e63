\* One admin command at a time; crashes, power loss, failing I/O.
SPECIFICATION Spec
CONSTANTS
  a = a
  b = b
  Users = {u1}
  Samples = {a}
  Workers = {w1, w2}
  Pids = {p1, p2}
  MaxId = 2
  InitialFiles <- CountedFiles
  Overlap = FALSE
  Idle = Idle
  Absent = Absent
  Partial = Partial
INVARIANTS TypeOK AckedEnrollmentKept RemovedStaysRemoved
PROPERTIES NeverReusesId ImplementsRegistry
CHECK_DEADLOCK FALSE
