\* Two admin requests at once on counted files.
SPECIFICATION Spec
CONSTANTS
  a = a
  b = b
  Users = {u1}
  Samples = {a}
  Workers = {w1, w2}
  Pids = {p1, p2}
  MaxId = 3
  InitialFiles <- CountedFiles
  Overlap = TRUE
  Idle = Idle
  Absent = Absent
  Partial = Partial
PROPERTY NeverReusesRemovedId
CHECK_DEADLOCK FALSE
