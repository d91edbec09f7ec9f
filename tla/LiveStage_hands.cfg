SPECIFICATION StageSpec
CONSTANTS
  a1 = a1
  a2 = a2
  b1 = b1
  a = a
  b = b
  Tabs = {a1, a2}
  Students = {a}
  StudentOf <- MCStudentOf
  Teachers = {t1, t2}
  Tokens = {k1, k2}
  NoToken = NoToken
  NoStudent = NoStudent
  MaxRaises = 2
  MaxFailures = 1
INVARIANTS StageTypeOK  ShownIsQueuedOnce DemotedIsQuiet
SYMMETRY Symmetry
CHECK_DEADLOCK FALSE
