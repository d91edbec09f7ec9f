SPECIFICATION Spec
CONSTANTS
  t = t
  s1 = s1
  s2 = s2
  teacher = teacher
  student = student
  Connections = {t, s1, s2}
  Users = {teacher, student}
  UserOf <- MCUserOf
  Staff = {t}
  NoUser = NoUser
  MaxKicks = 1
  MaxFaults = 1
INVARIANTS KickedIsTold EndIsTold ListedIsConnected ShownIsListed
CHECK_DEADLOCK FALSE
