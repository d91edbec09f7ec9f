SPECIFICATION Spec
CONSTANTS
  t = t
  a = a
  teacher = teacher
  assistant = assistant
  Sockets = {t, a}
  Staff = {t, a}
  Users = {teacher, assistant}
  UserOf <- MCUserOf
  Polls = {p1, p2}
  Options = {yes}
  NoPoll = NoPoll
  MaxFaults = 1
INVARIANTS TypeOK TallyIsWhatWasCast VotersAreCountedOnce ShownWasCast ScreenFollowsBroker
SYMMETRY Symmetry
CHECK_DEADLOCK FALSE
