SPECIFICATION Spec
CONSTANTS
  Requests = {r1, r2}
  Attempts = {a1, a2}
  Lessons = {l1, l2}
  FirstLessons = {l1}
  Settings <- MCSettings
  Cap = 1
  Versions = 2
  Size <- MCSize
  NoAttempt = NoAttempt
  NoLesson = NoLesson
  MaxEdits = 1
  MaxFaults = 1
INVARIANTS AttemptsAreCounted ReportedIsStored
PROPERTIES ScoreIsFinal CompletionIsOffered
SYMMETRY Symmetry
CHECK_DEADLOCK FALSE
