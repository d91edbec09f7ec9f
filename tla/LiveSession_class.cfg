SPECIFICATION FairSpec
CONSTANTS
  s1 = s1  s2 = s2  a1 = a1  a2 = a2
  c1 = c1  c2 = c2  t1 = t1  t2 = t2  org = org
  Sessions = {s1, s2, a1}
  Planned = {s1, s2}
  Courses = {c1, c2}
  Teachers = {t1, t2}
  Tenants = {org}
  CourseOf <- MCCourseOf
  TeacherOf <- MCTeacherOf
  TenantOf <- MCTenantOf
  Requests = {r1, r2}
  NoRequest = NoRequest
  MinuteLimit <- MCMinuteLimit
  Minutes <- MCMinutes
  Starts <- MCStarts
  PatchStatuses = {"cancelled"}
  PatchMinutes = {}
  WindowBefore = 0
  WindowAfter = 2
  NonceTtl = 2
  MonthLength = 2
  MaxTime = 2
  MaxNonce = 2
CHECK_DEADLOCK FALSE
INVARIANTS SpentCredentialNeverMatches
PROPERTIES EveryStartIsMetered RequestsReturn ImplementsLiveClass
