SPECIFICATION Spec
CONSTANTS
  User = {u1}
  SessionId = {s1, s2}
  Request = {p1, p2}
  Admin = {}
  None = None
  MinuteLength = 2
  DayLength = 2
  MinStreakSessionMinutes = 2
  PatchMinutes = {0, 1}
  MaxClock = 6
  MaxCorrections = 0
  WeekDays = 2
  SessionCap = 1
SYMMETRY RequestSymmetry
INVARIANTS LifetimesDisjoint OneRecorderPerSession MinutesCounted BoardAgrees DaysAddUp
PROPERTY ImplementsLifecycle
CHECK_DEADLOCK FALSE
