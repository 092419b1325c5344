SPECIFICATION WorkSpec
CONSTANTS
  User = {u1}
  SessionId = {s1}
  Request = {p1}
  Admin = {a1}
  None = None
  MinuteLength = 1
  DayLength = 2
  MinStreakSessionMinutes = 1
  PatchMinutes = {0, 1}
  MaxClock = 4
  MaxCorrections = 1
  WeekDays = 7
  SessionCap = 720
SYMMETRY AllSymmetry
INVARIANT InvalidNotCounted
CHECK_DEADLOCK FALSE
