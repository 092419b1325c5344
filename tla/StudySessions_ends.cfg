SPECIFICATION FairSpec
CONSTANTS
  User = {u1}
  SessionId = {s1, s2}
  Request = {p1, p2}
  Admin = {a1, a2}
  None = None
  MinuteLength = 1
  DayLength = 1
  MinStreakSessionMinutes = 1
  PatchMinutes = {1}
  MaxClock = 0
  MaxCorrections = 1
  WeekDays = 7
  SessionCap = 720
PROPERTIES RequestsEnd CorrectionsEnd
