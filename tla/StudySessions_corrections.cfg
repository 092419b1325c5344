SPECIFICATION Spec
CONSTANTS
  User = {u1}
  SessionId = {s1, s2}
  Request = {p1}
  Admin = {a1, a2}
  None = None
  MinuteLength = 1
  DayLength = 1
  MinStreakSessionMinutes = 1
  PatchMinutes = {0, 1}
  MaxClock = 2
  MaxCorrections = 2
  WeekDays = 7
  SessionCap = 720
SYMMETRY AllSymmetry
INVARIANTS TypeOK StreakBacked AuditChain
PROPERTY ImplementsLifecycle
CHECK_DEADLOCK FALSE
