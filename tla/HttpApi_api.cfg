SPECIFICATION Spec
CONSTANTS
  None = None
  Person = {ann, bob}
  Ip = {school}
  Request = {r1, r2}
  Key <- ApiKeys
  Rate <- MCRate
  Minute = 2
  MaxIdle = 2
  MaxClock = 3
  MaxArrivals = 2
  MaxBoots = 2
SYMMETRY ApiSymmetry
INVARIANTS RateKept AuditTrail RolesEarned
PROPERTIES ImplementsTokenBucket
CHECK_DEADLOCK FALSE
