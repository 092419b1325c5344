SPECIFICATION LastingSpec
CONSTANTS
  None = None
  Recipient = {1, 2}
  BroadcastId = {1, 2}
  Process = {p1}
  Worker = {w1, w2}
  Batch = 1
  MaxBoots = 2
INVARIANTS OnceUntilDeath OneRunningRow DoneTally
PROPERTIES BroadcastsEnd
CHECK_DEADLOCK FALSE
