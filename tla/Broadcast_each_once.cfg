SPECIFICATION Spec
CONSTANTS
  None = None
  Recipient = {1, 2}
  BroadcastId = {1}
  Process = {p1}
  Worker = {w1}
  Batch = 2
  MaxBoots = 2
INVARIANTS EachOnce
CHECK_DEADLOCK FALSE
