SPECIFICATION Spec
CONSTANTS
  None = None
  Recipient = {1, 2, 3}
  BroadcastId = {1}
  Process = {p1, p2}
  Worker = {w1, w2}
  Batch = 2
  MaxBoots = 2
SYMMETRY AllSymmetry
INVARIANTS AudienceReached OneWorkerPerProcess
CHECK_DEADLOCK FALSE
