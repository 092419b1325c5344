SPECIFICATION FairSpec
CONSTANTS
  LastUpdate = 2
  Slots = 1
  Buffer = 1
  MaxPosts = 2
  MaxBoots = 2
INVARIANTS TypeOK CleanStop Accounted
PROPERTIES EveryUpdateSettled StopEnds
CHECK_DEADLOCK FALSE
