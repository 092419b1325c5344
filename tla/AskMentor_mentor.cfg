SPECIFICATION Spec
CONSTANTS
  User = {u1, u2}
  Question = {q1, q2, q3}
  Ambiguous = {q3}
  Asker = {g1, g2}
  None = None
  HistoryCap = 4
  SendWindow = 2
  RetryMax = 1
  CacheMax = 1
  CacheTTL = 0
  MaxClock = 1
SYMMETRY AskerSymmetry
INVARIANTS TypeOK DialogPaired PromptAlternates AnswerFits CacheContextFree CacheBounded
CHECK_DEADLOCK FALSE
