SPECIFICATION Spec
CONSTANTS
  k1 = k1
  k2 = k2
  Keys <- MCKeys
  PerMin = 1
  MaxTokens = 1
  Minute = 1
  StaleAfter = 1
  PruneAbove = 0
  PruneEvery = 1
  MaxConns = 1
  Costs = {1}
  MaxStarts = 2
  MaxNow = 1
INVARIANT NothingServedAfterStop
CHECK_DEADLOCK FALSE
