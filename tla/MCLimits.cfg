SPECIFICATION LimitsSpec
CONSTANTS
  k1 = k1
  k2 = k2
  Keys <- MCKeys
  PerMin = 1
  MaxTokens = 2
  Costs = {1, 2}
  Minute = 2
  StaleAfter = 2
  PruneAbove = 1
  PruneEvery = 2
  MaxNow = 4
SYMMETRY Symmetry
INVARIANTS RateBound 
CHECK_DEADLOCK FALSE
