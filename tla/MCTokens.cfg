SPECIFICATION Spec
CONSTANTS
  c1 = c1
  c2 = c2
  a1 = a1
  a2 = a2
  i1 = i1
  i2 = i2
  Callers <- MCCallers
  NoCaller = NoCaller
  Ids <- MCIds
  NoId = NoId
  Agents <- MCAgents
  NoAgent = NoAgent
  TTL = 2
  MaxTTL = 1
  MaxUses = 2
  MaxNow = 2
SYMMETRY Symmetry
INVARIANTS  RevokedStays LiveTokensKept
CHECK_DEADLOCK FALSE
