SPECIFICATION Spec
CONSTANTS
  c1 = c1
  c2 = c2
  Clients <- MCClients
  NoClient = NoClient
  Policies = {p}
  Actions = {a}
  Agents = {g}
  TTL = 2
  Lag = 1
  RingSize = 2
  DefaultLimit = 1
  MaxNow = 3
  MaxAppends = 3
SYMMETRY Symmetry
INVARIANTS TypeOK DenyTakesHold KeyCacheCoherent AuditEventsExact ShutdownDrains
