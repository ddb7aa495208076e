SPECIFICATION Spec
CONSTANTS
  t1 = t1
  t2 = t2
  Threads = {t1, t2}
  NoThread = NoThread
  Body = {b}
  Damaged = Damaged
  Window = 1
  MaxLen = 3
  MaxWall = 1
  MaxTime = 3
  MaxDamage = 0
INVARIANT
  PrunedChainVerifies
