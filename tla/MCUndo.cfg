SPECIFICATION Spec
CONSTANTS
  c1 = c1
  c2 = c2
  a1 = a1
  a2 = a2
  Conns <- MCConns
  Agents <- OneAgent
  Files = {1}
  MaxTip = 2
  MaxWrites = 1
  MaxOps = 3
  MaxComps = 2
SYMMETRY ConnSymmetry
INVARIANTS TypeOK SuccessMeansUndone ExecutedWorked
CHECK_DEADLOCK FALSE
