SPECIFICATION FairSpec
CONSTANTS
  Callers = {c1, c2}
  Ids = {i1}
  NoId = NoId
  Cap = 2
  Floor = 3
  Providers = {"env", "dev", "aws-iam", "gcp-iam", "vault"}
  MaxProviders = 1
  MaxNow = 2
INVARIANTS
  ListedWithinCap
  
  
  RevocationScheduled
PROPERTIES
  TimersEnd
CHECK_DEADLOCK FALSE
