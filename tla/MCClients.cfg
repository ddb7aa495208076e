SPECIFICATION FairSpec
CONSTANTS
  p1 = p1
  p2 = p2
  t1 = t1
  Py = {p1, p2}
  Ts = {t1}
  MaxSocks = 2
  NoWorker = NoWorker
  MaxActs = 2
INVARIANTS LinksOwnPre RecordedFirst RecordedOnce
 
CHECK_DEADLOCK FALSE
