CONSTANTS
  c1 = c1
  c2 = c2
  c3 = c3
  Client <- Three
  Asks <- AskEachOther
  Leavers <- Third
  Strideless <- First
  Retrying <- Third
  SessionSpan = 65536
  AskBudget = 2
SPECIFICATION FairSpec
INVARIANTS TypeOK NoIdlePair OneAtATime
CHECK_DEADLOCK FALSE
 
