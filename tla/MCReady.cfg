CONSTANTS
  a = a
  b = b
  c = c
  Peer <- Pair
  SetBudget = 3
  WaitBudget = 4
  LeaveBudget = 2
SPECIFICATION FairSpec
INVARIANTS TypeOK StatusKnown
PROPERTIES AllReadyCompletes ForceHeard
CHECK_DEADLOCK FALSE
