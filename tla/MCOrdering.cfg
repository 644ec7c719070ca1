SPECIFICATION FairSpec
CONSTANTS
  IndexSpan = 16
  HeapSpan = 4
  Start = 14
  MaxMessages = 5
  MaxSequenced = 3
  MaxDuplicates = 1
CHECK_DEADLOCK FALSE
INVARIANTS TypeOK OutputInSendOrder OrderedWithoutGap
PROPERTY OrderedDelivered
