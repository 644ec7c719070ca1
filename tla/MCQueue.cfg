SPECIFICATION Spec
CONSTANTS
  Levels = 3
  MaxFragments = 3
  MaxMessages = 7
CHECK_DEADLOCK FALSE
INVARIANT HeapOrdered
