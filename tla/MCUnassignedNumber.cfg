SPECIFICATION Spec
CONSTANTS
  m1 = m1
  m2 = m2
  m3 = m3
  Messages = {m1, m2, m3}
  None = None
  Reliability <- ReceiptReliability
  NumberSpan = 10
  ResendBufferLength = 2
  HistoryLength = 2
  MaxPerDatagram = 2
  NakLimit = 2
  SkipLimit = 3
  HoleLimit = 2
  Start = 9
  Lifetime = 3
  MaxFaults = 1
CHECK_DEADLOCK FALSE
INVARIANT ReleasedOnlyWhenDelivered
