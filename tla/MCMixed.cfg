SPECIFICATION FairSpec
CONSTANTS
  m1 = m1
  m2 = m2
  m3 = m3
  Messages = {m1, m2, m3}
  None = None
  Reliability <- MixedReliability
  NumberSpan = 10
  ResendBufferLength = 1
  HistoryLength = 1
  MaxPerDatagram = 2
  NakLimit = 2
  SkipLimit = 3
  HoleLimit = 2
  Start = 7
  Lifetime = 3
  MaxFaults = 1
CHECK_DEADLOCK FALSE
INVARIANTS ReceiptsTruthful ReceiptKept
PROPERTIES EventuallyDelivered EventuallyReleased ImplementsChannel
