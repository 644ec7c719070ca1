SPECIFICATION Spec
CONSTANTS
  m1 = m1
  m2 = m2
  m3 = m3
  Messages = {m1, m2, m3}
  None = None
  Reliability <- AllReliable
  NumberSpan = 10
  ResendBufferLength = 2
  HistoryLength = 1
  MaxPerDatagram = 2
  NakLimit = 2
  SkipLimit = 3
  HoleLimit = 2
  Start = 8
  Lifetime = 3
  MaxFaults = 3
CHECK_DEADLOCK FALSE
SYMMETRY Symmetry
INVARIANTS TypeOK ExactlyOnce ReleasedOnlyWhenDelivered ReceiveWindow HistoryAligned ResendListMatchesBuffer DeliveryInv
