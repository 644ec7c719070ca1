SPECIFICATION FairSpec
CONSTANTS
  m1 = m1
  m2 = m2
  m3 = m3
  Messages = {m1, m3}
  Size <- Sizes
  Ladder <- ThreeRungs
  PathSizes = {2, 3}
  Threshold = 2
  IdSpan = 16
  StartId = 15
  HoleLimit = 20
  ResendBufferLength = 4
  MaxFaults = 2
CHECK_DEADLOCK FALSE
INVARIANTS TypeOK NeverGarbled NothingMissing
PROPERTY EventuallyAcknowledged
