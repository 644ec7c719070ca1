CONSTANTS
  peer1 = peer1
  peer2 = peer2
  peer3 = peer3
  Peer <- Three
  Elder <- Ages
  Dials <- Triangle
  Resetter <- Middle
  Chance <- Lots
  RandomSpan = 3
  LinkBudget = 3
  UpsetBudget = 1
SPECIFICATION Spec
INVARIANTS TypeOK HostAgreed
CHECK_DEADLOCK FALSE
