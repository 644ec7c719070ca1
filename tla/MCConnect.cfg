CONSTANTS
  srv = srv
  p1 = p1
  p2 = p2
  Peer <- CrossPeers
  Dials <- OneDials
  HostOf <- OwnHost
  MaxRequests = 2
  MaxPeers = 1
  MaxIncoming = 1
  MaxPending = 0
  MaxPendingPerHost = 0
  Interactive <- NoOne
  WrongPassword <- OneDials
  DataKinds <- AnyData
  DialBudget = 2
  CloseBudget = 1
  TalkBudget = 1
SPECIFICATION FairSpec
PROPERTIES ConnectAnswered SlotsSettle
CHECK_DEADLOCK FALSE
