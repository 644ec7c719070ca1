CONSTANTS
  srv = srv
  p1 = p1
  p2 = p2
  Peer <- CrossPeers
  Dials <- CrossDials
  HostOf <- OwnHost
  MaxRequests = 1
  MaxPeers = 1
  MaxIncoming = 1
  MaxPending = 0
  MaxPendingPerHost = 0
  Interactive <- NoOne
  WrongPassword <- NoOne
  DataKinds <- NoOne
  DialBudget = 2
  CloseBudget = 0
  TalkBudget = 0
SPECIFICATION FairSpec
PROPERTIES ConnectAnswered
CHECK_DEADLOCK FALSE
