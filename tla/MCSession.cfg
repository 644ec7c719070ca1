CONSTANTS
  srv = srv
  p1 = p1
  p2 = p2
  Peer <- ServerPeers
  Dials <- ServerDials
  HostOf <- OwnHost
  MaxRequests = 1
  MaxPeers = 2
  MaxIncoming = 1
  MaxPending = 2
  MaxPendingPerHost = 0
  Interactive <- Server
  WrongPassword <- NoOne
  DataKinds <- AnyData
  DialBudget = 2
  CloseBudget = 1
  TalkBudget = 1
SPECIFICATION Spec
INVARIANTS TypeOK ReportsMakeSense IncomingLimit UpMeansOpen HeldMeansWaiting
SYMMETRY DialSymmetry
CHECK_DEADLOCK FALSE
