SPECIFICATION Spec
CONSTANTS
  Addrs <- MCAddrs
  Entry = 10
  INT3 = INT3
  MaxTid = 1
  CanClone = FALSE
  CanExit = FALSE
  MaxSignals = 0
  Clients = {c1, c2}
  NoClient = NoClient
  NoReq = NoReq
  NoBp = NoBp
  BadAddr <- MCBadAddr
  Requests <- MCServedRequests
SYMMETRY ClientSymmetry
INVARIANTS
  NoCallAbandoned
