SPECIFICATION Spec
CONSTANTS
  Addrs <- MCAddrs
  Entry = 10
  INT3 = INT3
  MaxTid = 2
  CanClone = TRUE
  CanExit = TRUE
  MaxSignals = 1
  Clients = {c1, c2}
  NoClient = NoClient
  NoReq = NoReq
  NoBp = NoBp
  BadAddr <- MCBadAddr
  Requests <- MCThreadRequests
SYMMETRY ClientSymmetry
INVARIANTS
  TextPristine
  OrigInstrGenuine
  OnlyStoppedPidHeld
  NoDerail
  RegsFresh
  TopOfStackOfCurrentProcess
  Inv
CHECK_DEADLOCK FALSE
