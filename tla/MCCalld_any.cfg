SPECIFICATION Spec
CONSTANTS
  c1 = c1 c2 = c2 c3 = c3
  Clients = {c1, c2, c3}
  Systems <- OneHost
  Devices <- OneLine
  Requests <- AskOrMiss
  AnySpeed = AnySpeed
  NALLOC = 1
  OPEN_MAX = 9
  MaxPid = 3
  Hangup = "any"
  NoFd = NoFd
  NoReq = NoReq
SYMMETRY SameClients
INVARIANTS
  HandlerReturns
PROPERTY
  DialStarts
CHECK_DEADLOCK FALSE
