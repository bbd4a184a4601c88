SPECIFICATION Spec
CONSTANTS
  c1 = c1 c2 = c2 c3 = c3
  Clients = {c1, c2}
  Systems <- OneHost
  Devices <- OneLine
  Requests <- AskOne
  AnySpeed = AnySpeed
  NALLOC = 1
  OPEN_MAX = 100
  MaxPid = 4
  Hangup = "answered"
  NoFd = NoFd
  NoReq = NoReq
INVARIANT
  EndsAtAccept
CHECK_DEADLOCK FALSE
