SPECIFICATION FairSpec
CONSTANTS
  c1 = c1 c2 = c2 c3 = c3
  Clients = {c1, c2}
  Systems <- TwoHosts
  Devices <- TwoLines
  Requests <- AskOne
  AnySpeed = AnySpeed
  NALLOC = 2
  OPEN_MAX = 100
  MaxPid = 4
  Hangup = "settled"
  NoFd = NoFd
  NoReq = NoReq
PROPERTY
  Reaped
CHECK_DEADLOCK FALSE
