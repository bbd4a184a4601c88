SPECIFICATION Spec
CONSTANTS
  c1 = c1 c2 = c2 c3 = c3
  Clients = {c1, c2, c3}
  Systems <- TwoHosts
  Devices <- TwoLines
  Requests <- AskTwo
  AnySpeed = AnySpeed
  NALLOC = 2
  OPEN_MAX = 100
  MaxPid = 3
  Hangup = "settled"
  NoFd = NoFd
  NoReq = NoReq
SYMMETRY SameClients
INVARIANTS
  LineExclusive
  EndsAtAccept
  LocksOwned
  AnswersMatch
  RetriesAdvance
  DialsUnderLock
CHECK_DEADLOCK FALSE
