SPECIFICATION ProgSpec
CONSTANTS
  NLOOPS = 7
  Pids = {1, 2, 3}
  Chars = 3
  File <- Job
  OBSIZE = 2
  Pages = {0, 1}
  MaxItems = 2
  MaxInt = 2
  MBSIZE = 3
  MaxSeen = 7
  MAXLINE = 4
  Good = {"g1", "g2"}
  Bad = {"b"}
  ErrCodes <- OpenErrs
  MaxOpens = 3
  Clients = {"c1", "c2"}
  Names = {"g", "b"}
  Openable = {"g"}
  NALLOC = 1
  MaxAsks = 2
  SlaveOut <- SlaveLine
  Typed <- UserLine
  BUFFSIZE = 2
  Ptys <- PtyLists
  Keys = {"esc", "dot", "susp", "hash", "t", "p", "cr", "a", "nul", "high"}
  Bodies <- TakenFiles
  MaxKeys = 3
  MaxNoise = 1
  Expsends <- Conversations
  Phones <- Numbers
  Heard = {"a", "b", "cr"}
  MaxHeard = 4
  MaxPopen = 3
  MaxIntr = 2
  MaxSig = 2
INVARIANTS
  TurnsAlternate
  DemosAgree
  OneDaemon
  WholeJob
  JobAccounted
  ParsesRight
  AnswerRight
  ClientsServed
  CopiesInOrder
  TerminalRight
  KeysSent
  ExpectFound
  SaysAll
  StatusRight
  AlarmKept
PROPERTIES
  Terminated
  JobDone
  Answered
  BothEnd
  PcloseEnds
  TimeUp
CHECK_DEADLOCK FALSE
