SPECIFICATION FairSpec
CONSTANTS
  k1 = k1 k2 = k2
  x1 = x1 x2 = x2 y1 = y1 y2 = y2
  p1 = p1 p2 = p2 p3 = p3
  Procs = {p1, p2, p3}
  Keys = {k1, k2}
  Vals = {x1, x2, y1, y2}
  Data <- DataOf3
  NHASH = 2
  Hash <- TwoChains
  KeyLen <- KeyLens
  DatLen <- DatLens
  PTR_MAX = 9
  Blank = Blank
  NULL = NULL
  Ops <- OpsKill
  Flags <- InsOnly1
  MaxCalls <- CallsKill
  SerialInserts = TRUE
  Killable = {p1}
INVARIANTS
  ChainsAgree
PROPERTIES
  CallsReturn
