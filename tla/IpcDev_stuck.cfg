SPECIFICATION FairSpec
CONSTANT NLOOPS = 4
PROPERTY
  Terminates
CHECK_DEADLOCK FALSE
