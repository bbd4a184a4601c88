SPECIFICATION sesSpec
CONSTANTS
  Keys = {"esc", "dot", "susp", "hash", "t", "p", "cr", "a", "nul", "high"}
  Bodies <- TakenFiles
  MaxKeys = 3
  MaxNoise = 1
PROPERTY
  EndsOnHangup
CHECK_DEADLOCK FALSE
