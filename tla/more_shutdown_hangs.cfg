SPECIFICATION FairSpec
CONSTANTS
  RingMax = 1
  ChanMax = 1
  Ids = 5
PROPERTIES
  ShutdownCompletes
CHECK_DEADLOCK FALSE
