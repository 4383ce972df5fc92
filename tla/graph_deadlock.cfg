SPECIFICATION FairSpec
CONSTANTS
  Threads = {t1, t2}
  Nobody = nobody
  Streams = {s1}
  Events = {e1}
  NoEvent = noevent
  Shapes <- MCShapes
  NoShape = noshape
  NumBlocks = 2
  TokensPerBlock = 2
  PoolCapacity = 1
  MaxQueued = 2
  LaunchMayFail = FALSE
  CapturesUninterrupted = TRUE
CHECK_DEADLOCK FALSE
PROPERTIES
  CallsReturn
