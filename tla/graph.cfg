SPECIFICATION Spec
CONSTANTS
  Threads = {t1, t2}
  Nobody = nobody
  Streams = {s1, s2}
  Events = {e1, e2, e3}
  NoEvent = noevent
  Shapes <- MCShapes
  NoShape = noshape
  NumBlocks = 2
  TokensPerBlock = 2
  PoolCapacity = 2
  MaxQueued = 2
  LaunchMayFail = FALSE
  CapturesUninterrupted = TRUE
CHECK_DEADLOCK FALSE
INVARIANTS
  TypeOK
  BlocksConserved
  EventsOwnedOnce
  RunningLaunchesHeld
  GraphFitsShape
PROPERTIES
  DestroyedIdle
