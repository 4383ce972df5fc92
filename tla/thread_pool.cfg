SPECIFICATION FairSpec
CONSTANTS
  Workers = {w1, w2}
  Clients = {c1, c2}
  Tasks = {f1, f2, f3}
  NoTask = notask
CHECK_DEADLOCK FALSE
INVARIANTS
  TypeOK
  TasksTakenInOrder
  NoWakeupLost
PROPERTIES
  TasksTaken
  DestructorReturns
