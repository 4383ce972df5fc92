SPECIFICATION FairSpec
CONSTANTS
  Threads = {t1, t2}
  Owners = {Ingress, Scheduler}
  InitialOwner = Ingress
  Callbacks = {a, b, c}
  HasDeadline = TRUE
  EndsBetweenSteps = TRUE
CHECK_DEADLOCK FALSE
INVARIANTS
  TypeOK
  LIFOExactlyOnce
  NoCallbackDuringStep
  ReasonFitsState
PROPERTIES
  AllCallbacksRun
