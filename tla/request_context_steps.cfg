SPECIFICATION Spec
CONSTANTS
  Threads = {t1, t2}
  Owners = {Ingress}
  InitialOwner = Ingress
  Callbacks = {a}
  HasDeadline = FALSE
  EndsBetweenSteps = FALSE
CHECK_DEADLOCK FALSE
INVARIANTS
  NoCallbackDuringStep
