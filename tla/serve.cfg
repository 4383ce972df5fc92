SPECIFICATION FairSpec
CONSTANTS
  r1 = r1
  r2 = r2
  r3 = r3
  Requests = {r1, r2, r3}
  NoRequest = none
  PromptLens <- MCPromptLens
  MaxTokens <- MCMaxTokens
  MaxSeqLen <- MCMaxSeqLen
  ReqCapacity = 1
  RespCapacity = 1
  MayMisdecode = TRUE
CHECK_DEADLOCK FALSE
INVARIANTS
  TypeOK
  StreamContinuity
  FinishedLeavesNothing
  InputPinnedUnlessGivenUp
PROPERTIES
  RequestsEnd
  StopJoins
  ImplementsService
