SPECIFICATION Spec
CONSTANTS
  r1 = r1
  r2 = r2
  r3 = r3
  Requests = {r1, r2}
  NoRequest = none
  PromptLens <- MCPromptLens
  MaxTokens <- MCMaxTokens
  MaxSeqLen <- MCMaxSeqLen
  ReqCapacity = 1
  RespCapacity = 1
  MayMisdecode = FALSE
CHECK_DEADLOCK FALSE
INVARIANTS
  InputPinnedAtLaunch
