SPECIFICATION CoreSpec
CONSTANTS
  Requests = {r1, r2}
  MaxNumSeqs = 1
  MaxTokens = 2
  GenBound = 2
  InsertFails = FALSE
  StepFails = FALSE
  ChanCap = 1
  SubmitCap = 2
  MaxConcurrent = 2
PROPERTY AbortNotLost
CHECK_DEADLOCK FALSE
