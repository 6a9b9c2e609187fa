SPECIFICATION CoreSpec
CONSTANTS
  Requests = {r1, r2}
  MaxNumSeqs = 1
  MaxTokens = 1
  GenBound = 1
  InsertFails = TRUE
  StepFails = FALSE
  ChanCap = 1
  SubmitCap = 2
  MaxConcurrent = 2
PROPERTY ChannelCloses
CHECK_DEADLOCK FALSE
