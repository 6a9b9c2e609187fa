SPECIFICATION CoreSpec
CONSTANTS
  Requests = {r1, r2}
  MaxNumSeqs = 0
  MaxTokens = 2
  GenBound = 2
  InsertFails = FALSE
  StepFails = TRUE
  ChanCap = 1
  SubmitCap = 1
  MaxConcurrent = 0
PROPERTIES
  ChannelCloses
  ContextStops
CHECK_DEADLOCK FALSE
