SPECIFICATION CoreSpec
CONSTANTS
  Requests = {r1, r2}
  MaxNumSeqs = 1
  MaxTokens = 3
  GenBound = 3
  InsertFails = FALSE
  StepFails = FALSE
  ChanCap = 1
  SubmitCap = 2
  MaxConcurrent = 2
PROPERTY HangUpFreesSlot
CHECK_DEADLOCK FALSE
