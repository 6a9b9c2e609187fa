SPECIFICATION CoreSpec
CONSTANTS
  Requests = {r1, r2}
  MaxNumSeqs = 1
  MaxTokens = 3
  GenBound = 3
  InsertFails = FALSE
  StepFails = TRUE
  ChanCap = 1
  SubmitCap = 1
  MaxConcurrent = 2
SYMMETRY Symmetry
INVARIANTS
  DeliveredExactly
PROPERTIES
  ImplementsStream
  
CHECK_DEADLOCK FALSE
