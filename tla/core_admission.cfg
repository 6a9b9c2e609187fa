SPECIFICATION CoreSpec
CONSTANTS
  Requests = {r1, r2, r3}
  MaxNumSeqs = 2
  MaxTokens = 1
  GenBound = 1
  InsertFails = TRUE
  StepFails = FALSE
  ChanCap = 1
  SubmitCap = 2
  MaxConcurrent = 2
SYMMETRY Symmetry
INVARIANTS
  SubmitSound
CHECK_DEADLOCK FALSE
