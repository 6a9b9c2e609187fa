SPECIFICATION FairHttpSpec
CONSTANTS
  AuthOn = TRUE
  Defaults <- NoEngineDefaults
  Fallback <- HardCoded
  White = {"space"}
  Calls = {c1}
  Requests <- MCRequests
  Pieces = {"word", "space"}
  GenBound = 3
  MaxConcurrent = 1
INVARIANTS
  AnswersWellFormed
PROPERTIES
  ImplementsAnswer
  
CHECK_DEADLOCK FALSE
