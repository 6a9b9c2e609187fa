SPECIFICATION SafetySpec
CONSTANTS
  Requests = {r1, r2, r3}
  MaxNumSeqs = 2
  MaxTokens = 2
  GenBound = 3
  InsertFails = TRUE
  StepFails = TRUE
SYMMETRY Symmetry
INVARIANTS
  Consistent
  AdmissionFair
  
  StreamExact
PROPERTY EndIsFinal
