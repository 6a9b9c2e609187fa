\* Fourteen checkpoints and ten incomplete ones, two sequences of up to four
\* tokens; or three sequences in the generator with prompts of one to three
\* tokens and every kind of failure, after which the caller removes what is active.
CONSTANTS
    Cases <- MCCases
    NextTokens = {1}
    MaxLen = 4
    SortFrom = 9
    PromptLens = {1, 2, 3}
    WarmLens = {0}
    Caps = {0, 2}
    MaxInserts = 3
    MaxTokens = 3
    BatchDecoder = TRUE
    BatchPrefiller = TRUE
    StepFails = TRUE
SPECIFICATION ComputeSpec
INVARIANTS SeesItsTokens ServesSoundly GeneratorSound
PROPERTIES RowsAlone ImplementsSeam
CHECK_DEADLOCK FALSE
