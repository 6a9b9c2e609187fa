SPECIFICATION Spec
CONSTANTS
    OpenTag <- MCOpenTag
    CloseTag <- MCCloseTag
    Thoughts <- MCThoughts
    ChunkBound = 3
    Marker <- MCMarker
    Contents <- MCContents
    MaxChunk = 3
    Window = 9
    Systems <- MCSystems
    Turns <- MCTurns
    LongestTalk = 3
    Options <- MCOptions
    Items <- MCItems
    Inputs <- MCInputs
    LongestList = 4
    Earlier <- MCEarlier
    Chats <- MCChats
    LongestChat = 3
    Templates <- MCTemplates
    Collectors = {c1}
    Interval = 2
    MaxPuts = 4
    MaxClears = 1
    Cancels = TRUE
    PoolModels = {1, 2, 3}
    ModelSize <- MCModelSize
    Readings <- MCReadings
    Others = 1
    LastTime = 1
    Keys = {k1, k2}
    Engines = {e1, e2}
    p1 = p1
    p2 = p2
    Prompts = {p1, p2}
    Total <- MCTotal
    Phases = {"prefill", "score"}
    ModelOf <- MCModelOf
    MaxReports = 4
    kvStep = 2
    Windows <- MCWindows
    LongestStep = 3
    LastToken = 8
    Chars = {"s", "t", "a"}
    Texts <- MCTexts
    Stops <- MCStops
    Caps = {0, 3}
    TokenBound = 4
    Tensors <- AllTensors
    Models <- MCModels
    Levels = {4, 6, 7, 8, 16}
    GroupSize = 64
    Estimates <- MCEstimates
    Weights <- MCWeights
    LayerNames = {"x", "y", "z"}
    StoredKeys <- MCStored
    Pieces <- MCPieces
    Viewers = {v1, v2}
    Recorded = {"RecordLoad"}
    MostRecorded = 2
    Spans = {1, 3}
    MaxSnapshots = 2
    MinInterval = 2
    LongestTime = 3
    ModelIDs = {a, b}
    NoModel = none
    Completions <- MCCompletions
    MostCompleted = 3
    Lists <- MCLists
    Running <- MCRunning
    Bodies <- MCBodies
    Names = {"p", "q", "!"}
    ValidNames = {"p", "q"}
    Displays = {"", "D"}
    NoName = ""
    LastSave = 2
INVARIANTS
    TextsSplit
    ConversationsKept
    
    
    OneDriver
    ShowsWhatRuns
    
    BitsSound
    DashboardAddsUp
PROPERTIES
    
    NamesKept
    RatesSound
    UpdatesSound
    
    AdmitReturns
CHECK_DEADLOCK FALSE
