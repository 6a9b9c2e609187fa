\* Two calls with and without deadlines, failing posts, two lines or events that
\* are no replies, a server that may exit and a connection that may end.
CONSTANTS
    Calls = {k1, k2}
    Deadlined = {k1}
    MaxExtra = 2
    PostFails = TRUE
    NoResult = NoResult
    Failed = Failed
    Nobody = Nobody
    NoCall = NoCall
    EOF = EOF
    Garbled = Garbled
SPECIFICATION CallsSpec
INVARIANTS PendingIsOpen
PROPERTIES ImplementsRpc 
CHECK_DEADLOCK FALSE
