\* Two clients, a batch of two calls, one Start and a second one after a Stop.
CONSTANTS
    Servers <- MCServers
    Offered <- MCOffered
    Wanted <- MCWanted
    Enabled = {1, 2}
    BatchSize = 2
    MaxParallel = 1
    MaxStarts = 2
    MaxStops = 1
SPECIFICATION Spec
INVARIANTS StopsClean 
 
CHECK_DEADLOCK FALSE
