SPECIFICATION ThreadsSpec
CONSTANTS
    Jobs = {j1}
    NoJob = NoJob
    MaxRows = 2
    RejectedCap = 1
    QueueDepth = 1
    DegradedAfter = 2
    OwedRetryDegradedAfter = 2
    MaxFaults = 3
    MaxEnds = 1
    Visitors = {v1, v2, v3}
    MaxWaiters = 1
    Free = Free
    MaxResults = 2
    Shapes <- OneBlankBack
    DocumentCap = 3
    Clicks = {c1}
    TerminalPasses = 1
    Setups <- WholeSetups
    MaxProbeHosts = 1
    MaxAddresses = 2
    MaxChecks = 1
CHECK_DEADLOCK FALSE
INVARIANTS
    FlightSafe
    ProbesAreHeeded
    GateCoversChild
PROPERTIES
    EveryRowEnds
    DegradedHeals
    StopEndsWorker
    WaitersLetGo
    ListingLetsGo
