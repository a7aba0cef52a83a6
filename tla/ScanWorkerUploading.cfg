SPECIFICATION Spec
CONSTANTS
    Jobs = {j1}
    NoJob = NoJob
    MaxRows = 1
    RejectedCap = 1
    QueueDepth = 1
    DegradedAfter = 2
    OwedRetryDegradedAfter = 2
    MaxFaults = 1
    MaxEnds = 1
INVARIANT UploadingNeverPlainRestart
