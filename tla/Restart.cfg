SPECIFICATION RestartSpec
CONSTANTS
    Jobs = {j1, j2}
    NoJob = NoJob
    MaxRows = 1
    RejectedCap = 1
    QueueDepth = 1
    DegradedAfter = 1
    OwedRetryDegradedAfter = 2
    MaxFaults = 3
    MaxEnds = 1
    Target = 4
    Scanners <- FirstScanners
    OtherScanners <- LaterScanners
    Files <- FirstFiles
    OwnProfile <- OwnWriting
    BareProfile <- BareWriting
    MaxBoots = 1
    MaxRuns = 1
    MaxEdits = 1
SYMMETRY Symmetry
INVARIANTS
    RecordedAsMeant
    RowsSurvive
    RejectedNeverRan
    FileIsWhole
    RestartLoadsWhatRuns
PROPERTIES
    RowsOnlyMoveOn
    RecoveryKeepsItsWord
    TablesAreRight
