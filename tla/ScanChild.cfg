CONSTANTS
    Sheets = 2
    Cap = 1
    MaxOps = 2
    MaxSignals = 2
SPECIFICATION Spec
CHECK_DEADLOCK FALSE
INVARIANTS
    CallsCanBeCut
    PagesAreCounted
    ChildIsAccountedFor
PROPERTIES
    ScanningEnds
