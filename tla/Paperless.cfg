SPECIFICATION PaperlessSpec
CONSTANTS
    Names <- AllNames
    Kinds <- AllKinds
    MaxSends = 2
    Sheets <- TwoSheets
    MaxMisfeeds = 1
    MaxPasses = 2
    Requests = {r1, r2}
    Checkers = {s1}
    Ttl = 1
    Window = 1
    NoList = NoList
    MaxClock = 2
    MaxEdits = 1
    MaxInvalidations = 1
    Callers = {c1, c2, c3}
    Interval = 2
    None = None
    MaxTime = 5
SYMMETRY Symmetry
CHECK_DEADLOCK FALSE
INVARIANTS
    NothingLost
    HandedOnce
    FailureIsHonest
    BacksMatchFronts
    IdsAreProven
PROPERTIES
    FloorIsExact
