SPECIFICATION FairSpec
CONSTANTS
    Jobs = {1, 2}
    NoJob = NoJob
    Clicks = {c1, c2}
CHECK_DEADLOCK FALSE
INVARIANTS
    ClaimsDecide
    ShownPromptAccepts
PROPERTIES
    NoEarlyAnswer
    StopFreesWorker
