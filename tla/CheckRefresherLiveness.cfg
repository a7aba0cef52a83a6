SPECIFICATION FairSpec
CONSTANTS
    Clicks = {k1, k2}
    Nobody = Nobody
    PollCap = 0
    ProbePollCap = 0
    MaxProbes = 0
CHECK_DEADLOCK FALSE
PROPERTIES
    NobodyWaitsForEver
