SPECIFICATION Spec
CONSTANTS
    Clicks = {k1, k2}
    Nobody = Nobody
    PollCap = 1
    ProbePollCap = 2
    MaxProbes = 1
SYMMETRY Symmetry
CHECK_DEADLOCK FALSE
INVARIANTS
    StopsAreClean
PROPERTIES
    ClicksGetTheirProbe
