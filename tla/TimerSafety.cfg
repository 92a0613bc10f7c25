\* Nested passes, a clock that is set back, next left as malloc found it.
SPECIFICATION Spec
CONSTANTS
    MSECS_IN_SEC = 2
    NULL = NULL
    WILD = WILD
    Keys = {k1, k2}
    Delays = {0, 1, 3}
    MallocNext = {NULL, WILD}
    ClockSteps = TRUE
    MaxTime = 6
    MaxDepth = 2
SYMMETRY KeySymmetry
CHECK_DEADLOCK FALSE
INVARIANTS
    TypeOK
    CountMatchesList
    NoDuplicateKeys
PROPERTIES
    EarlyByLessThanASecond
    PassLeavesNothingDue
    RearmedWaitsForNextPass
