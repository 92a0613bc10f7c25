\* Three events, so that one can be inserted between two others, and nested
\* passes; the clock only advances.
SPECIFICATION FairSpec
CONSTANTS
    MSECS_IN_SEC = 2
    NULL = NULL
    WILD = WILD
    Keys = {k1, k2, k3}
    Delays = {0, 1}
    MallocNext = {NULL}
    ClockSteps = FALSE
    MaxTime = 4
    MaxDepth = 2
PROPERTIES
    EqualExpiryIsFIFO
    ImplementsContract
    OverdueFires
    PassesReturn
INVARIANTS
    Sorted
