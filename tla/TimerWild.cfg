\* next of an only event is never assigned.
SPECIFICATION Spec
CONSTANTS
    MSECS_IN_SEC = 2
    NULL = NULL
    WILD = WILD
    Keys = {k1, k2}
    Delays = {0, 1, 3}
    MallocNext = {NULL, WILD}
    ClockSteps = FALSE
    MaxTime = 6
    MaxDepth = 1
CHECK_DEADLOCK FALSE
INVARIANTS
    ListEndsInNull
