\* A half-second interval.
SPECIFICATION Spec
CONSTANTS
    MSECS_IN_SEC = 2
    NULL = NULL
    WILD = WILD
    Keys = {k1, k2}
    Cells = {c1, c2, c3}
    Intervals = {1, 2}
    Counts = {0, 1, 2}
    MallocNext = {NULL}
    DeleteFrom = {"outside"}
    IntMax = 3
    ClockStep = 1
    MaxTime = 3
    MaxFires = 3
    MaxDrift = 2
SYMMETRY HeapSymmetry
CHECK_DEADLOCK FALSE
PROPERTIES
    NotBeforeInterval
