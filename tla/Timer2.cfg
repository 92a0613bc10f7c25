\* Two events in two cells, with handlers that add and delete, passes that
\* come late, and a malloc that may leave garbage.
SPECIFICATION FairSpec
CONSTANTS
    MSECS_IN_SEC = 2
    NULL = NULL
    WILD = WILD
    Keys = {k1, k2}
    Cells = {c1, c2}
    Intervals = {3}
    Counts = {0, 1, 2}
    MallocNext = {NULL, WILD}
    DeleteFrom = {"outside", "handler"}
    IntMax = 3
    ClockStep = 2
    MaxTime = 8
    MaxFires = 3
    MaxDrift = 1
CHECK_DEADLOCK FALSE
INVARIANTS
    TypeOK
    NoDanglingPointer
    ListSound
    CountNeverAboveList
    FiresAtMostCount
    KeepsPhase
PROPERTIES
    FiresOncePerPass
    PassMissesNothing
    PassesReturn
    OverdueFires
