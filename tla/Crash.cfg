\* A handler interrupts another one, and any call may fail.
SPECIFICATION FairSpec
CONSTANTS
    Faults = {"SIGSEGV"}
    Others = {"SIGHUP", "SIGURG"}
    Ignored = {"SIGURG"}
    Failures = {"path", "device", "open", "write", "popen", "line"}
    MaxFailures = 1
    StackDepths = {2, 12}
    Room = 3
    LastFd = 7
    MaxSignals = 3
    MaxNesting = 2
CHECK_DEADLOCK FALSE
INVARIANTS
    TypeOK
    FirstDumpIsEverywhere
    FramesAreOwn
    StreamsAreClosed
    UndisturbedDumpIsInFile
    SigchldIsRestored
PROPERTIES
    FaultIsFatal
