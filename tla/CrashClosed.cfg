\* A handler interrupts outputFini of another one.
SPECIFICATION Spec
CONSTANTS
    Faults = {"SIGSEGV"}
    Others = {"SIGHUP", "SIGURG"}
    Ignored = {"SIGURG"}
    Failures = {}
    MaxFailures = 0
    StackDepths = {2}
    Room = 3
    LastFd = 7
    MaxSignals = 3
    MaxNesting = 3
CHECK_DEADLOCK FALSE
INVARIANTS
    NoUseAfterClose
