\* Dumps between any two instructions of a small program.
SPECIFICATION FairSpec
CONSTANTS
    Text <- MCText
    Start <- MCStart
    Startup <- MCStartup
    Functions <- MCFunctions
    ImageMaps <- MCImageMaps
    LibMap <- MCLibMap
    Stack <- MCStack
    StackTop <- MCStackTop
    Sizes = {1, 2, 3, 6}
    MaxDumps = 2
CHECK_DEADLOCK FALSE
INVARIANTS
    TypeOK
    FindsCallersOnly
    FindsAllCallers
    NeverFaults
    EntriesFit
PROPERTIES
    BacktraceReturns
