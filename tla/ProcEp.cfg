\* Instances and other programs start and end in any order, on three pids.
SPECIFICATION Spec
CONSTANTS
    Pids = {9, 10, 11}
    Long = {10, 11}
INVARIANTS
    OneInstance
PROPERTIES
    SparesOthers
