\* Three processes share, leave and end in any order.
SPECIFICATION Spec
CONSTANTS
    Procs = {p1, p2, p3}
    p1 = p1
    p2 = p2
    p3 = p3
    MaxSegments = 2
SYMMETRY ProcSymmetry
INVARIANTS
    LastOneOutFrees
PROPERTIES
    InUseIsNotFreed
