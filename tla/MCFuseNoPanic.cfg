CONSTANTS
    p1 = p1
    p2 = p2
    v1 = v1
    v2 = v2
    Procs <- MCProcs
    Values <- MCValues
    MaxHandle = 1
    MaxRead = 2
    SpecFactor = 2
    ReadSizes = {1, 2}
    MaxLen = 3
    InitLen = 3
SYMMETRY MCSymmetry
SPECIFICATION Spec
INVARIANT
    NoPanic
