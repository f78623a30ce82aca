CONSTANTS
    n1 = n1
    n2 = n2
    k1 = k1
    MaxInode = 3
    MaxLinks = 3
    Names <- MCNames
    Uids <- MCUids
    Gids <- MCGids
    Modes <- MCModes
    XattrKeys <- MCXattrKeys
    MaxFileSize = 0
    BlockSize = 1
    Offsets = {}
    Lengths = {}
    SingleMount = TRUE
SPECIFICATION Spec
SYMMETRY NameSymmetry
INVARIANTS
    TypeOK
    NoDanglingEntries
    DotDotAccurate
    DotDotInv
    LinkInv
