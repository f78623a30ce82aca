CONSTANTS
    n1 = n1
    n2 = n2
    k1 = k1
    MaxInode = 3
    MaxLinks = 2
    Names <- MCNames
    Uids <- MCUids
    Gids <- MCGids
    Modes <- MCModes
    XattrKeys = {}
    MaxFileSize = 1
    BlockSize = 1
    Offsets = {0, 1}
    Lengths = {1}
    SingleMount = TRUE
SPECIFICATION Spec
SYMMETRY NameSymmetry
INVARIANTS
    StoreIsReachable
