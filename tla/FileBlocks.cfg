CONSTANTS
    Procs = {p1, p2}
    Files = {f1, f2}
    NoFile = NoFile
    Blocks = {1, 2, 3}
    Depth <- MCDepth
    Entries = {1}
    ReadErrors = TRUE
SPECIFICATION BlocksSpec
SYMMETRY MCSymmetry
CHECK_DEADLOCK FALSE
INVARIANTS
    BlocksNotShared
    NoBlockLost
