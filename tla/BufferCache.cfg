CONSTANTS
    map = map
    Procs = {p1, p2}
    NR_BUFFERS = 4
    Blocks = {map, x2, x3, x4, x5}
    Bitmaps <- MCOneBitmap
    Errors = TRUE
    MaxKept = 1
SPECIFICATION Spec
SYMMETRY MCSymmetry
CONSTRAINT MCBounds
INVARIANTS
    OneBufferPerBlock
    FreeListSound
    LatestIsFound
    HolderKeepsBlock
    CountsUsers
    SleepersAreWoken
