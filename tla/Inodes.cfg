CONSTANTS
    Procs = {p1, p2, p3}
    NR_INODE = 3
    NInodes = 2
SPECIFICATION Spec
SYMMETRY MCSymmetry
CHECK_DEADLOCK FALSE
INVARIANTS
    TableSound
    LatestInode
    AllocatedIsUsed
