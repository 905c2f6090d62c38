CONSTANTS
    Procs = {1, 2, 3, 4}
    Position <- MCPosition
    NR_REQUEST = 4
    MAX_ERRORS = 0
    Values = {0}
    Contents <- MCOneContent
    Faults = {}
SPECIFICATION FairSpec
CHECK_DEADLOCK FALSE
INVARIANTS
    QueueSound
    HeadIsServed
PROPERTIES
    Served
    StallsOnlyBySorting
