CONSTANTS
    Procs = {1, 2, 3}
    Position <- MCPosition
    NR_REQUEST = 1
    MAX_ERRORS = 1
    Values = {0, 1}
    Contents <- MCContents
    Faults = {"first", "drq"}
SPECIFICATION Spec
CHECK_DEADLOCK FALSE
INVARIANTS
    CleanMatchesDisk
    SleepersChained
    LockedUntilAnswered
