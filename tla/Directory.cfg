CONSTANTS
    Procs = {p1, p2}
    Paths <- MCPaths
    NewPaths <- MCNewPaths
    NInodes = 3
    DIR_ENTRIES_PER_BLOCK = 1
    MaxEntries = 2
SPECIFICATION DirSpec
SYMMETRY MCSymmetry
CHECK_DEADLOCK FALSE
INVARIANTS
    InodesGivenBack
    
