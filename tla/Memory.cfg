CONSTANTS
    Tasks = {t1, t2, t3}
    FirstTask = t1
    NoTask = NoTask
    Frames = {f1, f2, f3, f4, f5, f6}
    LowFrames = {low}
    NoFrame = NoFrame
    Dirs = {0, 1}
    Pages = {"x"}
    ArgAddrs <- MCArgAddrs
    PipeAddrs <- MCPipeAddrs
    SharedPipeArray = FALSE
    Values = {0, 1}
SPECIFICATION Spec
SYMMETRY Symmetry
CHECK_DEADLOCK FALSE
INVARIANTS
    RefCount
    WritableIsUnshared
    NoPanic
PROPERTIES
    ExecKeepsArguments
    Isolation
