SPECIFICATION Spec
CONSTANTS
    p1 = p1
    p2 = p2
    x1 = x1
    Procs = {p1, p2}
    First = p1
    NR_OPEN = 2
    NR_FILE = 2
    PAGE_SIZE = 3
    Pipes = {x1}
    Sizes = {1, 3}
INVARIANTS FilesCounted EndsCounted BytesInOrder
PROPERTIES HangupNoticed
CHECK_DEADLOCK FALSE
