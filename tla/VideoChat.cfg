SPECIFICATION Spec
CONSTANTS
    q1 = q1
    q2 = q2
    r1 = r1
    r2 = r2
    p1 = p1
    Requests = {q1, q2}
    Rooms = {r1, r2}
    Peers = {p1}
    MaxStarts = 2
CONSTRAINT MCFirstRoom
INVARIANTS SessionIsClean PortIsFree
PROPERTIES LockReleased
CHECK_DEADLOCK FALSE
