\* One host and path on two ports.
SPECIFICATION Spec
CONSTANTS
    Conns = {c1, c2}
    URIs = {u1, u2}
    Ports = {p1, p2}
    u1 = u1
    u2 = u2
    p1 = p1
    p2 = p2
    Requests <- MCRequests
    Capacity = 2
    MaxObject = 2
    MaxLines = 1
    Lines = {"text"}
    Faults = {}
    Stalled = {}
    Blank = Blank
INVARIANTS
    HitIsRequested
CHECK_DEADLOCK FALSE
