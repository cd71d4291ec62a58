\* More connections than entries, all for the same uri: the lookups overlap, each
\* misses and each stores, and the store after the last entry runs over.
SPECIFICATION Spec
CONSTANTS
    Conns = {c1, c2, c3}
    URIs = {u1, u2}
    Ports = {p1, p2}
    u1 = u1
    u2 = u2
    p1 = p1
    p2 = p2
    Requests <- MCRequest
    Capacity = 2
    MaxObject = 2
    MaxLines = 1
    Lines = {"text"}
    Faults = {}
    Stalled = {}
    Blank = Blank
INVARIANTS
    StoresInBounds
CHECK_DEADLOCK FALSE
