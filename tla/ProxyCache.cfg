\* Three connections at once, one of which may stall for ever while it is served; two uris,
\* one of them on two ports; replies of one line, which are cached, and of two; every fault
\* of the environment but the empty reply; two entries, one too few.
SPECIFICATION FairSpec
CONSTANTS
    Conns = {c1, c2, c3}
    URIs = {u1, u2}
    Ports = {p1, p2}
    u1 = u1
    u2 = u2
    p1 = p1
    p2 = p2
    Requests <- MCRequests
    Capacity = 2
    MaxObject = 2
    MaxLines = 2
    Lines = {"text"}
    Faults = {"accept", "eof", "invalid", "origin", "client"}
    Stalled = {c1}
    Blank = Blank
INVARIANTS
    Inv
    ScansSeeWholeEntries
    HitServesReply
    MissIsRight
PROPERTIES
    EntriesWrittenOnce
    EveryConnectionEnds
    LookupsPassStalled
CHECK_DEADLOCK FALSE
