\* Two threads that only read, one that only writes, two that do both: a group
\* of readers forms, overlaps, and hands w over to one of several writers.
SPECIFICATION FairSpec
CONSTANTS
    Readers = {r1, r2, b1, b2}
    Writers = {w1, b1, b2}
INVARIANTS
    ClaimOnlyAlone
    IInv
PROPERTIES
    Progress
    ImplementsLock
