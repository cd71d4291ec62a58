\* A heap of six pairs of cells for two blocks, and addresses so that one payload may
\* enclose another.  The program ends.
SPECIFICATION MdriverSpec
CONSTANTS
    MAX_HEAP = 12
    ALIGNMENT = 2
    IntMod = 64
    CharMod = 2
    Ids = {0, 1}
    Sizes = {1, 5}
    Addrs = {2, 4}
    MaxOps = 3
    MaxTraces = 1
INVARIANT
    OverlapsNoticed
CHECK_DEADLOCK FALSE
