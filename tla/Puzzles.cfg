\* An ilog2 whose result starts with zero or with something else.  The program ends.
SPECIFICATION Spec
CONSTANTS
    TEST_RANGE = 3
    Randoms = {1431655765}
    Probes = {40}
    Garbage = {{}, {3, 5}}
    MaxTimeouts = 1
INVARIANT
    AsCommented
CHECK_DEADLOCK FALSE
