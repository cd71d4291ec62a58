\* Two workers, one of which may be left with a silent client, a buffer of one place, one
\* descriptor more than can be in use, all of which are used again.
SPECIFICATION FairSpec
CONSTANTS
    Workers = {t1, t2}
    main = main
    Size = 1
    FDs = {1, 2, 3, 4, 5}
    MaxAccepts = 5
    MaxBytes = 1
    MaxStalled = 1
    Faults = {"reset", "accept"}
INVARIANTS
    DescriptorsInv
    NoUpdateLost
PROPERTIES
    EveryClientServed
CHECK_DEADLOCK FALSE
