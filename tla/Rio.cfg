\* Five bytes in every division into lines; a buffer of two bytes, so that a call
\* takes several refills and a refill serves several calls; lines cut at three
\* bytes; one caller that mixes the buffered functions, one for the other.
SPECIFICATION FairSpec
CONSTANTS
    N = 5
    MaxLine = 4
    ReadSizes = {3}
    BufSize = 2
    Callers = {{"readlineb", "readnb"}, {"readn"}}
    MaxInterrupts = 2
    Faults = {"reset"}
INVARIANTS
    ReadInv
PROPERTIES
    ImplementsStream
    EveryByteEchoed
CHECK_DEADLOCK FALSE
