\* Caches of two or four lines and traces that overflow them; three jobs for four processes, and
\* ids that start again; lines that fit the shell's buffer and lines that do not; a
\* counter whose words turn over between two readings, ticks that calibrate it or not; floats of six bits; two puzzles,
\* solved and within the rules or not; traces of three commands and pipes of two lines.
\* For the malloc driver a heap of six pairs of cells for two blocks, one size that is no size and
\* one larger than the heap; chars of one bit, so that block 1 stands for one whose low byte has its
\* top bit set; addresses that are aligned or not, in the heap or at its end; two traces, the
\* first of which may be long.  The programs end.
SPECIFICATION MCSpec
CONSTANTS
    Geometries <- MCGeometries
    Operations <- MCOperations
    MaxTrace = 4
    SimIntMod = 16
    MatrixSizes <- MCMatrixSizes
    AddrA = 16384
    AddrB = 278528
    Statics <- MCStatics
    TraceIntMod = 1048576
    TEST_RANGE = 3
    Randoms <- MCRandoms
    Probes <- MCProbes
    Garbage <- MCGarbage
    MaxTimeouts = 1
    MAXJOBS = 3
    Processes = {1, 2, 3, 4}
    MaxJid = 6
    Words <- MCWords
    MaxWords = 3
    MAXLINE = 14
    Ks = {1, 2}
    MaxSamples = {1, 3}
    Epsilons = {10}
    CacheSizes = {8, 16}
    CacheBlocks = {4}
    WordMod = 64
    Starts = {3, 60, 4090}
    Cycles = {2, 21}
    TickCosts = {5}
    Loops = {1}
    NEVENT = 2
    THRESHOLD = 4
    RECORDTHRESH = 6
    SleepCycles = 50
    Delays = {9}
    Usecs = 10
    MAX_ETIME = 5
    Average = 2
    MaxCalls = 2
    Longs <- MCLongs
    FRAC_SIZE = 2
    EXP_SIZE = 3
    Numerals <- MCNumerals
    MaxArgs = 2
    Functions <- MCFunctions
    Nicknames <- MCNicknames
    CsimPoints = {0, 26, 27}
    Misses = {288, 301, 450, 1300, 1308, 1993, 2001, 2999, 3000}
    PipeSize = 2
    MaxCommands = 3
    MAX_HEAP = 12
    ALIGNMENT = 2
    IntMod = 64
    CharMod = 2
    Ids = {0, 1}
    Sizes = {0, 1, 3, 30}
    Addrs = {1, 2, 4, 6, 12}
    MaxOps = 4
    MaxTraces = 2
INVARIANTS
    CsimIsLRU
    SolutionsScored
    TakenAsTyped
    ShellInv
    CacheMarks
    KBest
    
    CheckSound
    MmScored
CHECK_DEADLOCK FALSE
