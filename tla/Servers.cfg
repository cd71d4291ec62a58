\* Three connections for two processes, which are used again, and then one too few;
\* two threads, blocks and three descriptors, likewise; a pool of two clients, whose slots and
\* descriptors are reused, any number of connections, two of them waiting, and a process
\* that may end or hang on a client; every kind of file, uri and request; four ports for
\* three servers and another user of the machine.
SPECIFICATION Spec
CONSTANTS
    Conns = {c1, c2, c3}
    Pids = {p1, p2}
    main = main
    FDs = {4, 5, 6}
    Blocks = {b1, b2}
    Threads = {t1, t2}
    Nil = nil
    niters = 3
    MaxConnects = 3
    MaxLines = 2
    listenfd = 3
    ClientFDs = {4, 5}
    FDSetSize = 6
    LISTENQ = 2
    MaxUnread = 1
    Files <- MCFiles
    Uris <- MCUris
    Requests <- MCRequests
    Faults = {"client", "file", "cgi", "system", "reset"}
    MaxAddrs = 3
    PORT_MAX = 4
    Starts = {1, 4}
    MAX_PORT_TRIES = 2
    BASIC_LIST <- MCBasicList
    CACHE_LIST <- MCCacheList
    FETCH_FILE = "home.html"
    MaxTaken = 1
INVARIANTS
    ForkInv
    ThreadsInv
    PoolInv
    WebInv
    NothingLeft
    MarksEarned
PROPERTIES
    ClientsLetGo
    GoesOn
    EveryClientHeard
CHECK_DEADLOCK FALSE
