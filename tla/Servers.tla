------------------------------ MODULE Servers -------------------------------
(***************************************************************************)
(* The small programs of server/, thread/ and tiny/, any one of which is   *)
(* started: the forking, the threaded and the select server, the one with  *)
(* a pool of clients, the web server, the counter, a call of the socket    *)
(* helpers, and the driver that marks the proxy lab.  They share nothing:  *)
(* a variable that the running program does not have keeps the value it    *)
(* starts with.                                                            *)
(***************************************************************************)
EXTENDS Integers, Sequences, FiniteSets

CONSTANTS Conns, Pids, main, FDs, Blocks, Threads, Nil, niters, MaxConnects, MaxLines,
          listenfd, ClientFDs, FDSetSize, LISTENQ, MaxUnread, Files, Uris, Requests, Faults, MaxAddrs,
          PORT_MAX, Starts, MAX_PORT_TRIES, BASIC_LIST, CACHE_LIST, FETCH_FILE, MaxTaken

\* The first process is none of its children; a connection is no listening socket; a request
\* has a first line of some kind, a number of header lines, and an end.
ASSUME ForkOK == main \notin Pids /\ "listenfd" \notin Conns
ASSUME CounterOK == niters \in Nat
\* The limit on open files is at most FD_SETSIZE, as it is by default, and some
\* descriptors, listenfd among them, are no client's: the pool never fills up.
ASSUME DescriptorLimit ==
    /\ listenfd \in Nat /\ ClientFDs \subseteq Nat \ {0, listenfd}
    /\ ClientFDs \subseteq 0 .. FDSetSize - 1
    /\ IsFiniteSet(ClientFDs)
ASSUME SizesOK == FDSetSize \in Nat /\ LISTENQ \in Nat /\ MaxUnread \in Nat
ASSUME AddrsOK == MaxAddrs \in Nat
ASSUME RequestsOK ==
    \A r \in Requests :
        r \in [line : {"GET", "POST", "short", "end of stream", "silent"}, uri : {r.uri},
              hdrs : Nat, ends : {"blank line", "end of stream", "silent"}]

VARIABLES
    program,
    at, up, open, eof, i,                                           \* of several
    connfd, child, serves, held, pending, handling, queue, met,     \* ForkServer
    connfdp, heap, allocated, thread, vargp, fd,                    \* ThreadServer
    ready, waiting, arrived, finished, typed, lines, kept, stdinEof,         \* SelectServer
    clientfd, read_set, ready_set, nready, maxi, maxfd, backlog, unread, part,  \* EchoPool
    req, uri, blank, out,                                           \* Tiny
    pc, reg, cnt, mutex,                                            \* Counter
    helper, step, addrs, addr, listed, socket, sockets,             \* Sockets
    todo, proxy, proc, port, tries, others, cached, busy, nopFetch, dirs,
    numSucceeded, score, disturbed, late                            \* ProxyDriver

forkVars == <<connfd, serves, held, pending, handling, queue, met>>
threadVars == <<connfdp, heap, allocated, thread, vargp, fd>>
selectVars == <<ready, waiting, arrived, finished, typed, lines, kept, stdinEof>>
poolVars == <<clientfd, read_set, ready_set, nready, maxi, maxfd, backlog, unread, part>>
tinyVars == <<req, uri, blank, out>>
counterVars == <<pc, reg, cnt, mutex>>
socketVars == <<helper, step, addrs, addr, listed, socket, sockets>>
driverVars == <<todo, proxy, proc, port, tries, others, cached, busy, nopFetch, dirs,
                numSucceeded, score, disturbed, late>>
vars == <<program, at, up, open, eof, i, child, forkVars, threadVars, selectVars,
          poolVars, tinyVars, counterVars, socketVars, driverVars>>

Fork == INSTANCE ForkServer
Thread == INSTANCE ThreadServer
Single == INSTANCE SelectServer
Pool == INSTANCE EchoPool WITH FDs <- ClientFDs, MaxLines <- MaxUnread, lines <- unread
Web == INSTANCE Tiny
Sum == INSTANCE Counter
Helpers == INSTANCE Sockets
Marks == INSTANCE ProxyDriver

NoFork == connfd = {} /\ serves = <<>> /\ held = <<>> /\ pending = FALSE /\ handling = FALSE
              /\ queue = {} /\ met = {}
NoThread == connfdp = Nil /\ heap = <<>> /\ allocated = {} /\ fd = <<>> /\ vargp = <<>>
                /\ thread = [t \in Threads |-> "none"]
NoSelect == ready = {} /\ waiting = 0 /\ arrived = 0 /\ finished = FALSE
                /\ typed = 0 /\ lines = 0 /\ kept = 0 /\ stdinEof = FALSE
NoPool == clientfd = <<>> /\ read_set = {} /\ ready_set = {} /\ nready = 0 /\ maxi = -1 /\ maxfd = 0
              /\ backlog = 0 /\ unread = [d \in ClientFDs |-> 0] /\ part = <<>>
NoTiny == req = <<>> /\ uri = <<>> /\ blank = FALSE /\ out = <<>>
NoCounter == pc = <<>> /\ reg = <<>> /\ cnt = 0 /\ mutex = 0
NoSockets == helper = <<>> /\ step = "" /\ addrs = 0 /\ addr = 0 /\ listed = FALSE
                 /\ socket = 0 /\ sockets = <<>>
NoDriver == todo = <<>> /\ proxy = <<>> /\ proc = <<>> /\ port = <<>> /\ tries = 0 /\ others = {}
                /\ cached = {} /\ busy = FALSE /\ nopFetch = "" /\ dirs = <<>>
                /\ numSucceeded = 0 /\ score = <<>> /\ disturbed = FALSE /\ late = FALSE

Programs == {"fork", "thread", "select", "pool", "web", "sum", "helpers", "driver.sh"}

Init ==
    /\ program \in Programs
    /\ IF program = "fork" THEN Fork!Init ELSE NoFork
    /\ IF program = "thread" THEN Thread!Init ELSE NoThread
    /\ IF program = "select" THEN Single!Init ELSE NoSelect
    /\ IF program = "pool" THEN Pool!Init ELSE NoPool
    /\ IF program = "web" THEN Web!Init ELSE NoTiny
    /\ IF program = "sum" THEN Sum!Init ELSE NoCounter
    /\ IF program = "helpers" THEN Helpers!Init ELSE NoSockets
    /\ IF program = "driver.sh" THEN Marks!Init ELSE NoDriver
    /\ IF program \in {"fork", "thread", "select", "pool", "web", "driver.sh"} THEN TRUE ELSE at = ""
    /\ IF program \in {"thread", "pool", "web"} THEN TRUE ELSE up = TRUE
    /\ IF program \in {"thread", "pool", "web"} THEN TRUE ELSE open = {}
    /\ IF program \in {"fork", "thread", "pool"} THEN TRUE ELSE eof = {}
    /\ IF program \in {"sum", "pool"} THEN TRUE ELSE i = 0
    /\ IF program \in {"fork", "web"} THEN TRUE ELSE child = "none"

Next ==
    /\ UNCHANGED program
    /\ \/ program = "fork" /\ Fork!Next
              /\ UNCHANGED <<up, open, i, threadVars, selectVars, poolVars, tinyVars,
                          counterVars, socketVars, driverVars>>
       \/ program = "thread" /\ Thread!Next
              /\ UNCHANGED <<i, child, forkVars, selectVars, poolVars, tinyVars,
                          counterVars, socketVars, driverVars>>
       \/ program = "select" /\ Single!Next
              /\ UNCHANGED <<up, open, eof, i, child, forkVars, threadVars, poolVars, tinyVars,
                          counterVars, socketVars, driverVars>>
       \/ program = "pool" /\ Pool!Next
              /\ UNCHANGED <<child, forkVars, threadVars, selectVars, tinyVars, counterVars, socketVars,
                          driverVars>>
       \/ program = "web" /\ Web!Next
              /\ UNCHANGED <<eof, i, forkVars, threadVars, selectVars, poolVars,
                          counterVars, socketVars, driverVars>>
       \/ program = "sum" /\ Sum!Next
              /\ UNCHANGED <<at, up, open, eof, child, forkVars, threadVars, selectVars,
                          poolVars, tinyVars, socketVars, driverVars>>
       \/ program = "helpers" /\ Helpers!Next
              /\ UNCHANGED <<at, up, open, eof, i, child, forkVars, threadVars, selectVars,
                          poolVars, tinyVars, counterVars, driverVars>>
       \/ program = "driver.sh" /\ Marks!Next
              /\ UNCHANGED <<up, open, eof, i, child, forkVars, threadVars, selectVars,
                          poolVars, tinyVars, counterVars, socketVars>>

\* The kernel runs every process and thread that can run, and the CGI program ends; a
\* script goes on when its last command has ended;
\* nothing is expected of the clients, nor of what fails.
Spec ==
    /\ Init /\ [][Next]_vars
    /\ WF_(Fork!vars)(program = "fork" /\ Fork!Server)
    /\ \A p \in Pids : WF_(Fork!vars)(program = "fork" /\ Fork!Child(p))
    /\ \A t \in Threads : WF_(Thread!vars)(program = "thread" /\ up /\ Thread!Thread(t))
    /\ WF_(Single!vars)(program = "select" /\ at # "exited" /\ Single!Server)
    /\ WF_(Pool!vars)(program = "pool" /\ Pool!Server)
    /\ WF_(Web!vars)(program = "web" /\ up /\ Web!Serve)
    /\ WF_(Web!vars)(program = "web" /\ up /\ Web!ChildRuns)
    /\ WF_(Marks!vars)(program = "driver.sh" /\ Marks!Driver)
    /\ \A s \in Marks!Servers : WF_(Marks!vars)(program = "driver.sh" /\ Marks!End(s))

-----------------------------------------------------------------------------
(* The programs' own properties, each of its program                       *)

\* ForkServer: no ended child is forgotten, and a connection has one holder.
ForkInv == program = "fork" => Fork!NoZombieForgotten /\ Fork!OneHolder

\* ForkServer, ThreadServer: every connection is closed for good, on the side of the
\* server too, after its client has finished.
ClientsLetGo ==
    /\ program = "fork" => Fork!EveryConnectionClosed
    /\ program = "thread" => Thread!EveryClientLetGo

\* ThreadServer: each descriptor is handed over to the thread it is meant for.
\* Counter: no increment is lost.
ThreadsInv ==
    /\ program = "thread" => Thread!BlockHandedOver
    /\ program = "sum" => Sum!CountExact

\* EchoPool: the pool knows every connection, and how many ready clients are to come.
PoolInv == program = "pool" => Pool!PoolInv

\* EchoPool: what a client has sent is read in the end, unless one hangs the process or ends it.
EveryClientHeard == program = "pool" => Pool!EveryClientHeard

\* Tiny: each client gets one whole answer that fits its request, and nothing of it
\* is left for the next one.
WebInv == program = "web" => Web!OneAnswer /\ Web!CleanBetweenClients

\* SelectServer: no connection waits for ever while others come and lines are typed.
\* Tiny: the server comes back for the next client.  ProxyDriver: the driver ends.
GoesOn ==
    /\ program = "select" => Single!QueueDrains
    /\ program = "web" => Web!ComesBack
    /\ program = "driver.sh" => Marks!DriverEnds

\* ProxyDriver: a proxy has the marks for what it can do, and no server is left running.
MarksEarned == program = "driver.sh" => Marks!MarksEarned /\ Marks!AllKilled

\* Sockets: no address that did not work leaves a socket, and no call a list.
NothingLeft == program = "helpers" => Helpers!NothingLeft
=============================================================================
