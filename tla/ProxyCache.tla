----------------------------- MODULE ProxyCache -----------------------------
(***************************************************************************)
(* The caching proxy of labs/proxylab-handout/proxy.c: one thread per      *)
(* connection runs doit(), which parses the request, looks its uri up in   *)
(* the cache as a reader, and on a miss fetches the reply from the origin, *)
(* forwards it line by line, and stores it as a writer.                    *)
(*                                                                         *)
(* Module ReaderWriter is the lock: every lock step of a connection is a   *)
(* step of an instance of it, and mutex, w, readcnt and pc are its         *)
(* variables.  A request names a host and a path, which together are the   *)
(* uri, the key of the cache, and a port, which is not in the key.  A      *)
(* reply is the sequence of its lines, a line being text or text with a    *)
(* NUL byte in it.  An error inside a csapp.c wrapper ends the process.    *)
(***************************************************************************)
EXTENDS Integers, Sequences, SequencesExt, FiniteSets

CONSTANTS
    Conns,        \* the connections accepted, each with its own thread
    URIs, Ports,
    Requests,     \* those that clients make, each a uri with the port of its server
    Capacity,     \* number of entries cache.objects is allocated with
    MaxObject,    \* MAX_OBJECT_SIZE, in lines
    MaxLines,     \* bound: the longest reply an origin sends
    Lines,        \* kinds of lines origins send, of "text" and "nul"
    Faults,       \* what goes wrong: "accept", "eof", "invalid", "origin", "client", "empty"
    Stalled,      \* connections whose client stops reading
    Blank         \* the string in memory nobody has written yet

ASSUME ConnsFinite == IsFiniteSet(Conns)
ASSUME SizesAreNat == {Capacity, MaxObject, MaxLines} \subseteq Nat \ {0}
ASSUME BlankIsNoURI == Blank \notin URIs
RequestsTyped == \A r \in Requests : r.uri \in URIs /\ r.port \in Ports
ASSUME RequestsOK == RequestsTyped
ASSUME LinesOK == Lines \subseteq {"text", "nul"}

VARIABLES
    mutex, w, readcnt, pc,   \* the lock
    proc,       \* the process: "up", "exited" or "crashed"
    at,         \* where the connection's thread is in thread() and doit()
    uri,        \* doit's uri
    port,       \* request_line.port
    idx,        \* reader's i
    in_cache,   \* reader's in_cache
    served,     \* what a hit has written to the client: at most one object
    received,   \* the lines fetched from the origin so far
    objects,    \* cache.objects
    used_cnt    \* cache.used_cnt

lockVars == <<mutex, w, readcnt, pc>>
connVars == <<uri, port, idx, in_cache, served, received>>
cacheVars == <<objects, used_cnt>>
vars == <<lockVars, proc, at, connVars, cacheVars>>

RW == INSTANCE ReaderWriter WITH Readers <- Conns, Writers <- Conns

BlankObject == [of |-> Blank, from |-> Blank, lines |-> <<>>]

\* What a C string function sees of the lines: they end at the first NUL.
CString(lines) ==
    LET first == SelectInSeq(lines, LAMBDA l : l = "nul")
    IN  IF first = 0 THEN lines
        ELSE SubSeq(lines, 1, first - 1) \o <<"part">>

Init ==
    /\ RW!Init
    /\ proc = "up"
    /\ at = [c \in Conns |-> "none"]
    /\ uri = [c \in Conns |-> Blank] /\ port = [c \in Conns |-> Blank]
    /\ idx = [c \in Conns |-> 0]
    /\ in_cache = [c \in Conns |-> FALSE]
    /\ served = [c \in Conns |-> {}]
    /\ received = [c \in Conns |-> <<>>]
    /\ objects = [i \in 0 .. Capacity - 1 |-> [name |-> Blank, object |-> BlankObject]]
    /\ used_cnt = 0

Move(c, from, to) == at[c] = from /\ at' = [at EXCEPT ![c] = to]

Exit(how) == proc' = how /\ UNCHANGED <<lockVars, at, connVars, cacheVars>>

-----------------------------------------------------------------------------
(* main() and parse_request()                                              *)

Accept(c) ==
    /\ Move(c, "none", "parse")
    /\ UNCHANGED <<lockVars, proc, connVars, cacheVars>>

\* A failing Accept, Getnameinfo or Pthread_create.
AcceptFails(c) == "accept" \in Faults /\ at[c] = "none" /\ Exit("exited")

\* The key is the request's host and path; the port stays in request_line.
GoLookUp(c, r) ==
    /\ Move(c, "parse", "lookup")
    /\ uri' = [uri EXCEPT ![c] = r.uri]
    /\ port' = [port EXCEPT ![c] = r.port]
    /\ UNCHANGED <<lockVars, proc, idx, in_cache, served, received, cacheVars>>

ParseRequest(c) == \E r \in Requests : GoLookUp(c, r)

\* A client that closes without a request: parse_request returns and doit goes
\* on with a request line nobody has written.  The thread's stack is fresh, or
\* that of a thread that has finished and left its own request line there.
StaleRequest(d) == [uri |-> uri[d], port |-> port[d]]

ParseNothing(c) ==
    /\ "eof" \in Faults
    /\ \E r \in {[uri |-> Blank, port |-> Blank]} \cup
                 {StaleRequest(d) : d \in {d \in Conns : at[d] = "closed"}} :
           GoLookUp(c, r)

\* parse_uri and parse_header end the process when they dislike their input,
\* and so do they for a client that closes inside its headers.
ParseInvalid(c) == "invalid" \in Faults /\ at[c] = "parse" /\ Exit("exited")

-----------------------------------------------------------------------------
(* reader()                                                                *)

EnterReader(c) ==
    /\ at[c] = "lookup"
    /\ RW!Arrive(c) \/ RW!Count(c) \/ RW!Claim(c) \/ RW!Admit(c)
    /\ UNCHANGED <<proc, at, connVars, cacheVars>>

Scanning(c) == at[c] = "lookup" /\ pc[c] = "reading"

\* Mutant of Compare: strcmp without its negation.
CompareNegated(c) ==
    /\ Scanning(c) /\ ~in_cache[c] /\ idx[c] < Capacity
    /\ IF objects[idx[c]].name # uri[c]
       THEN in_cache' = [in_cache EXCEPT ![c] = TRUE] /\ UNCHANGED idx
       ELSE idx' = [idx EXCEPT ![c] = @ + 1] /\ UNCHANGED in_cache
    /\ UNCHANGED <<lockVars, proc, at, uri, port, served, received, cacheVars>>

Compare(c) ==                   \* strcmp(cache.objects[i].name, uri)
    /\ Scanning(c)
    /\ ~in_cache[c]
    /\ idx[c] < Capacity
    /\ IF objects[idx[c]].name = uri[c]
       THEN in_cache' = [in_cache EXCEPT ![c] = TRUE] /\ UNCHANGED idx
       ELSE idx' = [idx EXCEPT ![c] = @ + 1] /\ UNCHANGED in_cache
    /\ UNCHANGED <<lockVars, proc, at, uri, port, served, received, cacheVars>>

ServeHit(c) ==                  \* Rio_writen(fd, cache.objects[i].object, ...)
    /\ Scanning(c)
    /\ c \notin Stalled
    /\ in_cache[c]
    /\ served[c] = {}
    /\ served' = [served EXCEPT ![c] = {objects[idx[c]].object}]
    /\ UNCHANGED <<lockVars, proc, at, uri, port, idx, in_cache, received, cacheVars>>

LeaveReader(c) ==
    /\ at[c] = "lookup"
    /\ \/ RW!Leave(c) /\ (idx[c] = Capacity \/ served[c] # {})
       \/ RW!Uncount(c)
       \/ RW!Release(c)
    /\ UNCHANGED <<proc, at, connVars, cacheVars>>

ReturnFromReader(c) ==
    /\ Move(c, "lookup", IF in_cache[c] THEN "close" ELSE "connect")
    /\ RW!Depart(c)
    /\ UNCHANGED <<proc, connVars, cacheVars>>

-----------------------------------------------------------------------------
(* send_to_server() and the forwarding loop of doit()                      *)

Connect(c) ==
    /\ uri[c] # Blank
    /\ Move(c, "connect", "fetch")
    /\ UNCHANGED <<lockVars, proc, connVars, cacheVars>>

ConnectFails(c) ==              \* Open_clientfd
    /\ at[c] = "connect"
    /\ uri[c] = Blank \/ "origin" \in Faults
    /\ Exit("exited")

\* The line goes to the client and, with its terminator, into object_buf,
\* which nothing keeps from running over: what that does to the stack may end
\* the process or go unnoticed.
ForwardLine(c) ==
    /\ at[c] = "fetch"
    /\ c \notin Stalled
    /\ Len(received[c]) < MaxLines
    /\ \E l \in Lines : received' = [received EXCEPT ![c] = Append(@, l)]
    /\ proc' \in IF Len(received'[c]) < MaxObject THEN {"up"} ELSE {"up", "crashed"}
    /\ UNCHANGED <<lockVars, at, uri, port, idx, in_cache, served, cacheVars>>

EndOfReply(c) ==                \* if (total_size < MAX_OBJECT_SIZE)
    /\ received[c] # <<>> \/ "empty" \in Faults
    /\ Move(c, "fetch", IF Len(received[c]) < MaxObject THEN "store" ELSE "close")
    /\ UNCHANGED <<lockVars, proc, connVars, cacheVars>>

\* Writing to a client that has gone ends the process.
ClientGone(c) ==
    /\ "client" \in Faults
    /\ at[c] = "fetch" \/ (Scanning(c) /\ in_cache[c] /\ served[c] = {})
    /\ Exit("exited")

-----------------------------------------------------------------------------
(* writer()                                                                *)

\* What the reply fetched is once strcpy has taken it.
Fetch(c) == [of |-> uri[c], from |-> port[c], lines |-> CString(received[c])]

\* The string in object_buf.  An empty reply leaves it as the stack was: fresh,
\* or holding what an earlier thread fetched.
ObjectString(c) ==
    IF received[c] # <<>> THEN {Fetch(c)}
    ELSE {BlankObject} \cup
         {Fetch(d) : d \in {d \in Conns : at[d] = "closed" /\ received[d] # <<>>}}

\* Mutant of BeginStore: the entry is written without P(&w).
BeginStoreUnlocked(c) ==
    /\ Move(c, "store", "name")
    /\ pc' = [pc EXCEPT ![c] = "writing"]
    /\ UNCHANGED <<mutex, w, readcnt, proc, connVars, cacheVars>>

BeginStore(c) ==
    /\ Move(c, "store", "name")
    /\ RW!BeginWrite(c)
    /\ UNCHANGED <<proc, connVars, cacheVars>>

\* Nothing stops used_cnt at the number of entries allocated: the entry after
\* the last is whatever follows the array, whose name is no valid pointer.
StoreName(c) ==
    /\ used_cnt < Capacity
    /\ Move(c, "name", "object")
    /\ objects' = [objects EXCEPT ![used_cnt] = [name |-> uri[c], object |-> @.object]]
    /\ UNCHANGED <<lockVars, proc, connVars, used_cnt>>

StoreOverrun(c) == at[c] = "name" /\ used_cnt >= Capacity /\ Exit("crashed")

StoreObject(c) ==
    /\ Move(c, "object", "count")
    /\ \E o \in ObjectString(c) :
           objects' = [objects EXCEPT ![used_cnt] = [name |-> @.name, object |-> o]]
    /\ UNCHANGED <<lockVars, proc, connVars, used_cnt>>

\* Mutant of CountEntry: a full cache starts again at its first entry.
CountEntryWraps(c) ==
    /\ Move(c, "count", "release")
    /\ used_cnt' = (used_cnt + 1) % Capacity
    /\ UNCHANGED <<lockVars, proc, connVars, objects>>

CountEntry(c) ==                \* ++cache.used_cnt
    /\ Move(c, "count", "release")
    /\ used_cnt' = used_cnt + 1
    /\ UNCHANGED <<lockVars, proc, connVars, objects>>

EndStore(c) ==
    /\ Move(c, "release", "close")
    /\ RW!EndWrite(c)
    /\ UNCHANGED <<proc, connVars, cacheVars>>

-----------------------------------------------------------------------------
CloseConn(c) ==
    /\ Move(c, "close", "closed")
    /\ UNCHANGED <<lockVars, proc, connVars, cacheVars>>

\* What the thread of a connection does of its own accord.
Thread(c) ==
    /\ proc = "up"
    /\ \/ ParseRequest(c)
       \/ EnterReader(c) \/ Compare(c) \/ ServeHit(c)
       \/ LeaveReader(c) \/ ReturnFromReader(c)
       \/ Connect(c) \/ ForwardLine(c) \/ EndOfReply(c)
       \/ BeginStore(c) \/ StoreName(c) \/ StoreOverrun(c) \/ StoreObject(c)
       \/ CountEntry(c) \/ EndStore(c)
       \/ CloseConn(c)

\* What clients and origins do to it.
Environment(c) ==
    /\ proc = "up"
    /\ \/ Accept(c) \/ AcceptFails(c) \/ ParseNothing(c) \/ ParseInvalid(c)
       \/ ConnectFails(c) \/ ClientGone(c)

Next == \E c \in Conns : Thread(c) \/ Environment(c)

Spec == Init /\ [][Next]_vars

\* Every thread runs; clients send their requests, origins end their replies
\* and clients read, those in Stalled excepted.
FairSpec == Spec /\ \A c \in Conns : WF_vars(Thread(c))

-----------------------------------------------------------------------------
(* Properties                                                              *)

Objects == [of : URIs \cup {Blank}, from : Ports \cup {Blank},
            lines : UNION {[1 .. n -> {"text", "nul", "part"}] : n \in 0 .. MaxLines}]

TypeOK ==
    /\ RW!TypeOK
    /\ proc \in {"up", "exited", "crashed"}
    /\ at \in [Conns -> {"none", "parse", "lookup", "connect", "fetch", "store",
                         "name", "object", "count", "release", "close", "closed"}]
    /\ uri \in [Conns -> URIs \cup {Blank}]
    /\ port \in [Conns -> Ports \cup {Blank}]
    /\ idx \in [Conns -> 0 .. Capacity]
    /\ in_cache \in [Conns -> BOOLEAN]
    /\ served \in [Conns -> SUBSET Objects]
    /\ \A c \in Conns : Len(received[c]) <= MaxLines
    /\ \A i \in 0 .. Capacity - 1 :
           objects[i].name \in URIs \cup {Blank} /\ objects[i].object \in Objects
    /\ used_cnt \in 0 .. Capacity

EntryWhole(i) == objects[i].name = objects[i].object.of

EntryBlank(i) == objects[i] = [name |-> Blank, object |-> BlankObject]

\* A scan sees only whole entries: while some thread scans, every entry below
\* used_cnt pairs a uri with an object stored for it, and the others are blank.
ScansSeeWholeEntries ==
    (\E c \in Conns : Scanning(c)) =>
        \A i \in 0 .. Capacity - 1 : IF i < used_cnt THEN EntryWhole(i) ELSE EntryBlank(i)

StoreSteps == {"name", "object", "count", "release"}

\* The inductive invariant behind it: doit() is inside writer() exactly while
\* it holds w, the entry at used_cnt is as far as the thread that writes it,
\* and every other entry is whole or blank.
CacheTypes ==
    /\ at \in [Conns -> {"none", "parse", "lookup", "connect", "fetch", "store",
                         "close", "closed"} \cup StoreSteps]
    /\ uri \in [Conns -> URIs \cup {Blank}]
    /\ port \in [Conns -> Ports \cup {Blank}]
    /\ idx \in [Conns -> 0 .. Capacity]
    /\ received \in [Conns -> Seq(Lines)]
    /\ used_cnt \in Nat
    /\ objects = [i \in 0 .. Capacity - 1 |-> objects[i]]

AtMatchesLock ==
    \A c \in Conns :
        /\ pc[c] = "writing" <=> at[c] \in StoreSteps
        /\ pc[c] \notin {"idle", "writing"} => at[c] = "lookup"
        /\ at[c] \in {"object", "count"} => used_cnt < Capacity

EntryInProgress ==
    \A c \in Conns :
        /\ at[c] \in {"store", "name", "object"} => received[c] # <<>>
        /\ at[c] = "object" => objects[used_cnt].name = uri[c]
        /\ at[c] = "count" => EntryWhole(used_cnt)

EntriesWholeOrBlank ==
    \A i \in 0 .. Capacity - 1 :
        \/ i < used_cnt /\ EntryWhole(i)
        \/ i >= used_cnt /\ EntryBlank(i)
        \/ i = used_cnt /\ \E c \in Conns : at[c] \in {"object", "count"}

CacheInv == CacheTypes /\ AtMatchesLock /\ EntryInProgress /\ EntriesWholeOrBlank

\* A hit sends what one other connection fetched for the same host and path and has
\* stored, up to its first NUL byte.
HitServesReply ==
    \A c \in Conns :
        served[c] # {} /\ uri[c] # Blank =>
            \E d \in Conns \ {c} :
                /\ uri[d] = uri[c]
                /\ received[d] # <<>>
                /\ served[c] = {Fetch(d)}
                /\ at[d] \in {"release", "close", "closed"}

\* A lookup that finds nothing was right: while the thread still holds the
\* lock, no entry has its uri, those it compared first included.
MissIsRight ==
    \A c \in Conns :
        Scanning(c) /\ idx[c] = Capacity =>
            \A i \in 0 .. Capacity - 1 : objects[i].name # uri[c]

\* The inductive invariant behind it: a scan starts at the first entry, and the
\* entries it has passed do not have the uri.
ScanSound(c) ==
    /\ \/ at[c] \in {"none", "parse"}
       \/ at[c] = "lookup" /\ pc[c] \in {"idle", "counting", "claiming", "admitted"}
       => idx[c] = 0
    /\ Scanning(c) => \A i \in 0 .. idx[c] - 1 : objects[i].name # uri[c]

ScanInv == \A c \in Conns : ScanSound(c)

\* Entries are written once: none below used_cnt ever changes again, and
\* used_cnt never goes back.
EntriesWrittenOnce ==
    [][used_cnt' >= used_cnt
         /\ \A i \in 0 .. used_cnt - 1 : objects'[i] = objects[i]]_vars

\* No store is lost to another: whoever has left writer() has its entry in the
\* cache, so used_cnt is the number of those stores.
NoStoreLost ==
    LET Stored == {c \in Conns : /\ received[c] # <<>> /\ Len(received[c]) < MaxObject
                                 /\ at[c] \in {"close", "closed"}}
    IN  \A c \in Stored : \E i \in 0 .. used_cnt - 1 :
            objects[i] = [name |-> uri[c], object |-> Fetch(c)]

\* The cache, its types and its stores: what a reader of it may rely on.
Inv == TypeOK /\ CacheInv /\ NoStoreLost

\* A client that stalls during a hit holds the read lock for ever.  Nobody else
\* is delayed by a stall, and without one every connection accepted is closed
\* in the end, unless the process ends.
EveryConnectionEnds ==
    \A c \in Conns \ Stalled :
        at[c] # "none" ~> \/ at[c] = "closed"
                          \/ proc # "up"
                          \/ \E d \in Stalled : Scanning(d) /\ in_cache[d]

\* Not even a stall during a hit delays the lookups of other connections.
LookupsPassStalled ==
    \A c \in Conns \ Stalled : at[c] = "lookup" ~> at[c] # "lookup" \/ proc # "up"

\* What the cache has of a request is returned (note.md:222): a hit is an object of the
\* server that the client named.
HitIsRequested ==
    \A c \in Conns : uri[c] # Blank => \A o \in served[c] : o.of = uri[c] /\ o.from = port[c]

\* The cache has room for the objects it stores (note.md:222, "can cache ten
\* web objects").
StoresInBounds == \A c \in Conns : at[c] = "name" => used_cnt < Capacity
=============================================================================
