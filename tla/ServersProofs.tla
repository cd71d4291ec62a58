---------------------------- MODULE ServersProofs ----------------------------
(***************************************************************************)
(* What the small programs keep while they run, for any connections,       *)
(* process ids, descriptors, blocks, threads and number of turns: a pool   *)
(* of clients and its counts are exact, ended children are reaped though   *)
(* signals merge, a connection has one holder, a descriptor is handed over *)
(* to the thread it is meant for, no increment is lost, a request of the   *)
(* web server gets one whole answer, and the socket helpers leave nothing  *)
(* open.                                                                   *)
(***************************************************************************)
EXTENDS Servers, FiniteSetTheorems, SequenceTheorems, WellFoundedInduction, TLAPS

-----------------------------------------------------------------------------
(* server/process_conecho_server.c                                          *)

\* The signals: a child ends only while main can be told, or unobserved.
ReapInv ==
    /\ child \in [Pids -> Fork!States]
    /\ pending \in BOOLEAN /\ handling \in BOOLEAN
    /\ Fork!NoZombieForgotten

LEMMA InitReapInv == Fork!Init => ReapInv
  BY DEF Fork!Init, ReapInv, Fork!States, Fork!NoZombieForgotten, Fork!Zombies

LEMMA StepReapInv == ReapInv /\ [Fork!Next]_(Fork!vars) => ReapInv'
  <1> SUFFICES ASSUME ReapInv, [Fork!Next]_(Fork!vars) PROVE ReapInv'
    OBVIOUS
  <1> USE DEF ReapInv, Fork!States, Fork!NoZombieForgotten, Fork!Zombies, Fork!clients
  <1>1. ASSUME NEW c \in Conns, Fork!AcceptConn(c) PROVE ReapInv'
    BY <1>1 DEF Fork!AcceptConn
  <1>2. ASSUME NEW p \in Pids, Fork!Fork(p) PROVE ReapInv'
    BY <1>2 DEF Fork!Fork
  <1>3. CASE Fork!ForkFails
    BY <1>3 DEF Fork!ForkFails
  <1>4. CASE Fork!Close
    BY <1>4 DEF Fork!Close
  <1>5. CASE Fork!Deliver
    BY <1>5 DEF Fork!Deliver
  <1>6. CASE Fork!Reap
    <2>1. CASE Fork!Zombies = {}
      BY <1>6, <2>1 DEF Fork!Reap
    <2>2. CASE Fork!Zombies # {}
      BY <1>6, <2>2 DEF Fork!Reap
    <2> QED BY <2>1, <2>2
  <1>7. ASSUME NEW p \in Pids, Fork!Child(p) \/ Fork!EchoFails(p) PROVE ReapInv'
    <2>1. CASE Fork!Exit(p)
      <3>1. CASE at = "exited"
        BY <2>1, <3>1 DEF Fork!Exit
      <3>2. CASE at # "exited"
        BY <2>1, <3>2 DEF Fork!Exit
      <3> QED BY <3>1, <3>2
    <2>2. CASE ~Fork!Exit(p)
      BY <1>7, <2>2 DEF Fork!Child, Fork!EchoFails, Fork!EchoEnds, Fork!ChildStep
    <2> QED BY <2>1, <2>2
  <1>8. ASSUME NEW c \in Conns, Fork!Connect(c) \/ Fork!Finish(c) PROVE ReapInv'
    BY <1>8 DEF Fork!Connect, Fork!Finish
  <1>9. CASE UNCHANGED Fork!vars
    BY <1>9 DEF Fork!vars
  <1> QED
    BY <1>1, <1>2, <1>3, <1>4, <1>5, <1>6, <1>7, <1>8, <1>9 DEF Fork!Next, Fork!Server

-----------------------------------------------------------------------------
HolderTypes ==
    /\ at \in {"accept", "fork", "close", "exited"}
    /\ child \in [Pids -> Fork!States]
    /\ serves \in [Pids -> SUBSET Conns]
    /\ held \in [Pids \cup {main} -> SUBSET (Conns \cup {Fork!listen})]
    /\ connfd \subseteq Conns

\* What main() has open at each place.
MainHolds ==
    /\ at = "accept" => held[main] = {Fork!listen}
    /\ at \in {"fork", "close"} => held[main] = {Fork!listen} \cup connfd
    /\ at = "exited" => held[main] = {}

\* What a child has open at each place.
ChildHolds == \A p \in Pids :
    /\ child[p] = "close listenfd" => held[p] = serves[p] \cup {Fork!listen}
    /\ child[p] \in {"echo", "close connfd"} => held[p] = serves[p]
    /\ held[p] \subseteq serves[p] \cup {Fork!listen}

\* A connection is accepted once, so nobody holds it before it is, and no child
\* holds the one that main() is about to give away.
Fresh ==
    /\ queue \cap met = {}
    /\ \A p \in Pids : held[p] \subseteq met \cup {Fork!listen}
    /\ connfd \subseteq met
    /\ at = "fork" => \A p \in Pids : held[p] \cap connfd = {}

\* No two children have a connection in common.
Apart == \A p \in Pids : \A q \in Pids \ {p} : held[p] \cap held[q] \subseteq {Fork!listen}

HolderInv == HolderTypes /\ MainHolds /\ ChildHolds /\ Fresh /\ Apart

LEMMA InitHolderInv ==
    ASSUME main \notin Pids PROVE Fork!Init => HolderInv
  BY DEF Fork!Init, HolderInv, HolderTypes, Fork!States, MainHolds, ChildHolds, Fresh, Apart

\* A step of one child, seen from the others.
OnlyChild(p) ==
    /\ \A q \in (Pids \cup {main}) \ {p} : held'[q] = held[q]
    /\ \A q \in Pids \ {p} : child'[q] = child[q]
    /\ UNCHANGED <<at, connfd, serves, queue, met>>

\* A child that closes some of what it holds disturbs nobody.
LEMMA ChildLetsGo ==
    ASSUME main \notin Pids, HolderInv, HolderTypes', NEW p \in Pids, OnlyChild(p),
           held'[p] \subseteq held[p], child'[p] # "close listenfd",
           child'[p] \in {"echo", "close connfd"} => held'[p] = serves[p]
    PROVE  HolderInv'
  <1> USE DEF HolderInv, OnlyChild
  <1>1. MainHolds'
    BY DEF MainHolds
  <1>2. ChildHolds'
    BY DEF ChildHolds
  <1>3. Fresh'
    <2>1. \A q \in Pids : held'[q] \subseteq held[q]
      OBVIOUS
    <2> QED BY <2>1 DEF Fresh
  <1>4. Apart'
    <2>1. \A q \in Pids : held'[q] \subseteq held[q]
      OBVIOUS
    <2> QED BY <2>1 DEF Apart
  <1> QED BY <1>1, <1>2, <1>3, <1>4

\* One element more keeps two sets apart.
LEMMA AddApart ==
    ASSUME NEW A, NEW B, NEW c, c \notin B
    PROVE  /\ A \cap B = {} => (A \cup {c}) \cap B = {}
           /\ B \cap {c} = {}
  OBVIOUS

LEMMA StepHolderTypes == HolderTypes /\ [Fork!Next]_(Fork!vars) => HolderTypes'
  <1> SUFFICES ASSUME HolderTypes, [Fork!Next]_(Fork!vars) PROVE HolderTypes'
    OBVIOUS
  <1> USE DEF HolderTypes, Fork!States, Fork!clients
  <1>1. ASSUME NEW c \in Conns, Fork!AcceptConn(c) PROVE HolderTypes'
    <2>1. held[main] \cup {c} \in SUBSET (Conns \cup {Fork!listen})
      OBVIOUS
    <2> QED BY <1>1, <2>1 DEF Fork!AcceptConn
  <1>2. ASSUME NEW p \in Pids, Fork!Fork(p) PROVE HolderTypes'
    BY <1>2 DEF Fork!Fork
  <1>3. CASE Fork!ForkFails
    BY <1>3 DEF Fork!ForkFails
  <1>4. CASE Fork!Close
    <2>1. held[main] \ connfd \in SUBSET (Conns \cup {Fork!listen})
      OBVIOUS
    <2> QED BY <1>4, <2>1 DEF Fork!Close
  <1>5. CASE Fork!Deliver \/ Fork!Reap
    BY <1>5 DEF Fork!Deliver, Fork!Reap
  <1>6. ASSUME NEW p \in Pids, Fork!Child(p) \/ Fork!EchoFails(p) PROVE HolderTypes'
    <2>1. \A closes : held[p] \ closes \in SUBSET (Conns \cup {Fork!listen})
      OBVIOUS
    <2>2. ASSUME NEW from, NEW to \in Fork!States, NEW closes, Fork!ChildStep(p, from, to, closes)
          PROVE  HolderTypes'
      BY <2>1, <2>2 DEF Fork!ChildStep
    <2>3. CASE Fork!Exit(p)
      BY <2>3 DEF Fork!Exit
    <2> QED BY <1>6, <2>2, <2>3 DEF Fork!Child, Fork!EchoFails, Fork!EchoEnds
  <1>7. ASSUME NEW c \in Conns, Fork!Connect(c) \/ Fork!Finish(c) PROVE HolderTypes'
    BY <1>7 DEF Fork!Connect, Fork!Finish
  <1>8. CASE UNCHANGED Fork!vars
    BY <1>8 DEF Fork!vars
  <1> QED
    BY <1>1, <1>2, <1>3, <1>4, <1>5, <1>6, <1>7, <1>8 DEF Fork!Next, Fork!Server

LEMMA StepHolderInv ==
    ASSUME main \notin Pids, Fork!listen \notin Conns
    PROVE  HolderInv /\ [Fork!Next]_(Fork!vars) => HolderInv'
  <1> SUFFICES ASSUME HolderInv, [Fork!Next]_(Fork!vars) PROVE HolderInv'
    OBVIOUS
  <1>0. HolderTypes'
    BY StepHolderTypes DEF HolderInv
  <1> USE DEF HolderInv, MainHolds, ChildHolds, Fresh, Apart, Fork!clients
  <1>1. ASSUME NEW c \in Conns, Fork!AcceptConn(c) PROVE HolderInv'
    <2>1. /\ at' = "fork" /\ held'[main] = {Fork!listen} \cup connfd' /\ connfd' = {c}
          /\ \A p \in Pids : held'[p] = held[p]
          /\ child' = child /\ serves' = serves
          /\ queue' = queue \ {c} /\ met' = met \cup {c} /\ c \in queue
      BY <1>1 DEF Fork!AcceptConn, Fork!Running, HolderTypes
    <2>2. MainHolds' /\ ChildHolds' /\ Apart'
      BY <2>1
    <2>3. \A p \in Pids : c \notin held[p]
      <3>1. c # Fork!listen /\ c \notin met
        BY <2>1
      <3> QED BY <3>1
    <2>4. queue' \cap met' = {} /\ connfd' \subseteq met'
      BY <2>1
    <2>5. \A p \in Pids : held'[p] \subseteq met' \cup {Fork!listen} /\ held'[p] \cap connfd' = {}
      <3> TAKE p \in Pids
      <3>1. held'[p] = held[p] /\ c \notin held[p] /\ held[p] \subseteq met \cup {Fork!listen}
        BY <2>1, <2>3
      <3>2. met' = met \cup {c} /\ connfd' = {c}
        BY <2>1
      <3>3. held[p] \cap {c} = {}
        BY <3>1, AddApart, ZenonT(40)
      <3> QED BY <3>1, <3>2, <3>3
    <2> QED BY <1>0, <2>2, <2>4, <2>5
  <1>2. ASSUME NEW p \in Pids, Fork!Fork(p) PROVE HolderInv'
    <2>1. /\ at = "fork" /\ at' = "close"
          /\ held'[p] = {Fork!listen} \cup connfd /\ held'[main] = held[main]
          /\ \A q \in Pids \ {p} : held'[q] = held[q] /\ serves'[q] = serves[q]
                                      /\ child'[q] = child[q]
          /\ serves'[p] = connfd /\ child'[p] = "close listenfd"
          /\ UNCHANGED <<connfd, queue, met>>
      BY <1>2 DEF Fork!Fork, Fork!Running, HolderTypes
    <2>2. MainHolds' /\ Fresh'
      BY <2>1
    <2>3. ChildHolds'
      BY <2>1
    <2>4. Apart'
      BY <2>1, ZenonT(40)
    <2> QED BY <1>0, <2>2, <2>3, <2>4
  <1>3. CASE Fork!ForkFails
    <2>1. /\ at' = "exited" /\ held'[main] = {}
          /\ \A p \in Pids : held'[p] = held[p] /\ child'[p] \in {child[p], "none"}
          /\ UNCHANGED <<connfd, serves, queue, met>>
      BY <1>3 DEF Fork!ForkFails, HolderTypes
    <2>2. MainHolds' /\ Fresh' /\ Apart'
      BY <2>1
    <2>3. ChildHolds'
      BY <2>1
    <2> QED BY <1>0, <2>2, <2>3
  <1>4. CASE Fork!Close
    <2>1. /\ at = "close" /\ at' = "accept" /\ held'[main] = held[main] \ connfd
          /\ \A p \in Pids : held'[p] = held[p]
          /\ UNCHANGED <<connfd, child, serves, queue, met>>
      BY <1>4 DEF Fork!Close, Fork!Running, HolderTypes
    <2>2. Fork!listen \notin connfd
      BY DEF HolderTypes
    <2>3. MainHolds'
      <3>1. ({Fork!listen} \cup connfd) \ connfd = {Fork!listen}
        BY <2>2, ZenonT(40)
      <3> QED BY <2>1, <3>1
    <2>4. ChildHolds' /\ Fresh' /\ Apart'
      BY <2>1
    <2> QED BY <1>0, <2>3, <2>4
  <1>5. CASE Fork!Deliver
    BY <1>0, <1>5 DEF Fork!Deliver
  <1>6. CASE Fork!Reap
    <2>1. UNCHANGED <<at, connfd, serves, held, queue, met>>
      BY <1>6 DEF Fork!Reap
    <2>2. \A p \in Pids : child'[p] \in {child[p], "none"}
      <3>1. CASE Fork!Zombies = {}
        BY <1>6, <3>1 DEF Fork!Reap
      <3>2. CASE Fork!Zombies # {}
        <4>1. PICK z \in Fork!Zombies : child' = [child EXCEPT ![z] = "none"]
          BY <1>6, <3>2 DEF Fork!Reap
        <4> QED BY <4>1 DEF HolderTypes
      <3> QED BY <3>1, <3>2
    <2>3. MainHolds' /\ Fresh' /\ Apart'
      BY <2>1
    <2>4. ChildHolds'
      BY <2>1, <2>2
    <2> QED BY <1>0, <2>3, <2>4
  <1>7. ASSUME NEW p \in Pids, Fork!Child(p) \/ Fork!EchoFails(p) PROVE HolderInv'
    <2>1. ASSUME NEW from, NEW to, NEW closes, Fork!ChildStep(p, from, to, closes)
          PROVE  OnlyChild(p) /\ child[p] = from /\ child'[p] = to
                              /\ held'[p] = held[p] \ closes
      BY <2>1 DEF Fork!ChildStep, OnlyChild, HolderTypes
    <2>2. CASE Fork!Exit(p)
      <3>1. OnlyChild(p) /\ held'[p] = {} /\ child'[p] \in {"none", "zombie"}
        BY <2>2 DEF Fork!Exit, OnlyChild, HolderTypes
      <3> QED BY <1>0, <3>1, ChildLetsGo
    <2>3. CASE Fork!ChildStep(p, "close listenfd", "echo", {Fork!listen})
      <3>1. OnlyChild(p) /\ child[p] = "close listenfd" /\ child'[p] = "echo"
                         /\ held'[p] = held[p] \ {Fork!listen}
        BY <2>1, <2>3
      <3>2. Fork!listen \notin serves[p]
        BY DEF HolderTypes
      <3>3. held'[p] = serves[p]
        <4>1. (serves[p] \cup {Fork!listen}) \ {Fork!listen} = serves[p]
          BY <3>2
        <4>2. held[p] = serves[p] \cup {Fork!listen}
          BY <3>1
        <4> QED BY <3>1, <4>1, <4>2
      <3> QED BY <1>0, <3>1, <3>3, ChildLetsGo
    <2>4. CASE Fork!EchoEnds(p)
      <3>1. OnlyChild(p) /\ child[p] = "echo" /\ child'[p] = "close connfd"
                         /\ held'[p] = held[p] \ {}
        BY <2>1, <2>4 DEF Fork!EchoEnds
      <3>2. held'[p] = serves[p]
        <4>1. held[p] \ {} = held[p] /\ held[p] = serves[p]
          BY <3>1
        <4> QED BY <3>1, <4>1
      <3> QED BY <1>0, <3>1, <3>2, ChildLetsGo
    <2>5. CASE Fork!EchoFails(p)
      <3>1. OnlyChild(p) /\ child'[p] = "exit" /\ held'[p] = held[p] \ {}
        BY <2>1, <2>5 DEF Fork!EchoFails
      <3> QED BY <1>0, <3>1, ChildLetsGo
    <2>6. CASE Fork!ChildStep(p, "close connfd", "exit", serves[p])
      <3>1. OnlyChild(p) /\ child'[p] = "exit" /\ held'[p] = held[p] \ serves[p]
        BY <2>1, <2>6
      <3> QED BY <1>0, <3>1, ChildLetsGo
    <2> QED BY <1>7, <2>2, <2>3, <2>4, <2>5, <2>6 DEF Fork!Child
  <1>8. ASSUME NEW c \in Conns, Fork!Connect(c) \/ Fork!Finish(c) PROVE HolderInv'
    <2>1. /\ UNCHANGED <<at, connfd, child, serves, held, met>>
          /\ queue' \cap met = {}
      <3>1. CASE Fork!Connect(c)
        <4>1. queue' = queue \cup {c} /\ c \notin met /\ queue \cap met = {}
          BY <3>1 DEF Fork!Connect
        <4>2. queue' \cap met = {}
          BY <4>1, AddApart
        <4> QED BY <3>1, <4>2 DEF Fork!Connect
      <3>2. CASE Fork!Finish(c)
        BY <3>2 DEF Fork!Finish
      <3> QED BY <1>8, <3>1, <3>2
    <2> QED BY <1>0, <2>1
  <1>9. CASE UNCHANGED Fork!vars
    BY <1>0, <1>9 DEF Fork!vars
  <1> QED
    BY <1>1, <1>2, <1>3, <1>4, <1>5, <1>6, <1>7, <1>8, <1>9 DEF Fork!Next, Fork!Server

LEMMA HolderInvOneHolder == HolderInv => Fork!OneHolder
  <1> SUFFICES ASSUME HolderInv PROVE Fork!OneHolder
    OBVIOUS
  <1>1. held[main] \subseteq {Fork!listen} \cup IF at \in {"fork", "close"} THEN connfd ELSE {}
    <2>1. CASE at \in {"fork", "close"}
      BY <2>1 DEF HolderInv, MainHolds
    <2>2. CASE at \notin {"fork", "close"}
      BY <2>2 DEF HolderInv, HolderTypes, MainHolds
    <2> QED BY <2>1, <2>2
  <1>2. ChildHolds /\ Apart
    BY DEF HolderInv
  <1> QED BY <1>1, <1>2 DEF ChildHolds, Apart, Fork!OneHolder

-----------------------------------------------------------------------------
(* thread/thread.c                                                          *)

ThreadTypes ==
    /\ at \in {"malloc", "accept", "create"}
    /\ heap \in [Blocks -> FDs \cup {Nil}]
    /\ allocated \subseteq Blocks
    /\ thread \in [Threads -> Thread!States]
    /\ vargp \in [Threads -> Blocks \cup {Nil}]
    /\ fd \in [Threads -> FDs \cup {Nil}]
    /\ connfdp \in Blocks \cup {Nil}

\* The descriptor main() holds is not a thread's yet.
NotYetHanded ==
    at = "create" => \A t \in Threads : thread[t] # "none" => Thread!HandedOver(t) # heap[connfdp]

HandInv == ThreadTypes /\ NotYetHanded /\ Thread!BlockHandedOver

LEMMA InitHandInv == Thread!Init => HandInv
  BY DEF Thread!Init, HandInv, ThreadTypes, Thread!States, NotYetHanded, Thread!BlockHandedOver

LEMMA StepHandInv == HandInv /\ [Thread!Next]_(Thread!vars) => HandInv'
  <1> SUFFICES ASSUME HandInv, [Thread!Next]_(Thread!vars) PROVE HandInv'
    OBVIOUS
  <1> USE DEF HandInv, ThreadTypes, Thread!States, NotYetHanded, Thread!BlockHandedOver, Thread!HandedOver
  <1>1. CASE Thread!Malloc
    BY <1>1 DEF Thread!Malloc
  <1>2. CASE Thread!MainFails
    BY <1>2 DEF Thread!MainFails
  <1>3. ASSUME NEW d \in FDs, Thread!Accept(d) PROVE HandInv'
    <2>1. \A t \in Threads : thread[t] # "none" => Thread!HandedOver(t)' = Thread!HandedOver(t)
      BY <1>3 DEF Thread!Accept
    <2>2. heap'[connfdp'] = d /\ \A t \in Threads : thread[t] # "none" => Thread!HandedOver(t) # d
      BY <1>3 DEF Thread!Accept
    <2> QED BY <1>3, <2>1, <2>2 DEF Thread!Accept
  <1>4. ASSUME NEW d \in FDs, Thread!ClientFinishes(d) PROVE HandInv'
    BY <1>4 DEF Thread!ClientFinishes
  <1>5. ASSUME NEW t \in Threads, Thread!PthreadCreate(t) PROVE HandInv'
    BY <1>5 DEF Thread!PthreadCreate
  <1>6. ASSUME NEW t \in Threads, Thread!Read(t) PROVE HandInv'
    BY <1>6 DEF Thread!Read
  <1>7. ASSUME NEW t \in Threads, Thread!Detach(t) PROVE HandInv'
    BY <1>7 DEF Thread!Detach
  <1>8. ASSUME NEW t \in Threads, Thread!Free(t) PROVE HandInv'
    BY <1>8 DEF Thread!Free
  <1>9. ASSUME NEW t \in Threads, Thread!EchoEnds(t) PROVE HandInv'
    BY <1>9 DEF Thread!EchoEnds
  <1>10. ASSUME NEW t \in Threads, Thread!Close(t) PROVE HandInv'
    BY <1>10 DEF Thread!Close
  <1>11. ASSUME NEW t \in Threads, Thread!EchoFails(t) PROVE HandInv'
    BY <1>11 DEF Thread!EchoFails
  <1>12. CASE UNCHANGED Thread!vars
    BY <1>12 DEF Thread!vars
  <1> QED
    BY <1>1, <1>2, <1>3, <1>4, <1>5, <1>6, <1>7, <1>8, <1>9, <1>10, <1>11, <1>12
       DEF Thread!Next, Thread!Thread

-----------------------------------------------------------------------------
(* thread/mutex.c                                                           *)

CountTypes ==
    /\ pc \in [Sum!Tids -> {"none", "loop", "load", "store", "unlock"}]
    /\ i \in [Sum!Tids -> Nat] /\ reg \in [Sum!Tids -> Nat]
    /\ cnt \in Nat

InLock(t) == pc[t] \in {"load", "store", "unlock"}

\* The semaphore is taken by the one thread that is between P and V; what that thread has
\* loaded is the counter, and what it has stored is not in its loop's count yet.
CountInv ==
    /\ CountTypes
    /\ mutex = IF InLock(1) \/ InLock(2) THEN 0 ELSE 1
    /\ ~(InLock(1) /\ InLock(2))
    /\ \A t \in Sum!Tids : pc[t] = "store" => reg[t] = cnt
    /\ cnt = i[1] + i[2] + IF pc[1] = "unlock" \/ pc[2] = "unlock" THEN 1 ELSE 0

LEMMA InitCountInv == Sum!Init => CountInv
  BY DEF Sum!Init, CountInv, CountTypes, InLock, Sum!Tids

LEMMA StepCountInv == CountInv /\ [Sum!Next]_(Sum!vars) => CountInv'
  <1> SUFFICES ASSUME CountInv, [Sum!Next]_(Sum!vars) PROVE CountInv'
    OBVIOUS
  <1> USE DEF CountInv, CountTypes, InLock, Sum!Tids, Sum!Go
  <1>1. ASSUME NEW t \in Sum!Tids, Sum!Create(t) PROVE CountInv'
    BY <1>1 DEF Sum!Create
  <1>2. ASSUME NEW t \in Sum!Tids, Sum!Lock(t) PROVE CountInv'
    BY <1>2 DEF Sum!Lock, Sum!P
  <1>3. ASSUME NEW t \in Sum!Tids, Sum!Load(t) PROVE CountInv'
    BY <1>3 DEF Sum!Load
  <1>4. ASSUME NEW t \in Sum!Tids, Sum!Store(t) PROVE CountInv'
    BY <1>4 DEF Sum!Store
  <1>5. ASSUME NEW t \in Sum!Tids, Sum!Unlock(t) PROVE CountInv'
    BY <1>5 DEF Sum!Unlock, Sum!V
  <1>6. CASE UNCHANGED Sum!vars
    BY <1>6 DEF Sum!vars
  <1> QED BY <1>1, <1>2, <1>3, <1>4, <1>5, <1>6 DEF Sum!Next

LEMMA CountInvExact == niters \in Nat /\ CountInv => Sum!CountExact
  BY DEF CountInv, CountTypes, InLock, Sum!CountExact, Sum!Tids

-----------------------------------------------------------------------------
(* tiny/tiny.c                                                              *)

Lines == {"GET", "POST", "short", "end of stream", "silent"}
Endings == {"blank line", "end of stream", "silent"}
Labels == {"accept", "request line", "headers", "stat", "501", "404", "403", "static", "open",
           "body", "dynamic", "fork", "wait", "close"}

Request(r) == r \in [line : Lines, uri : {r.uri}, hdrs : Nat, ends : Endings]

WebTypes ==
    /\ at \in Labels /\ child \in {"none", "run", "zombie"}
    /\ at # "accept" => Request(req)

\* What the server holds at each place.
WebHolds ==
    /\ open = CASE at = "accept" -> {"listenfd"}
                [] at = "body" -> {"listenfd", "connfd", "mapping"}
                [] OTHER -> {"listenfd", "connfd"}
    /\ at = "wait" => child # "none"
    /\ at # "wait" => child = "none"

\* What it has found out about the request.
WebFound ==
    /\ at = "501" => req.line = "POST"
    /\ at \in {"headers", "stat", "404", "403", "static", "open", "body", "dynamic", "fork", "wait"}
           => req.line \in {"GET", "short"}
    /\ at \in {"static", "open", "body"} => ~uri.cgi /\ Web!File.regular /\ "r" \in Web!File.mode
    /\ at \in {"dynamic", "fork", "wait"} => uri.cgi /\ Web!File.regular /\ "x" \in Web!File.mode

\* What the client has received.
Dead == {<<"200", "server">>, <<"200", "server", "server's log">>}
WebSent ==
    /\ at \in {"request line", "headers", "stat", "501", "404", "403", "static", "dynamic"} => out = <<>>
    /\ at \in {"open", "body"} => out = <<"200", "type", "length">>
    /\ at = "fork" \/ (at = "wait" /\ child = "run") => out = <<"200", "server">>
    /\ at = "wait" /\ child = "zombie" =>
           out = <<"200", "server", "cgi output">> \/ ("cgi" \in Faults /\ out \in Dead)

WebInvariant == WebTypes /\ WebHolds /\ WebFound /\ WebSent /\ Web!OneAnswer

\* What Write makes of the parts sent so far.
LEMMA Written ==
    ASSUME NEW a, NEW b, NEW c, NEW d
    PROVE  /\ <<>> \o <<a, b>> = <<a, b>>
           /\ <<>> \o <<a, b, c>> = <<a, b, c>>
           /\ <<>> \o <<a, b, c, d>> = <<a, b, c, d>>
           /\ <<a, b>> \o <<c>> = <<a, b, c>>
           /\ <<a, b, c>> \o <<d>> = <<a, b, c, d>>
  <1> DEFINE S == {a, b, c, d}
  <1>1. /\ <<a, b>> \in Seq(S) /\ <<a, b, c>> \in Seq(S) /\ <<a, b, c, d>> \in Seq(S)
        /\ <<c>> \in Seq(S) /\ <<d>> \in Seq(S)
    OBVIOUS
  <1> HIDE DEF S
  <1>2. /\ <<>> \o <<a, b>> = <<a, b>>
        /\ <<>> \o <<a, b, c>> = <<a, b, c>>
        /\ <<>> \o <<a, b, c, d>> = <<a, b, c, d>>
    BY <1>1, ConcatEmptySeq
  <1>3. <<a, b>> \o <<c>> = <<a, b, c>>
    <2>1. <<a, b>> \o <<c>> \in Seq(S) /\ Len(<<a, b>> \o <<c>>) = 3
      BY <1>1, ConcatProperties
    <2>2. \A n \in 1 .. 3 : (<<a, b>> \o <<c>>)[n] = <<a, b, c>>[n]
      BY <1>1, ConcatProperties
    <2> QED BY <1>1, <2>1, <2>2, SeqEqual
  <1>4. <<a, b, c>> \o <<d>> = <<a, b, c, d>>
    <2>1. <<a, b, c>> \o <<d>> \in Seq(S) /\ Len(<<a, b, c>> \o <<d>>) = 4
      BY <1>1, ConcatProperties
    <2>2. \A n \in 1 .. 4 : (<<a, b, c>> \o <<d>>)[n] = <<a, b, c, d>>[n]
      BY <1>1, ConcatProperties
    <2> QED BY <1>1, <2>1, <2>2, SeqEqual
  <1> QED BY <1>2, <1>3, <1>4

LEMMA InitWebInvariant == Web!Init => WebInvariant
  BY DEF Web!Init, WebInvariant, WebTypes, WebHolds, WebFound, WebSent, Web!OneAnswer, Labels

LEMMA OneHeaderLess ==
    ASSUME NEW r, Request(r), r.hdrs > 0
    PROVE  Request([r EXCEPT !.hdrs = r.hdrs - 1]) /\ [r EXCEPT !.hdrs = r.hdrs - 1].line = r.line
  BY DEF Request

LEMMA StepWebTypes == WebTypes /\ [Web!Next]_(Web!vars) => WebTypes'
  <1> SUFFICES ASSUME WebTypes, [Web!Next]_(Web!vars) PROVE WebTypes'
    OBVIOUS
  <1> USE DEF WebTypes, Labels, Web!Goto
  <1>1. ASSUME NEW r \in Requests, Web!Accept(r) PROVE WebTypes'
    BY <1>1, RequestsOK DEF Web!Accept, Request, Lines, Endings
  <1>2. CASE Web!ReadRequestLine
    BY <1>2 DEF Web!ReadRequestLine
  <1>3. CASE Web!ReadHeaders
    <2>1. at = "headers" /\ at' \in {"headers", "stat"} /\ child' = child
      BY <1>3 DEF Web!ReadHeaders
    <2>2. Request(req)
      BY <2>1
    <2>3. req' = req \/ (req.hdrs > 0 /\ req' = [req EXCEPT !.hdrs = req.hdrs - 1])
      BY <1>3 DEF Web!ReadHeaders
    <2>4. Request(req')
      BY <2>2, <2>3, OneHeaderLess
    <2> QED BY <2>1, <2>4
  <1>4. CASE Web!Stat
    BY <1>4 DEF Web!Stat
  <1>5. CASE Web!clienterror \/ Web!StaticHeaders \/ Web!OpenAndMap \/ Web!MmapFails \/ Web!SendBody
    BY <1>5 DEF Web!clienterror, Web!StaticHeaders, Web!OpenAndMap, Web!MmapFails, Web!SendBody
  <1>6. CASE Web!DynamicHeaders \/ Web!Fork \/ Web!ChildRuns \/ Web!Wait \/ Web!Close \/ Web!Dies
    BY <1>6 DEF Web!DynamicHeaders, Web!Fork, Web!ChildRuns, Web!Wait, Web!Close, Web!Dies
  <1>7. CASE UNCHANGED Web!vars
    BY <1>7 DEF Web!vars
  <1> QED BY <1>1, <1>2, <1>3, <1>4, <1>5, <1>6, <1>7 DEF Web!Next, Web!Serve

LEMMA StepWebInvariant == WebInvariant /\ [Web!Next]_(Web!vars) => WebInvariant'
  <1> SUFFICES ASSUME WebInvariant, [Web!Next]_(Web!vars) PROVE WebInvariant'
    OBVIOUS
  <1>0. WebTypes'
    BY StepWebTypes DEF WebInvariant
  <1>a. WebTypes /\ WebHolds /\ WebFound /\ WebSent /\ Web!OneAnswer
    BY DEF WebInvariant
  <1>1. ASSUME NEW r \in Requests, Web!Accept(r) PROVE WebInvariant'
    BY <1>0, <1>a, <1>1 DEF Web!Accept, Web!Goto, WebInvariant, WebHolds, WebFound, WebSent, Web!OneAnswer
  <1>2. CASE Web!ReadRequestLine
    <2>1. WebHolds' /\ WebSent'
      BY <1>a, <1>2 DEF Web!ReadRequestLine, WebHolds, WebSent
    <2>2. WebFound'
      BY <1>a, <1>2 DEF Web!ReadRequestLine, WebFound, WebTypes, Request, Lines
    <2>3. Web!OneAnswer'
      BY <1>a, <1>2 DEF Web!ReadRequestLine, WebSent, Web!OneAnswer
    <2> QED BY <1>0, <2>1, <2>2, <2>3 DEF WebInvariant
  <1>3. CASE Web!ReadHeaders
    <2>1. at = "headers" /\ at' \in {"headers", "stat"} /\ UNCHANGED <<uri, open, child, out>>
      BY <1>3 DEF Web!ReadHeaders
    <2>2. req'.line = req.line
      <3>1. req' = req \/ (req.hdrs > 0 /\ req' = [req EXCEPT !.hdrs = req.hdrs - 1])
        BY <1>3 DEF Web!ReadHeaders
      <3>2. Request(req)
        BY <1>a, <2>1 DEF WebTypes
      <3> QED BY <3>1, <3>2, OneHeaderLess
    <2>3. WebHolds' /\ WebSent' /\ Web!OneAnswer'
      BY <1>a, <2>1 DEF WebHolds, WebSent, Web!OneAnswer
    <2>4. WebFound'
      BY <1>a, <2>1, <2>2 DEF WebFound
    <2> QED BY <1>0, <2>3, <2>4 DEF WebInvariant
  <1>4. CASE Web!Stat
    <2>1. /\ at = "stat" /\ at' \in {"404", "403", "static", "dynamic"}
          /\ UNCHANGED <<req, uri, open, child, out>>
      BY <1>4 DEF Web!Stat
    <2>2. /\ at' = "static" => ~uri.cgi /\ Web!File.regular /\ "r" \in Web!File.mode
          /\ at' = "dynamic" => uri.cgi /\ Web!File.regular /\ "x" \in Web!File.mode
      BY <1>4 DEF Web!Stat, Web!parse_uri
    <2>3. WebHolds' /\ WebSent' /\ Web!OneAnswer'
      BY <1>a, <2>1 DEF WebHolds, WebSent, Web!OneAnswer
    <2>4. WebFound'
      BY <1>a, <2>1, <2>2 DEF WebFound, Web!File, Web!parse_uri
    <2> QED BY <1>0, <2>3, <2>4 DEF WebInvariant
  <1>5. CASE Web!clienterror
    <2>1. /\ at \in {"501", "404", "403"} /\ at' = "close" /\ UNCHANGED <<req, uri, open, child>>
          /\ out' = <<at, "type", "length", "error page">>
      <3>1. at \in {"501", "404", "403"} /\ at' = "close" /\ UNCHANGED <<req, uri, open, child>>
        BY <1>5 DEF Web!clienterror
      <3>2. out = <<>>
        BY <1>a, <3>1 DEF WebSent
      <3>3. out' = out \o <<at, "type", "length", "error page">>
        BY <1>5 DEF Web!clienterror, Web!Write
      <3>4. <<>> \o <<at, "type", "length", "error page">> = <<at, "type", "length", "error page">>
        BY Written
      <3> QED BY <3>1, <3>2, <3>3, <3>4
    <2>2. WebHolds' /\ WebSent' /\ WebFound'
      BY <1>a, <2>1 DEF WebHolds, WebSent, WebFound
    <2>3. Web!OneAnswer'
      BY <1>a, <2>1 DEF WebFound, Web!OneAnswer, Web!Answers
    <2> QED BY <1>0, <2>2, <2>3 DEF WebInvariant
  <1>6. CASE Web!StaticHeaders \/ Web!DynamicHeaders
    <2>1. /\ UNCHANGED <<req, uri, open, child>>
          /\ \/ at = "static" /\ at' = "open" /\ out' = <<"200", "type", "length">>
             \/ at = "dynamic" /\ at' = "fork" /\ out' = <<"200", "server">>
      BY <1>a, <1>6, Written, ZenonT(40) DEF Web!StaticHeaders, Web!DynamicHeaders, Web!Goto, Web!Write, WebSent
    <2>2. WebHolds' /\ WebSent' /\ WebFound' /\ Web!OneAnswer'
      BY <1>a, <2>1 DEF WebHolds, WebSent, WebFound, Web!File, Web!parse_uri, Web!OneAnswer
    <2> QED BY <1>0, <2>2 DEF WebInvariant
  <1>7. CASE Web!OpenAndMap
    <2>1. at = "open" /\ at' = "body" /\ open' = open \cup {"mapping"} /\ UNCHANGED <<req, uri, child, out>>
      BY <1>7 DEF Web!OpenAndMap, Web!Goto
    <2>2. WebHolds' /\ WebSent' /\ WebFound' /\ Web!OneAnswer'
      BY <1>a, <2>1 DEF WebHolds, WebSent, WebFound, Web!File, Web!parse_uri, Web!OneAnswer
    <2> QED BY <1>0, <2>2 DEF WebInvariant
  <1>8. CASE Web!SendBody
    <2>1. /\ at = "body" /\ at' = "close" /\ open' = open \ {"mapping"} /\ UNCHANGED <<req, uri, child>>
          /\ out' = <<"200", "type", "length", "body">>
      BY <1>a, <1>8, Written, ZenonT(40) DEF Web!SendBody, Web!Goto, Web!Write, WebSent
    <2>2. WebHolds' /\ WebSent' /\ WebFound'
      BY <1>a, <2>1 DEF WebHolds, WebSent, WebFound
    <2>3. Web!OneAnswer'
      BY <1>a, <2>1 DEF WebFound, Web!OneAnswer, Web!Answers, Web!File, Web!parse_uri
    <2> QED BY <1>0, <2>2, <2>3 DEF WebInvariant
  <1>9. CASE Web!Fork
    BY <1>0, <1>a, <1>9 DEF Web!Fork, Web!Goto, WebInvariant, WebHolds, WebSent, WebFound, Web!File, Web!parse_uri, Web!OneAnswer
  <1>10. CASE Web!ChildRuns
    <2>1. child = "run" /\ child' = "zombie" /\ at = "wait" /\ UNCHANGED <<at, req, uri, open>>
      BY <1>a, <1>10 DEF Web!ChildRuns, WebHolds
    <2>2. out = <<"200", "server">>
      BY <1>a, <2>1 DEF WebSent
    <2>3. out' = <<"200", "server", "cgi output">> \/ ("cgi" \in Faults /\ out' \in Dead)
      BY <1>10, <2>2, Written DEF Web!ChildRuns, Web!Write, Dead
    <2>4. WebHolds' /\ WebSent' /\ WebFound' /\ Web!OneAnswer'
      BY <1>a, <2>1, <2>3 DEF WebHolds, WebSent, WebFound, Web!File, Web!parse_uri, Web!OneAnswer
    <2> QED BY <1>0, <2>4 DEF WebInvariant
  <1>11. CASE Web!Wait
    <2>1. at = "wait" /\ at' = "close" /\ child = "zombie" /\ child' = "none" /\ UNCHANGED <<req, uri, open, out>>
      BY <1>11 DEF Web!Wait, Web!Goto
    <2>2. WebHolds' /\ WebSent' /\ WebFound'
      BY <1>a, <2>1 DEF WebHolds, WebSent, WebFound
    <2>3. out = <<"200", "server", "cgi output">> \/ ("cgi" \in Faults /\ out \in Dead)
      BY <1>a, <2>1 DEF WebSent
    <2>4. Web!OneAnswer'
      <3>1. /\ req.line \in {"GET", "short"} /\ uri.cgi
            /\ Web!File.regular /\ "x" \in Web!File.mode
        BY <1>a, <2>1 DEF WebFound
      <3>2. uri' = uri /\ out' = out /\ req' = req /\ Web!File' = Web!File
        BY <2>1 DEF Web!File, Web!parse_uri
      <3>3. out # <<>> /\ out[1] = "200"
        <4>1. out \in {<<"200", "server">>, <<"200", "server", "cgi output">>,
                       <<"200", "server", "server's log">>}
          BY <2>3 DEF Dead
        <4>2. /\ <<"200", "server">> # <<>> /\ <<"200", "server", "cgi output">> # <<>>
              /\ <<"200", "server", "server's log">> # <<>>
          OBVIOUS
        <4>3. /\ <<"200", "server">>[1] = "200" /\ <<"200", "server", "cgi output">>[1] = "200"
              /\ <<"200", "server", "server's log">>[1] = "200"
          OBVIOUS
        <4> QED BY <4>1, <4>2, <4>3
      <3>4. out \in Web!Answers \/ ("cgi" \in Faults /\ out \in Dead)
        BY <2>3 DEF Web!Answers
      <3> QED BY <3>1, <3>2, <3>3, <3>4 DEF Dead, Web!OneAnswer
    <2> QED BY <1>0, <2>2, <2>4 DEF WebInvariant
  <1>12. CASE Web!Close
    BY <1>0, <1>a, <1>12 DEF Web!Close, Web!Goto, WebInvariant, WebHolds, WebSent, WebFound, Web!OneAnswer
  <1>13. CASE Web!MmapFails \/ Web!Dies \/ UNCHANGED Web!vars
    <2>1. UNCHANGED <<at, req, uri, open, child, out>>
      BY <1>13 DEF Web!MmapFails, Web!Dies, Web!vars
    <2> QED BY <1>0, <1>a, <2>1
             DEF WebInvariant, WebHolds, WebSent, WebFound, Web!File, Web!parse_uri, Web!OneAnswer
  <1> QED BY <1>1, <1>2, <1>3, <1>4, <1>5, <1>6, <1>7, <1>8, <1>9, <1>10, <1>11, <1>12, <1>13
          DEF Web!Next, Web!Serve

-----------------------------------------------------------------------------
(* The socket helpers of the two csapp.c                                    *)

\* A set of natural numbers that is not empty has a least member.
LEMMA LeastExists ==
    ASSUME NEW S, S \subseteq Nat, S # {}
    PROVE  \E x \in S : \A y \in S : x <= y
  <1> DEFINE Below == {ss \in Nat \X Nat : ss[1] < ss[2]}
  <1>1. PICK x \in S : \A y \in S : <<y, x>> \notin Below
    <2>1. IsWellFoundedOn(Below, Nat)
      BY NatLessThanWellFounded DEF OpToRel
    <2> HIDE DEF Below
    <2> QED BY <2>1, WFMin
  <1>2. \A y \in S : <<y, x>> \notin Below => x <= y
    <2> TAKE y \in S
    <2>1. <<y, x>> \in Nat \X Nat /\ <<y, x>>[1] = y /\ <<y, x>>[2] = x
      OBVIOUS
    <2> QED BY <2>1
  <1> QED BY <1>1, <1>2

\* Only the descriptor that was last given out is anything at all.
Only(kind) == [d \in FDs |-> IF d = socket THEN kind ELSE "closed"]

\* The walk holds one socket from socket() to close() and none between two addresses; what
\* comes after it goes by whether p is an address.
HelpersInv ==
    /\ helper.fn \in {"open_clientfd", "open_listenfd"}
    /\ listed \in BOOLEAN
    /\ addr \in Int /\ addrs \in Int
    /\ step \in {"getaddrinfo", "socket", "ended"} => sockets = Helpers!None
    /\ step \in {"setsockopt", "connect", "close"} => addr <= addrs /\ sockets = Only("new")
    /\ step = "freeaddrinfo" /\ addr > addrs => sockets = Helpers!None
    /\ step = "freeaddrinfo" /\ addr <= addrs => sockets = Only("connected")
    /\ step = "listen" => ~listed /\ helper.fn = "open_listenfd" /\ sockets = Only("connected")
    /\ step = "returned" =>
           /\ ~listed
           /\ sockets = Only(IF helper.fn = "open_clientfd" THEN "connected" ELSE "listening")

LEMMA InitHelpersInv == Helpers!Init => HelpersInv
  <1> SUFFICES ASSUME Helpers!Init PROVE HelpersInv
    OBVIOUS
  <1>1. helper.fn \in {"open_clientfd", "open_listenfd"}
    BY Zenon DEF Helpers!Init
  <1>2. step = "getaddrinfo" /\ addr = 0 /\ addrs = 0 /\ listed \in BOOLEAN /\ sockets = Helpers!None
    BY Zenon DEF Helpers!Init
  <1> QED BY <1>1, <1>2 DEF HelpersInv

LEMMA HelpersInvNothingLeft == HelpersInv => Helpers!NothingLeft
  BY DEF HelpersInv, Helpers!NothingLeft, Only

\* A call of the wrappers that end the process: nothing is left.
LEMMA ExitsClean ==
    ASSUME HelpersInv, Helpers!Exit, addr' \in Int, addrs' \in Int
    PROVE  HelpersInv'
  BY DEF HelpersInv, Helpers!Exit, Helpers!Goto, Helpers!None

LEMMA FailsClean ==
    ASSUME HelpersInv, Helpers!Fails, addr' \in Int, addrs' \in Int
    PROVE  HelpersInv'
  <1>1. CASE helper.old
    BY <1>1, ExitsClean DEF Helpers!Fails
  <1>2. CASE ~helper.old
    BY <1>2 DEF Helpers!Fails, Helpers!Goto, HelpersInv
  <1> QED BY <1>1, <1>2

LEMMA StepHelpersInv == HelpersInv /\ [Helpers!Next]_(Helpers!vars) => HelpersInv'
  <1> SUFFICES ASSUME HelpersInv, [Helpers!Next]_(Helpers!vars) PROVE HelpersInv'
    OBVIOUS
  <1>0. addr \in Int /\ addrs \in Int /\ listed \in BOOLEAN
    BY DEF HelpersInv
  <1>1. CASE Helpers!Getaddrinfo
    <2>1. CASE Helpers!Goto("socket") /\ listed' = TRUE /\ addrs' \in 1 .. MaxAddrs /\ addr' = 1
                   /\ UNCHANGED <<socket, sockets>>
      BY <1>1, <2>1, AddrsOK DEF Helpers!Getaddrinfo, Helpers!Goto, HelpersInv, Helpers!None
    <2>2. CASE Helpers!Fails /\ UNCHANGED <<addrs, addr, socket>>
      BY <1>0, <2>2, FailsClean
    <2> QED BY <1>1, <2>1, <2>2 DEF Helpers!Getaddrinfo
  <1>2. CASE Helpers!Socket
    <2>0. sockets = Helpers!None /\ addr <= addrs
      BY <1>2 DEF Helpers!Socket, HelpersInv
    <2>1. ASSUME NEW d \in FDs, socket' = d, sockets' = [sockets EXCEPT ![d] = "new"],
                 Helpers!Goto(IF helper.fn = "open_listenfd" THEN "setsockopt" ELSE "connect"),
                 UNCHANGED <<addrs, addr, listed>>
          PROVE  HelpersInv'
      <3>1. sockets' = Only("new")'
        BY <2>0, <2>1 DEF Only, Helpers!None
      <3>2. step' \in {"setsockopt", "connect"} /\ helper' = helper
        BY <2>1 DEF Helpers!Goto
      <3> QED BY <2>0, <2>1, <3>1, <3>2 DEF HelpersInv
    <2>2. CASE addr' = addr + 1 /\ Helpers!Goto("socket") /\ UNCHANGED <<socket, sockets, addrs, listed>>
      BY <2>0, <2>2 DEF Helpers!Goto, HelpersInv, Helpers!None
    <2> QED BY <1>2, <2>1, <2>2 DEF Helpers!Socket
  <1>3. CASE Helpers!Setsockopt
    <2>1. CASE Helpers!Goto("connect") /\ UNCHANGED <<sockets, listed, addrs, addr, socket>>
      BY <1>3, <2>1 DEF Helpers!Setsockopt, Helpers!Goto, HelpersInv, Only
    <2>2. CASE Helpers!Exit /\ UNCHANGED <<addrs, addr, socket>>
      BY <1>0, <2>2, ExitsClean
    <2> QED BY <1>3, <2>1, <2>2 DEF Helpers!Setsockopt
  <1>4. CASE Helpers!Connect
    <2>0. sockets = Only("new") /\ addr <= addrs
      BY <1>4 DEF Helpers!Connect, HelpersInv
    <2>1. CASE sockets' = [sockets EXCEPT ![socket] = "connected"] /\ Helpers!Goto("freeaddrinfo")
                   /\ UNCHANGED <<addrs, addr, listed, socket>>
      <3>1. sockets' = Only("connected")'
        BY <2>0, <2>1 DEF Only
      <3> QED BY <1>0, <2>0, <2>1, <3>1 DEF Helpers!Goto, HelpersInv
    <2>2. CASE UNCHANGED sockets /\ Helpers!Goto("close") /\ UNCHANGED <<addrs, addr, listed, socket>>
      BY <2>0, <2>2 DEF Helpers!Goto, HelpersInv, Only
    <2> QED BY <1>4, <2>1, <2>2 DEF Helpers!Connect
  <1>5. CASE Helpers!Close
    <2>0. sockets = Only("new")
      BY <1>5 DEF Helpers!Close, HelpersInv
    <2>1. CASE sockets' = [sockets EXCEPT ![socket] = "closed"] /\ addr' = addr + 1
                   /\ Helpers!Goto("socket") /\ UNCHANGED <<listed, addrs, socket>>
      <3>1. sockets' = Helpers!None
        BY <2>0, <2>1 DEF Only, Helpers!None
      <3> QED BY <1>0, <2>1, <3>1 DEF Helpers!Goto, HelpersInv
    <2>2. CASE Helpers!Fails /\ UNCHANGED <<addr, addrs, socket>>
      BY <1>0, <2>2, FailsClean
    <2> QED BY <1>5, <2>1, <2>2 DEF Helpers!Close
  <1>6. CASE Helpers!NoneLeft
    BY <1>6 DEF Helpers!NoneLeft, Helpers!Goto, HelpersInv, Helpers!None
  <1>7. CASE Helpers!Freeaddrinfo
    <2>1. CASE addr > addrs
      <3>1. step' = "failed" /\ helper' = helper /\ listed' = FALSE /\ UNCHANGED <<addrs, addr>>
        BY <1>7, <2>1 DEF Helpers!Freeaddrinfo, Helpers!Goto
      <3> QED BY <3>1 DEF HelpersInv
    <2>2. CASE addr <= addrs
      <3>1. sockets' = Only("connected")' /\ ~listed'
        BY <1>7, <2>2 DEF Helpers!Freeaddrinfo, HelpersInv, Only
      <3>2. helper' = helper /\ step' = IF helper.fn = "open_listenfd" THEN "listen" ELSE "returned"
        BY <1>0, <1>7, <2>2 DEF Helpers!Freeaddrinfo, Helpers!Goto, HelpersInv
      <3> QED BY <1>0, <1>7, <3>1, <3>2 DEF Helpers!Freeaddrinfo, HelpersInv
    <2> QED BY <1>0, <2>1, <2>2
  <1>8. CASE Helpers!Listen
    <2>0. sockets = Only("connected") /\ ~listed /\ helper.fn = "open_listenfd"
      BY <1>8 DEF Helpers!Listen, HelpersInv
    <2>1. CASE sockets' = [sockets EXCEPT ![socket] = "listening"] /\ Helpers!Goto("returned")
                   /\ UNCHANGED <<addrs, addr, listed, socket>>
      <3>1. sockets' = Only("listening")'
        BY <2>0, <2>1 DEF Only
      <3> QED BY <1>0, <2>0, <2>1, <3>1 DEF Helpers!Goto, HelpersInv
    <2>2. CASE Helpers!Goto("failed") /\ UNCHANGED <<addrs, addr, listed, socket>>
      BY <2>2 DEF Helpers!Goto, HelpersInv
    <2> QED BY <1>8, <2>1, <2>2 DEF Helpers!Listen
  <1>9. CASE Helpers!Wrapper
    BY <1>0, <1>9, ExitsClean DEF Helpers!Wrapper
  <1>10. CASE UNCHANGED Helpers!vars
    BY <1>10 DEF Helpers!vars, HelpersInv, Helpers!None, Only
  <1> QED BY <1>1, <1>2, <1>3, <1>4, <1>5, <1>6, <1>7, <1>8, <1>9, <1>10 DEF Helpers!Next

-----------------------------------------------------------------------------
(* server/multi_conecho_server.c                                            *)

LEMMA MinIsMember ==
    ASSUME NEW S, S \subseteq Nat, S # {}
    PROVE  Pool!Min(S) \in S
  BY LeastExists DEF Pool!Min

LEMMA MaxOfTwo ==
    ASSUME NEW a \in Int, NEW b \in Int
    PROVE  Pool!Max({a, b}) = IF a >= b THEN a ELSE b
  <1>1. \E x \in {a, b} : \A y \in {a, b} : x >= y
    OBVIOUS
  <1>2. Pool!Max({a, b}) \in {a, b} /\ \A y \in {a, b} : Pool!Max({a, b}) >= y
    BY <1>1 DEF Pool!Max
  <1> QED BY <1>2

LEMMA SameCount == \A S : Pool!Cardinality(S) = Cardinality(S)
  BY DEF Pool!Cardinality, Cardinality

LEMMA FDsArePositive == \A d \in ClientFDs : d \in Nat /\ d > 0 /\ d # listenfd
  BY DescriptorLimit

\* An assignment of descriptors to slots that gives none to two of them.
Slotted(f) ==
    /\ f \in [Pool!Slots -> ClientFDs \cup {-1}]
    /\ \A j, k \in Pool!Slots : f[j] >= 0 /\ f[j] = f[k] => j = k

\* The slots with a descriptor of R are as many as R, when each of R has one.
LEMMA OneSlotEach ==
    ASSUME NEW f, Slotted(f), NEW R, R \subseteq ClientFDs, R \subseteq {f[k] : k \in Pool!Slots}
    PROVE  Cardinality({k \in 0 .. FDSetSize - 1 : f[k] > 0 /\ f[k] \in R}) = Cardinality(R)
  <1> DEFINE S == {k \in 0 .. FDSetSize - 1 : f[k] > 0 /\ f[k] \in R}
             g == [k \in S |-> f[k]]
  <1>1. IsFiniteSet(S)
    <2>1. IsFiniteSet(0 .. FDSetSize - 1)
      BY SizesOK, FS_Interval
    <2> QED BY <2>1, FS_Subset
  <1>2. g \in Bijection(S, R)
    <2>1. \A k \in S : f[k] \in R
      OBVIOUS
    <2>2. \A j, k \in S : f[j] = f[k] => j = k
      <3> SUFFICES ASSUME NEW j \in S, NEW k \in S, f[j] = f[k] PROVE j = k
        OBVIOUS
      <3>1. j \in Pool!Slots /\ k \in Pool!Slots /\ f[j] >= 0
        <4>1. f[j] \in ClientFDs
          OBVIOUS
        <4> QED BY <4>1, FDsArePositive DEF Pool!Slots
      <3> QED BY <3>1 DEF Slotted
    <2>3. \A r \in R : \E k \in S : f[k] = r
      BY DescriptorLimit DEF Pool!Slots
    <2> HIDE DEF S
    <2>4. g \in [S -> R] /\ \A k \in S : g[k] = f[k]
      BY <2>1
    <2>5. g \in Injection(S, R)
      BY <2>2, <2>4 DEF Injection, IsInjective
    <2>6. g \in Surjection(S, R)
      BY <2>3, <2>4 DEF Surjection
    <2> QED BY <2>5, <2>6 DEF Bijection
  <1>3. ExistsBijection(S, R)
    BY <1>2 DEF ExistsBijection
  <1> QED BY <1>1, <1>3, FS_Bijection

\* Slot 0 and the rest are more than the descriptors of clients, 0 not being one: while one
\* of these is closed, a slot is free.
LEMMA SlotLeft ==
    ASSUME NEW f, Slotted(f), NEW d \in ClientFDs, d \notin {f[k] : k \in Pool!Slots}
    PROVE  \E k \in Pool!Slots : f[k] < 0
  <1> SUFFICES ASSUME \A k \in Pool!Slots : ~(f[k] < 0) PROVE FALSE
    OBVIOUS
  <1>1. f \in [Pool!Slots -> ClientFDs]
    BY DescriptorLimit DEF Slotted
  <1>2. IsFiniteSet(Pool!Slots) /\ Cardinality(Pool!Slots) = FDSetSize
    BY SizesOK, FS_Interval DEF Pool!Slots
  <1>3. FDSetSize - 1 \in Nat /\ ClientFDs \subseteq 1 .. FDSetSize - 1
    BY DescriptorLimit, SizesOK
  <1>4. Cardinality(ClientFDs) < FDSetSize
    <2>1. IsFiniteSet(1 .. FDSetSize - 1) /\ Cardinality(1 .. FDSetSize - 1) = FDSetSize - 1
      BY <1>3, SizesOK, FS_Interval
    <2>2. Cardinality(ClientFDs) <= FDSetSize - 1
      BY <1>3, <2>1, FS_Subset, Zenon
    <2>3. Cardinality(ClientFDs) \in Nat
      BY DescriptorLimit, FS_CardinalityType
    <2> QED BY <2>2, <2>3, SizesOK
  <1>5. PICK j, k \in Pool!Slots : j # k /\ f[j] = f[k]
    BY <1>1, <1>2, <1>4, DescriptorLimit, FS_PigeonHole
  <1>6. f[j] >= 0
    BY <1>1, FDsArePositive
  <1> QED BY <1>5, <1>6 DEF Slotted

-----------------------------------------------------------------------------
(* Its inductive invariant                                                  *)

\* Between select() and accept() the listening socket is one of the ready ones, and all others
\* are connections that the pool has.
Accepting ==
    /\ at = "accept" => /\ listenfd \in ready_set /\ ready_set \subseteq open \cup {listenfd}
                        /\ nready = Cardinality(ready_set)
                        /\ i = 0 /\ backlog > 0

PoolIndInv == Pool!TypeOK /\ Pool!PoolConsistent /\ Pool!NreadyExact /\ Accepting

LEMMA PoolSlotted ==
    Pool!TypeOK /\ Pool!PoolConsistent => Slotted(clientfd) /\ open \subseteq {clientfd[k] : k \in Pool!Slots}
  BY DEF Pool!TypeOK, Pool!PoolConsistent, Slotted, Pool!Used

LEMMA InitPoolIndInv == Pool!Init => PoolIndInv
  <1> SUFFICES ASSUME Pool!Init PROVE PoolIndInv
    OBVIOUS
  <1> USE SameCount
  <1>1. Cardinality(ClientFDs) \in Nat
    BY DescriptorLimit, FS_CardinalityType
  <1>2. Pool!TypeOK
    BY <1>1, SizesOK DEF Pool!Init, Pool!TypeOK
  <1>3. Pool!PoolConsistent
    BY DescriptorLimit DEF Pool!Init, Pool!PoolConsistent, Pool!Used
  <1> QED BY <1>2, <1>3, SizesOK DEF Pool!Init, PoolIndInv, Pool!NreadyExact, Accepting

LEMMA StepPoolTypes == PoolIndInv /\ [Pool!Next]_(Pool!vars) => Pool!TypeOK'
  <1> SUFFICES ASSUME PoolIndInv, [Pool!Next]_(Pool!vars) PROVE Pool!TypeOK'
    OBVIOUS
  <1> USE SameCount
  <1>a. Pool!TypeOK /\ Accepting
    BY DEF PoolIndInv
  <1>b. Cardinality(ClientFDs) \in Nat /\ FDSetSize \in Nat
    BY DescriptorLimit, SizesOK, FS_CardinalityType
  <1>1. CASE Pool!Select
    <2> DEFINE Ready == {d \in read_set : d <= maxfd /\ Pool!Readable(d)}
    <2>1. Ready \subseteq ClientFDs \cup {listenfd}
      BY <1>a DEF Pool!TypeOK
    <2>2. Cardinality(Ready) \in 0 .. Cardinality(ClientFDs) + 1
      <3> HIDE DEF Ready
      <3>1. IsFiniteSet(ClientFDs \cup {listenfd}) /\ Cardinality(ClientFDs \cup {listenfd}) <= Cardinality(ClientFDs) + 1
        BY <1>b, DescriptorLimit, FS_AddElement
      <3>2. IsFiniteSet(Ready) /\ Cardinality(Ready) <= Cardinality(ClientFDs \cup {listenfd})
        BY <2>1, <3>1, FS_Subset
      <3> QED BY <1>b, <3>1, <3>2, FS_CardinalityType
    <2>3. /\ ready_set' = Ready /\ nready' = Cardinality(Ready)
          /\ at' \in {"accept", "check"} /\ i' = 0
          /\ UNCHANGED <<clientfd, read_set, maxi, maxfd, Pool!net, up>>
      BY <1>1 DEF Pool!Select
    <2> HIDE DEF Ready
    <2> QED BY <1>a, <1>b, <2>1, <2>2, <2>3 DEF Pool!TypeOK, Pool!net
  <1>2. CASE Pool!AcceptClient
    <2>1. PICK d \in ClientFDs \ open : Pool!AddClient(d) /\ open' = open \cup {d}
      <3>1. Pool!Min(ClientFDs \ open) \in ClientFDs \ open
        BY <1>2, DescriptorLimit, MinIsMember DEF Pool!AcceptClient
      <3> QED BY <1>2, <3>1 DEF Pool!AcceptClient
    <2>2. /\ at' = "check" /\ backlog' = backlog - 1 /\ at = "accept"
          /\ UNCHANGED <<ready_set, i, unread, part, eof, up>>
      BY <1>2 DEF Pool!AcceptClient
    <2>3. nready' = nready - 1 /\ nready' \in 0 .. Cardinality(ClientFDs) + 1
      <3>1. nready # 0
        <4>1. IsFiniteSet(ready_set)
          <5>1. IsFiniteSet(ClientFDs \cup {listenfd})
            BY DescriptorLimit, FS_AddElement
          <5> QED BY <5>1, <1>a, FS_Subset DEF Pool!TypeOK
        <4>2. listenfd \in ready_set /\ nready = Cardinality(ready_set)
          BY <1>a, <2>2 DEF Accepting
        <4> QED BY <4>1, <4>2, FS_EmptySet
      <3> QED BY <1>a, <1>b, <2>1, <3>1 DEF Pool!TypeOK, Pool!AddClient
    <2>4. backlog' \in 0 .. LISTENQ
      BY <1>a, <2>2, SizesOK DEF Pool!TypeOK, Accepting
    <2>5. /\ clientfd' \in [Pool!Slots -> ClientFDs \cup {-1}] /\ read_set' \subseteq ClientFDs \cup {listenfd}
          /\ maxi' \in Pool!Slots \cup {-1} /\ maxfd' \in ClientFDs \cup {listenfd}
      <3> DEFINE Free == {s \in Pool!Slots : clientfd[s] < 0}
      <3>1. CASE Free = {}
        BY <1>a, <2>1, <3>1 DEF Pool!AddClient, Pool!TypeOK
      <3>2. CASE Free # {}
        <4>1. Pool!Min(Free) \in Pool!Slots
          BY <3>2, MinIsMember DEF Pool!Slots
        <4> DEFINE k == Pool!Min(Free)
        <4> HIDE DEF k
        <4>2. /\ clientfd' = [clientfd EXCEPT ![k] = d] /\ read_set' = read_set \cup {d}
              /\ maxfd' = Pool!Max({maxfd, d}) /\ maxi' = Pool!Max({maxi, k})
          BY <2>1, <3>2 DEF Pool!AddClient, k
        <4>3. k \in Pool!Slots /\ k \in Int /\ maxi \in Int /\ d \in Int /\ maxfd \in Int
          BY <1>a, <4>1, DescriptorLimit DEF Pool!TypeOK, Pool!Slots, k
        <4>4. maxfd' \in {maxfd, d} /\ maxi' \in {maxi, k}
          BY <4>2, <4>3, MaxOfTwo
        <4> QED BY <1>a, <2>1, <4>2, <4>3, <4>4 DEF Pool!TypeOK
      <3> QED BY <3>1, <3>2
    <2> QED BY <1>a, <2>1, <2>2, <2>3, <2>4, <2>5 DEF Pool!TypeOK
  <1>3. CASE Pool!AcceptFails
    BY <1>a, <1>3 DEF Pool!AcceptFails, Pool!TypeOK, Pool!pool, Pool!net
  <1>4. ASSUME Pool!InLoop PROVE i + 1 \in 0 .. FDSetSize /\ nready - 1 \in 0 .. Cardinality(ClientFDs) + 1
    BY <1>a, <1>b, <1>4 DEF Pool!InLoop, Pool!TypeOK, Pool!Slots
  <1>5. CASE Pool!Pass
    BY <1>a, <1>4, <1>5 DEF Pool!Pass, Pool!TypeOK, Pool!pool, Pool!net
  <1>6. CASE Pool!EndCheck
    BY <1>a, <1>6 DEF Pool!EndCheck, Pool!TypeOK, Pool!pool, Pool!net
  <1>7. ASSUME NEW d \in ClientFDs, Pool!EchoLine(d) PROVE Pool!TypeOK'
    BY <1>a, <1>4, <1>7, SizesOK DEF Pool!EchoLine, Pool!TypeOK
  <1>8. ASSUME NEW d \in ClientFDs, Pool!CloseClient(d) PROVE Pool!TypeOK'
    <2>1. /\ Pool!InLoop /\ nready' = nready - 1 /\ i' = i + 1
          /\ open' = open \ {d} /\ read_set' = read_set \ {d}
          /\ eof' = [eof EXCEPT ![d] = FALSE] /\ clientfd' = [clientfd EXCEPT ![i] = -1]
          /\ UNCHANGED <<ready_set, maxi, maxfd, at, backlog, unread, part, up>>
      BY <1>8 DEF Pool!CloseClient
    <2> QED BY <1>a, <1>4, <2>1 DEF Pool!TypeOK
  <1>9. CASE Pool!Connect
    BY <1>a, <1>9, SizesOK DEF Pool!Connect, Pool!TypeOK, Accepting, Pool!pool
  <1>10. CASE Pool!ClientResets
    BY <1>a, <1>10 DEF Pool!ClientResets, Pool!TypeOK, Pool!pool, Pool!net
  <1>11. ASSUME NEW d \in ClientFDs, Pool!SendLine(d) PROVE Pool!TypeOK'
    BY <1>a, <1>11, SizesOK DEF Pool!SendLine, Pool!TypeOK, Pool!pool
  <1>12. ASSUME NEW d \in ClientFDs, Pool!SendPart(d) \/ Pool!Finish(d) PROVE Pool!TypeOK'
    BY <1>a, <1>12 DEF Pool!SendPart, Pool!Finish, Pool!TypeOK, Pool!pool
  <1>13. CASE UNCHANGED Pool!vars
    BY <1>a, <1>13 DEF Pool!TypeOK, Pool!vars, Pool!pool, Pool!net
  <1> QED BY <1>1, <1>2, <1>3, <1>5, <1>6, <1>7, <1>8, <1>9, <1>10, <1>11, <1>12, <1>13
          DEF Pool!Next, Pool!Server, Pool!Clients

\* A new client gets a slot, which is the first free one.
LEMMA NewClient ==
    ASSUME Pool!TypeOK, Pool!PoolConsistent, Pool!AcceptClient
    PROVE  \E d \in ClientFDs \ open, k \in Pool!Slots :
               /\ clientfd[k] < 0 /\ clientfd' = [clientfd EXCEPT ![k] = d]
               /\ open' = open \cup {d} /\ read_set' = read_set \cup {d}
               /\ maxfd' = Pool!Max({maxfd, d}) /\ maxi' = Pool!Max({maxi, k})
  <1>1. PICK d \in ClientFDs \ open : Pool!AddClient(d) /\ open' = open \cup {d}
    <2>1. Pool!Min(ClientFDs \ open) \in ClientFDs \ open
      BY DescriptorLimit, MinIsMember DEF Pool!AcceptClient
    <2> QED BY <2>1 DEF Pool!AcceptClient
  <1> DEFINE Free == {s \in Pool!Slots : clientfd[s] < 0}
  <1>2. Free # {}
    <2>1. d \notin {clientfd[k] : k \in Pool!Slots}
      BY <1>1, FDsArePositive DEF Pool!TypeOK, Pool!PoolConsistent, Pool!Used
    <2> QED BY <2>1, PoolSlotted, SlotLeft
  <1>3. Pool!Min(Free) \in Free
    BY <1>2, MinIsMember DEF Pool!Slots
  <1> QED BY <1>1, <1>2, <1>3 DEF Pool!AddClient

LEMMA StepPoolConsistent == PoolIndInv /\ [Pool!Next]_(Pool!vars) => Pool!PoolConsistent'
  <1> SUFFICES ASSUME PoolIndInv, [Pool!Next]_(Pool!vars) PROVE Pool!PoolConsistent'
    OBVIOUS
  <1>a. Pool!TypeOK /\ Pool!PoolConsistent
    BY DEF PoolIndInv
  <1>1. CASE UNCHANGED <<clientfd, read_set, maxi, maxfd, open>>
    BY <1>a, <1>1 DEF Pool!PoolConsistent, Pool!Used
  <1>2. CASE Pool!AcceptClient
    <2>1. PICK d \in ClientFDs \ open, k \in Pool!Slots :
               /\ clientfd[k] < 0 /\ clientfd' = [clientfd EXCEPT ![k] = d]
               /\ open' = open \cup {d} /\ read_set' = read_set \cup {d}
               /\ maxfd' = Pool!Max({maxfd, d}) /\ maxi' = Pool!Max({maxi, k})
      BY <1>a, <1>2, NewClient
    <2>2. /\ clientfd'[k] = d /\ d >= 0 /\ d \in Nat
          /\ \A s \in Pool!Slots \ {k} : clientfd'[s] = clientfd[s]
      BY <1>a, <2>1, FDsArePositive DEF Pool!TypeOK
    <2>3. Pool!Used' = Pool!Used \cup {k} /\ k \notin Pool!Used
      <3>1. \A s \in Pool!Slots : s \in Pool!Used' <=> s \in Pool!Used \cup {k}
        BY <2>2 DEF Pool!Used
      <3>2. ~(clientfd[k] >= 0)
        BY <1>a, <2>1, FDsArePositive DEF Pool!TypeOK
      <3> QED BY <2>1, <3>1, <3>2 DEF Pool!Used
    <2>4. {clientfd'[s] : s \in Pool!Used'} = open'
      <3>1. {clientfd[s] : s \in Pool!Used} = open
        BY <1>a DEF Pool!PoolConsistent
      <3>2. \A s \in Pool!Used : clientfd'[s] = clientfd[s]
        BY <2>2, <2>3 DEF Pool!Used
      <3> QED BY <2>1, <2>2, <2>3, <3>1, <3>2
    <2>5. \A j, l \in Pool!Used' : clientfd'[j] = clientfd'[l] => j = l
      <3>1. \A s \in Pool!Used : clientfd'[s] = clientfd[s] /\ clientfd[s] \in open
        BY <1>a, <2>2, <2>3 DEF Pool!Used, Pool!PoolConsistent
      <3> QED BY <1>a, <2>1, <2>2, <2>3, <3>1 DEF Pool!PoolConsistent
    <2>6. read_set' = open' \cup {listenfd}
      BY <1>a, <2>1 DEF Pool!PoolConsistent
    <2>7. \A s \in Pool!Used' : s <= maxi'
      <3>1. maxi \in Int /\ k \in Int /\ \A s \in Pool!Used : s \in Int
        BY <1>a, <2>1, SizesOK DEF Pool!TypeOK, Pool!Slots, Pool!Used
      <3>2. maxi' = IF maxi >= k THEN maxi ELSE k
        BY <2>1, <3>1, MaxOfTwo
      <3> QED BY <1>a, <2>3, <3>1, <3>2 DEF Pool!PoolConsistent
    <2>8. \A f \in read_set' : f <= maxfd'
      <3>1. maxfd \in Int /\ d \in Int /\ \A f \in read_set : f \in Int
        BY <1>a, <2>1, DescriptorLimit DEF Pool!TypeOK
      <3>2. maxfd' = IF maxfd >= d THEN maxfd ELSE d
        BY <2>1, <3>1, MaxOfTwo
      <3> QED BY <1>a, <2>1, <3>1, <3>2 DEF Pool!PoolConsistent
    <2> QED BY <2>4, <2>5, <2>6, <2>7, <2>8 DEF Pool!PoolConsistent
  <1>3. ASSUME NEW d \in ClientFDs, Pool!CloseClient(d) PROVE Pool!PoolConsistent'
    <2>1. /\ i \in Pool!Slots /\ clientfd[i] = d /\ clientfd' = [clientfd EXCEPT ![i] = -1]
          /\ open' = open \ {d} /\ read_set' = read_set \ {d} /\ UNCHANGED <<maxi, maxfd>>
      BY <1>a, <1>3, SizesOK DEF Pool!CloseClient, Pool!InLoop, Pool!TypeOK, Pool!Slots
    <2>2. Pool!Used' = Pool!Used \ {i} /\ i \in Pool!Used /\ \A s \in Pool!Used' : clientfd'[s] = clientfd[s]
      BY <1>a, <2>1, FDsArePositive DEF Pool!TypeOK, Pool!Used
    <2>3. {clientfd'[s] : s \in Pool!Used'} = open'
      <3>1. {clientfd[s] : s \in Pool!Used} = open
        BY <1>a DEF Pool!PoolConsistent
      <3>2. \A s \in Pool!Used : s # i => clientfd[s] # d
        BY <1>a, <2>1, <2>2 DEF Pool!PoolConsistent
      <3> QED BY <2>1, <2>2, <3>1, <3>2
    <2>4. read_set' = open' \cup {listenfd}
      BY <1>a, <2>1, FDsArePositive DEF Pool!PoolConsistent
    <2> QED BY <1>a, <2>1, <2>2, <2>3, <2>4 DEF Pool!PoolConsistent
  <1>4. ASSUME NEW d \in ClientFDs, Pool!EchoLine(d) PROVE Pool!PoolConsistent'
    BY <1>1, <1>4 DEF Pool!EchoLine
  <1>5. CASE Pool!Select \/ Pool!AcceptFails \/ Pool!Pass \/ Pool!EndCheck \/ Pool!Connect \/ Pool!ClientResets
             \/ (\E d \in ClientFDs : Pool!SendLine(d) \/ Pool!SendPart(d) \/ Pool!Finish(d)) \/ UNCHANGED Pool!vars
    BY <1>1, <1>5 DEF Pool!Select, Pool!AcceptFails, Pool!Pass, Pool!EndCheck, Pool!Connect, Pool!ClientResets, Pool!SendLine,
                      Pool!SendPart, Pool!Finish, Pool!vars, Pool!pool, Pool!net
  <1> QED BY <1>2, <1>3, <1>4, <1>5 DEF Pool!Next, Pool!Server, Pool!Clients

\* The ready clients that are left lose the one whose slot the loop passes.
LEMMA PassSlot ==
    ASSUME Pool!TypeOK, NEW f, NEW k \in Pool!Slots, \A s \in Pool!Slots \ {k} : f[s] = clientfd[s]
    PROVE  LET Left == {s \in k .. FDSetSize - 1 : clientfd[s] > 0 /\ clientfd[s] \in ready_set}
               Rest == {s \in k + 1 .. FDSetSize - 1 : f[s] > 0 /\ f[s] \in ready_set}
           IN  /\ Rest = Left \ {k} /\ IsFiniteSet(Left)
               /\ k \in Left <=> clientfd[k] > 0 /\ clientfd[k] \in ready_set
  <1>1. IsFiniteSet(k .. FDSetSize - 1)
    BY SizesOK, FS_Interval DEF Pool!Slots
  <1>2. k \in k .. FDSetSize - 1 /\ k + 1 .. FDSetSize - 1 = (k .. FDSetSize - 1) \ {k}
    BY SizesOK DEF Pool!Slots
  <1>3. k .. FDSetSize - 1 \subseteq Pool!Slots
    BY SizesOK DEF Pool!Slots
  <1> DEFINE Left == {s \in k .. FDSetSize - 1 : clientfd[s] > 0 /\ clientfd[s] \in ready_set}
             Rest == {s \in k + 1 .. FDSetSize - 1 : f[s] > 0 /\ f[s] \in ready_set}
  <1>4. Left \subseteq k .. FDSetSize - 1
    OBVIOUS
  <1>5. IsFiniteSet(Left)
    BY <1>1, <1>4, FS_Subset
  <1>6. Rest = Left \ {k}
    <2>1. \A s \in (k .. FDSetSize - 1) \ {k} : f[s] = clientfd[s]
      BY <1>3
    <2> QED BY <1>2, <2>1
  <1> QED BY <1>2, <1>5, <1>6

LEMMA StepNreadyExact == PoolIndInv /\ [Pool!Next]_(Pool!vars) => Pool!NreadyExact'
  <1> SUFFICES ASSUME PoolIndInv, [Pool!Next]_(Pool!vars) PROVE Pool!NreadyExact'
    OBVIOUS
  <1> USE SameCount
  <1>a. Pool!TypeOK /\ Pool!PoolConsistent /\ Pool!NreadyExact /\ Accepting
    BY DEF PoolIndInv
  <1>b. Pool!TypeOK' /\ Pool!PoolConsistent'
    BY StepPoolTypes, StepPoolConsistent
  <1>c. Slotted(clientfd') /\ open' \subseteq {clientfd'[k] : k \in Pool!Slots}
    BY <1>b DEF Pool!TypeOK, Pool!PoolConsistent, Slotted, Pool!Used
  <1>1. CASE UNCHANGED <<clientfd, ready_set, nready, i>> /\ at' = at
    BY <1>a, <1>1 DEF Pool!NreadyExact
  <1>2. CASE Pool!Select
    <2>1. CASE listenfd \in ready_set'
      BY <1>2, <2>1 DEF Pool!Select, Pool!NreadyExact
    <2>2. CASE listenfd \notin ready_set'
      <3>1. /\ ready_set' \subseteq open' /\ nready' = Cardinality(ready_set') /\ i' = 0
        BY <1>a, <1>2, <2>2 DEF Pool!Select, Pool!PoolConsistent, Pool!net
      <3>2. ready_set' \subseteq ClientFDs /\ ready_set' \subseteq {clientfd'[k] : k \in Pool!Slots}
        BY <1>b, <1>c, <3>1 DEF Pool!TypeOK
      <3> QED BY <1>c, <3>1, <3>2, OneSlotEach DEF Pool!NreadyExact
    <2> QED BY <2>1, <2>2
  <1>3. CASE Pool!AcceptClient
    <2> DEFINE R == ready_set \ {listenfd}
    <2>1. /\ at = "accept" /\ i' = 0 /\ nready' = nready - 1 /\ ready_set' = ready_set
          /\ \E d \in ClientFDs \ open : open' = open \cup {d}
      <3>1. at = "accept" /\ i' = i /\ nready' = nready - 1 /\ ready_set' = ready_set
        BY <1>3 DEF Pool!AcceptClient, Pool!AddClient
      <3>2. \E d \in ClientFDs \ open : open' = open \cup {d}
        BY <1>a, <1>3, NewClient
      <3> QED BY <1>a, <3>1, <3>2 DEF Accepting
    <2>2. IsFiniteSet(ready_set) /\ listenfd \in ready_set /\ nready = Cardinality(ready_set)
      <3>1. IsFiniteSet(ClientFDs \cup {listenfd})
        BY DescriptorLimit, FS_AddElement
      <3> QED BY <3>1, <1>a, <2>1, FS_Subset DEF Pool!TypeOK, Accepting
    <2>3. nready' = Cardinality(R)
      <3>1. Cardinality(R) = Cardinality(ready_set) - 1
        BY <2>2, FS_RemoveElement
      <3> QED BY <2>1, <2>2, <3>1
    <2>4. R \subseteq open /\ R \subseteq ClientFDs /\ R \subseteq {clientfd'[k] : k \in Pool!Slots}
      BY <1>a, <1>c, <2>1 DEF Accepting, Pool!TypeOK
    <2>5. Cardinality({k \in 0 .. FDSetSize - 1 : clientfd'[k] > 0 /\ clientfd'[k] \in R})
             = Cardinality(R)
      BY <1>c, <2>4, OneSlotEach
    <2>6. \A k \in 0 .. FDSetSize - 1 :
              clientfd'[k] > 0 /\ clientfd'[k] \in ready_set
                  <=> clientfd'[k] > 0 /\ clientfd'[k] \in R
      <3>1. listenfd \notin ClientFDs /\ listenfd # -1
        BY DescriptorLimit
      <3> QED BY <1>b, <3>1 DEF Pool!TypeOK, Pool!Slots
    <2>7. {k \in 0 .. FDSetSize - 1 : clientfd'[k] > 0 /\ clientfd'[k] \in ready_set}
              = {k \in 0 .. FDSetSize - 1 : clientfd'[k] > 0 /\ clientfd'[k] \in R}
      BY <2>6
    <2> HIDE DEF R
    <2> QED BY <2>1, <2>3, <2>5, <2>7 DEF Pool!NreadyExact
  <1>4. ASSUME Pool!InLoop, i' = i + 1, UNCHANGED <<ready_set, at>>,
               \A s \in Pool!Slots \ {i} : clientfd'[s] = clientfd[s],
               nready' = IF Pool!SlotReady THEN nready - 1 ELSE nready
        PROVE  Pool!NreadyExact'
    <2> DEFINE Left == {s \in i .. FDSetSize - 1 : clientfd[s] > 0 /\ clientfd[s] \in ready_set}
               Rest == {s \in i + 1 .. FDSetSize - 1 : clientfd'[s] > 0 /\ clientfd'[s] \in ready_set}
    <2>1. i \in Pool!Slots /\ at = "check"
      BY <1>a, <1>4, SizesOK DEF Pool!InLoop, Pool!TypeOK, Pool!Slots
    <2>2. nready = Cardinality(Left)
      BY <1>a, <2>1 DEF Pool!NreadyExact
    <2>3. Rest = Left \ {i} /\ IsFiniteSet(Left) /\ (i \in Left <=> Pool!SlotReady)
      BY <1>a, <1>4, <2>1, PassSlot DEF Pool!SlotReady
    <2> HIDE DEF Left, Rest
    <2>4. Cardinality(Rest) = nready'
      BY <1>4, <2>2, <2>3, FS_RemoveElement
    <2> QED BY <1>4, <2>4 DEF Pool!NreadyExact, Rest
  <1>5. CASE Pool!Pass
    BY <1>4, <1>5 DEF Pool!Pass, Pool!pool
  <1>6. ASSUME NEW d \in ClientFDs, Pool!EchoLine(d) PROVE Pool!NreadyExact'
    BY <1>4, <1>6 DEF Pool!EchoLine
  <1>7. ASSUME NEW d \in ClientFDs, Pool!CloseClient(d) PROVE Pool!NreadyExact'
    <2>1. /\ Pool!InLoop /\ Pool!SlotReady /\ nready' = nready - 1 /\ i' = i + 1
          /\ clientfd' = [clientfd EXCEPT ![i] = -1] /\ UNCHANGED <<ready_set, at>>
      BY <1>7 DEF Pool!CloseClient
    <2>2. \A s \in Pool!Slots \ {i} : clientfd'[s] = clientfd[s]
      BY <1>a, <2>1 DEF Pool!TypeOK
    <2> QED BY <1>4, <2>1, <2>2
  <1>8. CASE Pool!EndCheck
    BY <1>8 DEF Pool!EndCheck, Pool!NreadyExact
  <1>9. CASE Pool!AcceptFails \/ Pool!Connect \/ Pool!ClientResets
             \/ (\E d \in ClientFDs : Pool!SendLine(d) \/ Pool!SendPart(d) \/ Pool!Finish(d)) \/ UNCHANGED Pool!vars
    BY <1>1, <1>9 DEF Pool!AcceptFails, Pool!Connect, Pool!ClientResets, Pool!SendLine,
                      Pool!SendPart, Pool!Finish, Pool!vars, Pool!pool, Pool!net
  <1> QED BY <1>2, <1>3, <1>5, <1>6, <1>7, <1>8, <1>9 DEF Pool!Next, Pool!Server, Pool!Clients

LEMMA StepAccepting == PoolIndInv /\ [Pool!Next]_(Pool!vars) => Accepting'
  <1> SUFFICES ASSUME PoolIndInv, [Pool!Next]_(Pool!vars) PROVE Accepting'
    OBVIOUS
  <1>a. Pool!TypeOK /\ Pool!PoolConsistent /\ Accepting
    BY DEF PoolIndInv
  <1>b. backlog \in Int
    BY <1>a, SizesOK DEF Pool!TypeOK
  <1>1. CASE Pool!Select
    BY SameCount, <1>a, <1>1 DEF Pool!Select, Accepting, Pool!PoolConsistent, Pool!Readable, Pool!net
  <1>2. CASE Pool!AcceptClient
    BY <1>a, <1>b, <1>2 DEF Pool!AcceptClient, Accepting
  <1>3. CASE Pool!Connect
    BY <1>a, <1>b, <1>3 DEF Pool!Connect, Accepting, Pool!pool
  <1>4. ASSUME NEW d \in ClientFDs, Pool!EchoLine(d) \/ Pool!CloseClient(d) PROVE Accepting'
    BY <1>a, <1>4 DEF Pool!EchoLine, Pool!CloseClient, Pool!InLoop, Accepting
  <1>5. CASE Pool!Pass \/ Pool!EndCheck
    BY <1>a, <1>5 DEF Pool!Pass, Pool!EndCheck, Pool!InLoop, Accepting, Pool!pool, Pool!net
  <1>6. CASE Pool!AcceptFails \/ Pool!ClientResets
             \/ (\E d \in ClientFDs : Pool!SendLine(d) \/ Pool!SendPart(d) \/ Pool!Finish(d)) \/ UNCHANGED Pool!vars
    BY <1>a, <1>6 DEF Pool!AcceptFails, Pool!ClientResets, Pool!SendLine, Pool!SendPart, Pool!Finish, Pool!vars, Pool!pool, Pool!net, Accepting
  <1> QED BY <1>1, <1>2, <1>3, <1>4, <1>5, <1>6 DEF Pool!Next, Pool!Server, Pool!Clients

-----------------------------------------------------------------------------
(* A step of module Servers is one of the program that was started          *)

LEMMA EachRunsItsOwn ==
    ASSUME [Next]_vars
    PROVE  /\ program' = program
           /\ program = "fork" => [Fork!Next]_(Fork!vars)
           /\ program = "thread" => [Thread!Next]_(Thread!vars)
           /\ program = "pool" => [Pool!Next]_(Pool!vars)
           /\ program = "web" => [Web!Next]_(Web!vars)
           /\ program = "sum" => [Sum!Next]_(Sum!vars)
           /\ program = "helpers" => [Helpers!Next]_(Helpers!vars)
  BY DEF Next, vars, forkVars, threadVars, poolVars, tinyVars, counterVars, socketVars,
         Fork!vars, Thread!vars, Pool!vars, Pool!pool, Pool!net, Web!vars, Sum!vars, Helpers!vars

\* The invariants of the programs, each of its own.
Forks == program = "fork" => ReapInv /\ HolderInv
Threading == /\ program = "thread" => HandInv
             /\ program = "sum" => CountInv

\* server/process_conecho_server.c: signals merge, but an ended child that was not reaped is
\* one that a pending signal or the running handler will reap; and a connection is held by
\* the server between accept() and close() only and otherwise by one child, which while it
\* echoes holds nothing else, so that closing it there closes the connection.
THEOREM ChildrenReapedAndConnectionsHeldOnce ==
    Spec => []ForkInv
  <1>0. main \notin Pids /\ Fork!listen \notin Conns
    BY ForkOK DEF Fork!listen
  <1>1. Init => Forks
    BY <1>0, InitReapInv, InitHolderInv DEF Init, Forks
  <1>2. Forks /\ [Next]_vars => Forks'
    BY <1>0, EachRunsItsOwn, StepReapInv, StepHolderInv DEF Forks
  <1>3. Forks => ForkInv
    BY HolderInvOneHolder DEF Forks, ForkInv, ReapInv
  <1> QED BY <1>1, <1>2, <1>3, PTL DEF Spec

\* thread/thread.c: what thread() reads through its argument is what main() stored there
\* for it, no other thread has the block or the descriptor.  thread/mutex.c: whenever the
\* semaphore is free the counter is the sum of the turns done, and exact at the end.
THEOREM HandedOverAndCounted ==
    Spec => []ThreadsInv
  <1>1. Init => Threading
    BY InitHandInv, InitCountInv DEF Init, Threading
  <1>2. Threading /\ [Next]_vars => Threading'
    BY EachRunsItsOwn, StepHandInv, StepCountInv DEF Threading
  <1>3. Threading => ThreadsInv
    BY CounterOK, CountInvExact DEF Threading, ThreadsInv, HandInv
  <1> QED BY <1>1, <1>2, <1>3, PTL DEF Spec

Pooling == program = "pool" => PoolIndInv

\* server/multi_conecho_server.c: each open connection is in one slot and in read_set, the
\* bounds that select() and check_clients() go by cover them all, and nready is the number of
\* ready clients the loop has still to come to, also when a client was accepted in between.
THEOREM PoolIsKept == Spec => []PoolInv
  <1>1. Init => Pooling
    BY InitPoolIndInv DEF Init, Pooling
  <1>2. Pooling /\ [Next]_vars => Pooling'
    BY EachRunsItsOwn, StepPoolTypes, StepPoolConsistent, StepNreadyExact, StepAccepting
       DEF Pooling, PoolIndInv
  <1>3. Pooling => PoolInv
    BY DEF Pooling, PoolIndInv, PoolInv, Pool!PoolInv
  <1> QED BY <1>1, <1>2, <1>3, PTL DEF Spec

Webbing == program = "web" => WebInvariant

\* tiny/tiny.c: each client gets one whole answer, the right one for its request and for the
\* file as stat() found it, and nothing of it (descriptor, mapping, child) is left for the next.
THEOREM EachAnsweredOnce == Spec => []WebInv
  <1>1. Init => Webbing
    BY InitWebInvariant DEF Init, Webbing
  <1>2. Webbing /\ [Next]_vars => Webbing'
    BY EachRunsItsOwn, StepWebInvariant DEF Webbing
  <1>3. Webbing => WebInv
    BY DEF Webbing, WebInvariant, WebHolds, WebInv, Web!CleanBetweenClients
  <1> QED BY <1>1, <1>2, <1>3, PTL DEF Spec

Helping == program = "helpers" => HelpersInv

\* open_clientfd, open_listenfd and their wrappers in both csapp.c: for any number of addresses
\* and whatever fails at each, no socket of an address that did not work stays open, and a
\* caller that goes on has the one socket it asked for and no list of addresses.
THEOREM NoSocketIsForgotten == Spec => []NothingLeft
  <1>1. Init => Helping
    BY InitHelpersInv DEF Init, Helping
  <1>2. Helping /\ [Next]_vars => Helping'
    BY EachRunsItsOwn, StepHelpersInv DEF Helping
  <1>3. Helping => NothingLeft
    BY HelpersInvNothingLeft DEF Helping, NothingLeft
  <1> QED BY <1>1, <1>2, <1>3, PTL DEF Spec
=============================================================================
