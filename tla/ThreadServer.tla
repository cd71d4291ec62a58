---------------------------- MODULE ThreadServer ----------------------------
(***************************************************************************)
(* The echo server of thread/thread.c: one detached thread for every       *)
(* connection.  main() hands the descriptor over in a block of the heap,   *)
(* allocated for this connection and freed by the thread that reads it;    *)
(* blocks, descriptors and threads are all used again.                     *)
(***************************************************************************)
EXTENDS Naturals, FiniteSets

CONSTANTS
    FDs,        \* the descriptors accept() may return
    Blocks,     \* the addresses malloc() may return
    Threads,
    Nil         \* no descriptor, no block

VARIABLES
    at,         \* where main() is: "malloc", "accept", "create"
    connfdp,    \* main's pointer
    heap,       \* the contents of the blocks, garbage included
    allocated,  \* the blocks in use
    thread,     \* where each thread is: see States
    vargp,      \* the argument of each thread
    fd,         \* the variable connfd of each thread
    open,       \* the descriptors of open connections
    eof,        \* those of them whose client has finished
    up

vars == <<at, connfdp, heap, allocated, thread, vargp, fd, open, eof, up>>
States == {"none", "read", "detach", "free", "echo", "close"}

Init ==
    /\ at = "malloc" /\ connfdp = Nil
    /\ heap = [b \in Blocks |-> Nil] /\ allocated = {}
    /\ thread = [t \in Threads |-> "none"]
    /\ vargp = [t \in Threads |-> Nil]
    /\ fd = [t \in Threads |-> Nil]
    /\ open = {} /\ eof = {}
    /\ up = TRUE

-----------------------------------------------------------------------------
(* main()                                                                   *)

\* A mutant: one block for all connections.
MallocOnce ==
    /\ at = "malloc"
    /\ IF connfdp # Nil THEN UNCHANGED <<connfdp, allocated>>
       ELSE \E b \in Blocks : connfdp' = b /\ allocated' = {b}
    /\ at' = "accept"
    /\ UNCHANGED <<heap, thread, vargp, fd, open, eof, up>>

Malloc ==
    /\ at = "malloc"
    /\ \E b \in Blocks \ allocated : connfdp' = b /\ allocated' = allocated \cup {b}
    /\ at' = "accept"
    /\ UNCHANGED <<heap, thread, vargp, fd, open, eof, up>>

Accept(d) ==
    /\ at = "accept" /\ d \notin open
    /\ open' = open \cup {d}
    /\ heap' = [heap EXCEPT ![connfdp] = d]
    /\ at' = "create"
    /\ UNCHANGED <<connfdp, allocated, thread, vargp, fd, eof, up>>

PthreadCreate(t) ==
    /\ at = "create" /\ thread[t] = "none"
    /\ thread' = [thread EXCEPT ![t] = "read"]
    /\ vargp' = [vargp EXCEPT ![t] = connfdp]
    /\ at' = "malloc"
    /\ UNCHANGED <<connfdp, heap, allocated, fd, open, eof, up>>

\* No memory, descriptor or thread: a wrapper's error ends the process.
MainFails ==
    /\ \/ at = "malloc" /\ Blocks \subseteq allocated
       \/ at = "accept" /\ FDs \subseteq open
       \/ at = "create" /\ \A t \in Threads : thread[t] # "none"
    /\ up' = FALSE
    /\ UNCHANGED <<at, connfdp, heap, allocated, thread, vargp, fd, open, eof>>

-----------------------------------------------------------------------------
(* thread()                                                                 *)

Read(t) ==                      \* connfd = *(int*)vargp
    /\ thread[t] = "read"
    /\ fd' = [fd EXCEPT ![t] = heap[vargp[t]]]
    /\ thread' = [thread EXCEPT ![t] = "detach"]
    /\ UNCHANGED <<at, connfdp, heap, allocated, vargp, open, eof, up>>

Detach(t) ==
    /\ thread[t] = "detach"
    /\ thread' = [thread EXCEPT ![t] = "free"]
    /\ UNCHANGED <<at, connfdp, heap, allocated, vargp, fd, open, eof, up>>

Free(t) ==
    /\ thread[t] = "free"
    /\ allocated' = allocated \ {vargp[t]}
    /\ thread' = [thread EXCEPT ![t] = "echo"]
    /\ UNCHANGED <<at, connfdp, heap, vargp, fd, open, eof, up>>

EchoEnds(t) ==
    /\ thread[t] = "echo" /\ fd[t] \in eof
    /\ thread' = [thread EXCEPT ![t] = "close"]
    /\ UNCHANGED <<at, connfdp, heap, allocated, vargp, fd, open, eof, up>>

EchoFails(t) ==                 \* an error of one connection ends the process
    /\ thread[t] = "echo"
    /\ up' = FALSE
    /\ UNCHANGED <<at, connfdp, heap, allocated, thread, vargp, fd, open, eof>>

Close(t) ==
    /\ thread[t] = "close"
    /\ open' = open \ {fd[t]}
    /\ eof' = eof \ {fd[t]}
    /\ thread' = [thread EXCEPT ![t] = "none"]
    /\ UNCHANGED <<at, connfdp, heap, allocated, vargp, fd, up>>

Thread(t) == Read(t) \/ Detach(t) \/ Free(t) \/ EchoEnds(t) \/ Close(t)

ClientFinishes(d) ==
    /\ d \in open \ eof
    /\ eof' = eof \cup {d}
    /\ UNCHANGED <<at, connfdp, heap, allocated, thread, vargp, fd, open, up>>

Next ==
    /\ up
    /\ \/ Malloc \/ MainFails
       \/ \E d \in FDs : Accept(d) \/ ClientFinishes(d)
       \/ \E t \in Threads : PthreadCreate(t) \/ Thread(t) \/ EchoFails(t)

Spec == Init /\ [][Next]_vars

-----------------------------------------------------------------------------
(* Properties                                                               *)

\* A thread that has yet to read or free its block has that block to itself, in
\* use and with a descriptor no other thread has or will read: neither main(),
\* which goes on to the next connection, nor a thread that frees an earlier
\* block changes what it will read.
HandedOver(t) == IF thread[t] = "read" THEN heap[vargp[t]] ELSE fd[t]

BlockHandedOver ==
    LET Live == {t \in Threads : thread[t] # "none"}
        Owning == {t \in Live : thread[t] \in {"read", "detach", "free"}}
    IN  /\ \A t \in Owning : vargp[t] \in allocated
        /\ \A t \in Owning : \A u \in Owning \ {t} : vargp[t] # vargp[u]
        /\ at # "malloc" => connfdp \in allocated /\ \A t \in Owning : vargp[t] # connfdp
        /\ \A t \in Live : \A u \in Live \ {t} : HandedOver(t) # HandedOver(u)
        /\ open = {HandedOver(t) : t \in Live}
                     \cup IF at = "create" THEN {heap[connfdp]} ELSE {}

\* Every connection is closed after its client has finished, by a thread of its
\* own, unless the process ends or never gets to create that thread.
EveryClientLetGo == \A t \in Threads :
    (thread[t] # "none" /\ HandedOver(t) \in eof) ~> (thread[t] = "none" \/ ~up)
=============================================================================
