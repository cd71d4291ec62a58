--------------------------- MODULE EchoServerPre ----------------------------
(***************************************************************************)
(* The prethreaded echo server of thread/echoserver_pre.c: main() accepts  *)
(* connections and inserts their descriptors into the bounded buffer,      *)
(* NTHREADS workers remove them, echo every line back, count its bytes     *)
(* under a mutex that pthread_once initialises, and close.                 *)
(*                                                                         *)
(* Module SBuf is the buffer: buf to item are its variables, main its only *)
(* producer.  A line is its number of bytes.  Descriptors are numbered     *)
(* from 1, and accept() returns the lowest free one.                       *)
(***************************************************************************)
EXTENDS Integers, FiniteSets, FiniteSetsExt

CONSTANTS
    Workers,
    main,
    Size,           \* SBUFSIZE
    FDs,            \* the descriptors the process may have, beside the listening one
    MaxAccepts,     \* bound: connections that arrive
    MaxBytes,       \* bound: bytes the clients send in all; the program's
                    \* byte_cnt is an int and overflows at 2^31
    MaxStalled,     \* clients that stop sending without closing
    Faults          \* "reset": a client resets its connection; "accept": accept() fails

ASSUME WorkersOK == IsFiniteSet(Workers) /\ main \notin Workers
ASSUME SizesOK == Size \in Nat \ {0} /\ MaxAccepts \in Nat /\ MaxBytes \in Nat
ASSUME FDsOK == FDs \subseteq Nat \ {0}

\* A place of the ring is told from a thread.
ASSUME NamesOK == (Workers \cup {main}) \cap (0 .. Size - 1) = {}

VARIABLES
    buf, front, rear, mutex, slots, items, pc, item,     \* the buffer
    up,         \* the process has not exited
    at,         \* where each worker is in thread() and echo_cnt()
    open,       \* the descriptors of accepted connections
    stalled,    \* those whose client is silent for ever
    once,       \* the pthread_once_t
    cnt_mutex,  \* echo_cnt's static mutex, zero until it is initialised
    byte_cnt,
    loaded,     \* the value of byte_cnt a worker is adding to
    n           \* the length of the line a worker has read

sbuf == <<buf, front, rear, mutex, slots, items, pc, item>>
counter == <<once, cnt_mutex, byte_cnt, loaded>>
vars == <<sbuf, up, at, open, stalled, counter, n>>

\* The ring is zeroed, and 0 is no connection's descriptor.
Buf == INSTANCE SBuf WITH Producers <- {main}, Consumers <- Workers,
                          Items <- FDs \cup {0}, MaxInserts <- MaxAccepts

Init ==
    /\ Buf!Init
    /\ buf = [i \in 0 .. Size - 1 |-> 0]
    /\ item = [t \in Workers \cup {main} |-> 0]
    /\ up = TRUE
    /\ at = [t \in Workers |-> "remove"]
    /\ open = {}
    /\ stalled = {}
    /\ once = "new"
    /\ cnt_mutex = 0
    /\ byte_cnt = 0
    /\ loaded = [t \in Workers |-> 0]
    /\ n = [t \in Workers |-> 0]

Move(t, from, to) == at[t] = from /\ at' = [at EXCEPT ![t] = to]

-----------------------------------------------------------------------------
(* main()                                                                  *)

Accept ==                       \* connfd = Accept(...); sbuf_insert is called
    /\ FDs \ open # {}
    /\ Buf!CallInsert(main)
    /\ item'[main] = Min(FDs \ open)
    /\ open' = open \cup {item'[main]}
    /\ \/ UNCHANGED stalled
       \/ Cardinality(stalled) < MaxStalled /\ stalled' = stalled \cup {item'[main]}
    /\ UNCHANGED <<up, at, counter, n>>

\* The wrapper ends the process when accept() fails, as without a free descriptor.
AcceptFails ==
    /\ pc[main] = "idle"
    /\ FDs \subseteq open \/ "accept" \in Faults
    /\ up' = FALSE
    /\ UNCHANGED <<sbuf, at, open, stalled, counter, n>>

\* The rest of sbuf_insert.
Insert ==
    /\ \/ Buf!TakeSlot(main) \/ Buf!LockInsert(main) \/ Buf!Store(main)
       \/ Buf!UnlockInsert(main) \/ Buf!PostInsert(main)
    /\ UNCHANGED <<up, at, open, stalled, counter, n>>

-----------------------------------------------------------------------------
(* thread() and echo_cnt()                                                 *)

Remove(t) ==                    \* connfd = sbuf_remove(&sbuf)
    /\ at[t] = "remove"
    /\ Buf!Remove(t)
    /\ at' = IF pc'[t] = "idle" THEN [at EXCEPT ![t] = "once"] ELSE at
    /\ UNCHANGED <<up, open, stalled, counter, n>>

\* Pthread_once: the first to call it runs init_echo_cnt, the others wait until
\* it has returned.
CallOnce(t) ==
    /\ once # "running"
    /\ Move(t, "once", IF once = "new" THEN "init" ELSE "read")
    /\ once' = IF once = "new" THEN "running" ELSE once
    /\ UNCHANGED <<sbuf, up, open, stalled, cnt_mutex, byte_cnt, loaded, n>>

InitEchoCnt(t) ==
    /\ Move(t, "init", "read")
    /\ cnt_mutex' = 1
    /\ byte_cnt' = 0
    /\ once' = "done"
    /\ UNCHANGED <<sbuf, up, open, stalled, loaded, n>>

ReadLine(t) ==                  \* (n = Rio_readlineb(...)) != 0
    /\ item[t] \notin stalled
    /\ Move(t, "read", "lock")
    /\ \E k \in 1 .. MaxBytes - byte_cnt : n' = [n EXCEPT ![t] = k]
    /\ UNCHANGED <<sbuf, up, open, stalled, counter>>

ReadEOF(t) ==
    /\ item[t] \notin stalled
    /\ Move(t, "read", "close")
    /\ UNCHANGED <<sbuf, up, open, stalled, counter, n>>

\* Mutant of LockCount: no P(&mutex).
LockCountForgotten(t) ==
    Move(t, "lock", "load") /\ UNCHANGED <<sbuf, up, open, stalled, counter, n>>

LockCount(t) ==                 \* P(&mutex)
    /\ Move(t, "lock", "load")
    /\ Buf!P(cnt_mutex)
    /\ UNCHANGED <<sbuf, up, open, stalled, once, byte_cnt, loaded, n>>

LoadCount(t) ==                 \* byte_cnt += n, in two accesses
    /\ Move(t, "load", "store")
    /\ loaded' = [loaded EXCEPT ![t] = byte_cnt]
    /\ UNCHANGED <<sbuf, up, open, stalled, once, cnt_mutex, byte_cnt, n>>

StoreCount(t) ==
    /\ Move(t, "store", "unlock")
    /\ byte_cnt' = loaded[t] + n[t]
    /\ UNCHANGED <<sbuf, up, open, stalled, once, cnt_mutex, loaded, n>>

\* Mutant of UnlockCount: no V(&mutex).
UnlockCountForgotten(t) ==
    Move(t, "unlock", "write") /\ UNCHANGED <<sbuf, up, open, stalled, counter, n>>

UnlockCount(t) ==               \* V(&mutex)
    /\ Move(t, "unlock", "write")
    /\ Buf!V(cnt_mutex)
    /\ UNCHANGED <<sbuf, up, open, stalled, once, byte_cnt, loaded, n>>

WriteLine(t) ==                 \* Rio_writen(connfd, buf, n)
    /\ Move(t, "write", "read")
    /\ UNCHANGED <<sbuf, up, open, stalled, counter, n>>

\* A mutant of CloseConn: the next connection is not waited for.
CloseAndGoOn(t) ==
    /\ Move(t, "close", "once")
    /\ open' = open \ {item[t]}
    /\ UNCHANGED <<sbuf, up, stalled, counter, n>>

CloseConn(t) ==                 \* Close(connfd)
    /\ Move(t, "close", "remove")
    /\ open' = open \ {item[t]}
    /\ UNCHANGED <<sbuf, up, stalled, counter, n>>

\* An error of read or write ends the whole process, in the csapp.c wrapper.
ClientResets(t) ==
    /\ "reset" \in Faults
    /\ at[t] \in {"read", "write"}
    /\ up' = FALSE
    /\ UNCHANGED <<sbuf, at, open, stalled, counter, n>>

-----------------------------------------------------------------------------
Worker(t) ==
    \/ Remove(t)
    \/ CallOnce(t) \/ InitEchoCnt(t)
    \/ ReadLine(t) \/ ReadEOF(t)
    \/ LockCount(t) \/ LoadCount(t) \/ StoreCount(t) \/ UnlockCount(t)
    \/ WriteLine(t) \/ CloseConn(t)

Next == up /\ \/ Accept \/ AcceptFails
              \/ Insert
              \/ \E t \in Workers : Worker(t) \/ ClientResets(t)

Spec == Init /\ [][Next]_vars

\* Every thread that can run does, and a client that is not stalled goes on
\* sending and in the end closes.
FairSpec ==
    /\ Spec
    /\ WF_vars(up /\ Insert)
    /\ \A t \in Workers : WF_vars(up /\ Worker(t))

-----------------------------------------------------------------------------
(* Properties                                                              *)

TypeOK ==
    /\ Buf!TypeOK
    /\ up \in BOOLEAN
    /\ at \in [Workers -> {"remove", "once", "init", "read", "lock", "load", "store",
                           "unlock", "write", "close"}]
    /\ open \subseteq FDs
    /\ stalled \subseteq open
    /\ once \in {"new", "running", "done"}
    /\ cnt_mutex \in {0, 1}
    /\ byte_cnt \in Nat
    /\ loaded \in [Workers -> Nat]
    /\ n \in [Workers -> 0 .. MaxBytes]

\* Where a descriptor can be between accept() and close(): in main's hand, in
\* a place of the ring, in a worker's hand.
Holders ==
    (IF pc[main] \in {"called", "slotted", "storing"} THEN {main} ELSE {})
    \cup {(front + i) % Size : i \in 1 .. rear - front}
    \cup {t \in Workers : at[t] # "remove" \/ pc[t] \in {"fetched", "freeing"}}

Held(h) == IF h \in Workers \cup {main} THEN item[h] ELSE buf[h]

\* Every accepted connection is in exactly one place, and no place holds the
\* descriptor of a connection already closed, though descriptors are reused: no
\* connection is lost, echoed by two workers, or closed by one under another.
OneHolder ==
    /\ {Held(h) : h \in Holders} = open
    /\ \A g, h \in Holders : Held(g) = Held(h) => g = h

\* A full buffer keeps main from accepting: the process never needs more
\* descriptors than there are places for them.
DescriptorsBounded == Cardinality(open) <= Size + Cardinality(Workers) + 1

\* No update of the total is lost: the value a worker is about to add to is
\* still the total when it stores the sum.
NoUpdateLost == \A t \in Workers : at[t] = "store" => loaded[t] = byte_cnt

\* The descriptors, wherever they are, and how many there can be.
DescriptorsInv == TypeOK /\ OneHolder /\ DescriptorsBounded

\* Every connection is closed in the end if its client goes on, as long as the
\* silent clients are fewer than the workers.
EveryClientServed ==
    \A d \in FDs : d \in open \ stalled ~> d \notin open \/ ~up
=============================================================================
