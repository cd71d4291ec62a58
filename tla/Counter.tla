------------------------------ MODULE Counter -------------------------------
(***************************************************************************)
(* thread/mutex.c: two threads add to one counter under a semaphore and    *)
(* main() compares the sum with what it should be.                         *)
(***************************************************************************)
EXTENDS Semaphores

CONSTANT niters
Tids == {1, 2}

VARIABLES pc, i, reg, cnt, mutex

vars == <<pc, i, reg, cnt, mutex>>

Init ==
    /\ pc = [t \in Tids |-> "none"]
    /\ i = [t \in Tids |-> 0] /\ reg = [t \in Tids |-> 0]
    /\ cnt = 0 /\ mutex = 1

Go(t, from, to) == pc[t] = from /\ pc' = [pc EXCEPT ![t] = to]

\* Pthread_create of the second thread comes after that of the first.
Create(t) ==
    /\ t = 2 => pc[1] # "none"
    /\ Go(t, "none", "loop")
    /\ UNCHANGED <<i, reg, cnt, mutex>>

Lock(t) ==
    /\ i[t] < niters /\ Go(t, "loop", "load") /\ P(mutex)
    /\ UNCHANGED <<i, reg, cnt>>

Load(t) == Go(t, "load", "store") /\ reg' = [reg EXCEPT ![t] = cnt] /\ UNCHANGED <<i, cnt, mutex>>

Store(t) == Go(t, "store", "unlock") /\ cnt' = reg[t] + 1 /\ UNCHANGED <<i, reg, mutex>>

Unlock(t) ==
    /\ Go(t, "unlock", "loop") /\ V(mutex)
    /\ i' = [i EXCEPT ![t] = @ + 1]
    /\ UNCHANGED <<reg, cnt>>

Next == \E t \in Tids : Create(t) \/ Lock(t) \/ Load(t) \/ Store(t) \/ Unlock(t)

Spec == Init /\ [][Next]_vars

\* Both threads joined, main() finds the count exact and prints OK, not BOOM; on
\* the way the counter is behind the loops' progress by no addition.
CountExact ==
    /\ (\A t \in Tids : pc[t] = "loop" /\ i[t] = niters) => cnt = 2 * niters
    /\ mutex = 1 => cnt = i[1] + i[2]
=============================================================================
