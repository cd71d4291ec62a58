-------------------------------- MODULE SBuf --------------------------------
(***************************************************************************)
(* The bounded buffer sbuf_t of thread/echoserver_pre.c: an array used as  *)
(* a ring, a mutex around it, and two counting semaphores, slots for the   *)
(* free places and items for the full ones.  One action per statement of   *)
(* sbuf_insert and sbuf_remove.                                            *)
(***************************************************************************)
EXTENDS Semaphores, FiniteSets, Sequences

CONSTANTS
    Producers, Consumers,
    Items,
    Size,           \* the n of sbuf_init
    MaxInserts      \* bound: the program's counters front and rear are ints,
                    \* and its behaviour is undefined beyond 2^31 - 1 inserts

Threads == Producers \cup Consumers

ASSUME ThreadsFinite == IsFiniteSet(Threads)
ASSUME RolesDisjoint == Producers \cap Consumers = {}
ASSUME SizeIsPositive == Size \in Nat \ {0}
ASSUME BoundIsNat == MaxInserts \in Nat

VARIABLES
    buf, front, rear,
    mutex, slots, items,
    pc,         \* where each thread stands in sbuf_insert or sbuf_remove
    item        \* its item

vars == <<buf, front, rear, mutex, slots, items, pc, item>>

At(S) == {t \in Threads : pc[t] \in S}

Num(S) == Cardinality(At(S))

Goto(t, from, to) == pc[t] = from /\ pc' = [pc EXCEPT ![t] = to]

Init ==                         \* sbuf_init; Calloc zeroes the array
    /\ \E zero \in Items : buf = [i \in 0 .. Size - 1 |-> zero]
    /\ front = 0
    /\ rear = 0
    /\ mutex = 1
    /\ slots = Size
    /\ items = 0
    /\ pc = [t \in Threads |-> "idle"]
    /\ item \in [Threads -> Items]

-----------------------------------------------------------------------------
(* sbuf_insert()                                                           *)

CallInsert(p) ==
    /\ rear < MaxInserts
    /\ Goto(p, "idle", "called")
    /\ \E v \in Items : item' = [item EXCEPT ![p] = v]
    /\ UNCHANGED <<buf, front, rear, mutex, slots, items>>

TakeSlot(p) ==                  \* P(&sp->slots)
    /\ Goto(p, "called", "slotted")
    /\ P(slots)
    /\ UNCHANGED <<buf, front, rear, mutex, items, item>>

\* Mutant of LockInsert: no P(&sp->mutex).
LockInsertForgotten(p) ==
    Goto(p, "slotted", "storing") /\ UNCHANGED <<buf, front, rear, mutex, slots, items, item>>

LockInsert(p) ==                \* P(&sp->mutex)
    /\ Goto(p, "slotted", "storing")
    /\ P(mutex)
    /\ UNCHANGED <<buf, front, rear, slots, items, item>>

\* Mutant of Store: rear++ instead of ++rear.
StoreThenCount(p) ==
    /\ Goto(p, "storing", "stored")
    /\ rear' = rear + 1
    /\ buf' = [buf EXCEPT ![rear % Size] = item[p]]
    /\ UNCHANGED <<front, mutex, slots, items, item>>

Store(p) ==                     \* sp->buf[(++sp->rear)%(sp->n)] = item
    /\ Goto(p, "storing", "stored")
    /\ rear' = rear + 1
    /\ buf' = [buf EXCEPT ![rear' % Size] = item[p]]
    /\ UNCHANGED <<front, mutex, slots, items, item>>

UnlockInsert(p) ==              \* V(&sp->mutex)
    /\ Goto(p, "stored", "posting")
    /\ V(mutex)
    /\ UNCHANGED <<buf, front, rear, slots, items, item>>

\* Mutant of PostInsert: it posts slots.
PostInsertToSlots(p) ==
    Goto(p, "posting", "idle") /\ V(slots) /\ UNCHANGED <<buf, front, rear, mutex, items, item>>

PostInsert(p) ==                \* V(&sp->items)
    /\ Goto(p, "posting", "idle")
    /\ V(items)
    /\ UNCHANGED <<buf, front, rear, mutex, slots, item>>

Insert(p) ==
    \/ CallInsert(p) \/ TakeSlot(p) \/ LockInsert(p)
    \/ Store(p) \/ UnlockInsert(p) \/ PostInsert(p)

-----------------------------------------------------------------------------
(* sbuf_remove()                                                           *)

TakeItem(c) ==                  \* P(&sp->items)
    /\ Goto(c, "idle", "itemed")
    /\ P(items)
    /\ UNCHANGED <<buf, front, rear, mutex, slots, item>>

LockRemove(c) ==                \* P(&sp->mutex)
    /\ Goto(c, "itemed", "fetching")
    /\ P(mutex)
    /\ UNCHANGED <<buf, front, rear, slots, items, item>>

Fetch(c) ==                     \* item = sp->buf[(++sp->front)%(sp->n)]
    /\ Goto(c, "fetching", "fetched")
    /\ front' = front + 1
    /\ item' = [item EXCEPT ![c] = buf[front' % Size]]
    /\ UNCHANGED <<buf, rear, mutex, slots, items>>

UnlockRemove(c) ==              \* V(&sp->mutex)
    /\ Goto(c, "fetched", "freeing")
    /\ V(mutex)
    /\ UNCHANGED <<buf, front, rear, slots, items, item>>

\* Mutant of PostRemove: no V(&sp->slots).
PostRemoveForgotten(c) ==
    Goto(c, "freeing", "idle") /\ UNCHANGED <<buf, front, rear, mutex, slots, items, item>>

PostRemove(c) ==                \* V(&sp->slots)
    /\ Goto(c, "freeing", "idle")
    /\ V(slots)
    /\ UNCHANGED <<buf, front, rear, mutex, items, item>>

Remove(c) ==
    \/ TakeItem(c) \/ LockRemove(c) \/ Fetch(c) \/ UnlockRemove(c) \/ PostRemove(c)

-----------------------------------------------------------------------------
Next == \/ \E p \in Producers : Insert(p)
        \/ \E c \in Consumers : Remove(c)

Spec == Init /\ [][Next]_vars

\* Producers go on inserting and consumers removing, as main() and thread() do.
FairSpec ==
    /\ Spec
    /\ \A p \in Producers : WF_vars(Insert(p))
    /\ \A c \in Consumers : WF_vars(Remove(c))

-----------------------------------------------------------------------------
(* Properties                                                              *)

InsertLabels == {"idle", "called", "slotted", "storing", "stored", "posting"}
RemoveLabels == {"idle", "itemed", "fetching", "fetched", "freeing"}
InMutex == {"storing", "stored", "fetching", "fetched"}

TypeOK ==
    /\ buf \in [0 .. Size - 1 -> Items]
    /\ front \in Nat
    /\ rear \in Nat
    /\ mutex \in {0, 1}
    /\ slots \in Nat
    /\ items \in Nat
    /\ pc \in [Threads -> InsertLabels \cup RemoveLabels]
    /\ \A p \in Producers : pc[p] \in InsertLabels
    /\ \A c \in Consumers : pc[c] \in RemoveLabels
    /\ item \in [Threads -> Items]

\* The ring is touched by one thread at a time.
RingExclusion == \A t, u \in At(InMutex) : t = u

\* No store overwrites an item nobody has taken, and no fetch takes a place
\* nobody has filled, whatever the number of threads between their semaphores.
NoOverrun ==
    /\ rear - front \in 0 .. Size
    /\ At({"storing"}) # {} => rear - front < Size
    /\ At({"fetching"}) # {} => rear - front > 0

\* Every place of the ring is accounted for: it is free and posted, or taken by
\* a producer that has not stored, or full, or emptied and not yet posted.
SlotsAccounted ==
    Size = slots + Num({"slotted", "storing"}) + (rear - front)
             + Num({"fetched", "freeing"})

\* So is every item in the ring.
ItemsAccounted ==
    rear - front = items + Num({"stored", "posting"}) + Num({"itemed", "fetching"})

\* The inductive invariant.
IInv ==
    /\ TypeOK
    /\ mutex = 1 <=> At(InMutex) = {}
    /\ RingExclusion
    /\ SlotsAccounted
    /\ ItemsAccounted

\* The ring holds a queue, oldest item first.
Queue == [i \in 1 .. rear - front |-> buf[(front + i) % Size]]

Abstract == INSTANCE BoundedQueue WITH queue <- Queue

\* The buffer implements the queue: first in, first out, nothing lost, nothing
\* delivered twice.
ImplementsQueue == Abstract!Spec

\* Every item inserted is removed in the end.
EveryItemTaken == \A k \in 1 .. MaxInserts : rear >= k ~> front >= k

\* Nobody waits for ever for a place: all the inserts allowed get done.
ProducersGoOn == <>(rear >= MaxInserts)
=============================================================================
