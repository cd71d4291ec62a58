---------------------------- MODULE BoundedQueue ----------------------------
(***************************************************************************)
(* What a bounded buffer promises: a first-in first-out queue of at most   *)
(* Size items, from which every item put is got once, by one consumer.     *)
(***************************************************************************)
EXTENDS Naturals, Sequences

CONSTANTS Producers, Consumers, Items, Size

VARIABLES
    queue,
    item        \* the argument of each producer, the result of each consumer

vars == <<queue, item>>

Init == queue = <<>> /\ item \in [Producers \cup Consumers -> Items]

Choose(p) ==
    /\ \E v \in Items : item' = [item EXCEPT ![p] = v]
    /\ UNCHANGED queue

Put(p) ==
    /\ Len(queue) < Size
    /\ queue' = Append(queue, item[p])
    /\ UNCHANGED item

Get(c) ==
    /\ queue # <<>>
    /\ queue' = Tail(queue)
    /\ item' = [item EXCEPT ![c] = Head(queue)]

Next == \/ \E p \in Producers : Choose(p) \/ Put(p)
        \/ \E c \in Consumers : Get(c)

Spec == Init /\ [][Next]_vars
=============================================================================
