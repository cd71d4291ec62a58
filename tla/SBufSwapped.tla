---------------------------- MODULE SBufSwapped -----------------------------
(***************************************************************************)
(* The other copy of the bounded buffer, thread/sbuf.c.  It differs from   *)
(* that of echoserver_pre.c in one statement of each function: insert ends *)
(* by posting slots again, and remove by posting items again.              *)
(***************************************************************************)
EXTENDS SBuf

RepostSlot(p) ==                \* V(&sp->slots), thread/sbuf.c:36
    /\ Goto(p, "posting", "idle")
    /\ V(slots)
    /\ UNCHANGED <<buf, front, rear, mutex, items, item>>

RepostItem(c) ==                \* V(&sp->items), thread/sbuf.c:45
    /\ Goto(c, "freeing", "idle")
    /\ V(items)
    /\ UNCHANGED <<buf, front, rear, mutex, slots, item>>

SwappedInsert(p) ==
    \/ CallInsert(p) \/ TakeSlot(p) \/ LockInsert(p)
    \/ Store(p) \/ UnlockInsert(p) \/ RepostSlot(p)

SwappedRemove(c) ==
    \/ TakeItem(c) \/ LockRemove(c) \/ Fetch(c) \/ UnlockRemove(c) \/ RepostItem(c)

SwappedNext == \/ \E p \in Producers : SwappedInsert(p)
               \/ \E c \in Consumers : SwappedRemove(c)

SwappedSpec ==
    /\ Init /\ [][SwappedNext]_vars
    /\ \A p \in Producers : WF_vars(SwappedInsert(p))
    /\ \A c \in Consumers : WF_vars(SwappedRemove(c))

\* Past P(&sp->slots) there is a free place (the comment on it, sbuf.c:32).
PlaceIsFree == At({"slotted", "storing"}) # {} => rear - front < Size
=============================================================================
