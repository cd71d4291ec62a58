----------------------------- MODULE SBufProofs -----------------------------
(***************************************************************************)
(* Proofs about SBuf for any finite sets of producers and consumers, any   *)
(* size of the ring and any number of inserts: every place and every item  *)
(* is accounted for, so the ring never overruns, and it implements a       *)
(* first-in first-out queue.                                               *)
(***************************************************************************)
EXTENDS SBuf, FiniteSetTheorems, SequenceTheorems, TLAPS

Reserved == {"slotted", "storing"}
Emptied == {"fetched", "freeing"}
Unposted == {"stored", "posting"}
Claimed == {"itemed", "fetching"}

\* How many threads are at some places, and how a step changes it.
LEMMA NumIsNat ==
    \A S : IsFiniteSet(At(S)) /\ Num(S) \in Nat /\ (Num(S) = 0 <=> At(S) = {})
  <1> SUFFICES ASSUME NEW S
               PROVE  IsFiniteSet(At(S)) /\ Num(S) \in Nat /\ (Num(S) = 0 <=> At(S) = {})
    OBVIOUS
  <1>1. At(S) \subseteq Threads
    BY DEF At
  <1> QED BY <1>1, ThreadsFinite, FS_Subset, FS_CardinalityType, FS_EmptySet DEF Num

LEMMA NumMove ==
    ASSUME TypeOK, NEW t \in Threads, NEW from, NEW to, Goto(t, from, to), NEW S
    PROVE  Num(S)' = Num(S) + (IF to \in S THEN 1 ELSE 0)
                            - (IF from \in S THEN 1 ELSE 0)
  <1>1. /\ pc[t] = from /\ pc'[t] = to
        /\ \A u \in Threads \ {t} : pc'[u] = pc[u]
    BY DEF TypeOK, Goto
  <1>2. At(S)' = IF to \in S THEN At(S) \cup {t} ELSE At(S) \ {t}
    BY <1>1 DEF At
  <1>3. t \in At(S) <=> from \in S
    BY <1>1 DEF At
  <1>4. CASE to \in S
    BY <1>2, <1>3, <1>4, NumIsNat, FS_AddElement DEF Num
  <1>5. CASE to \notin S
    <2>1. Cardinality(At(S) \ {t}) =
              IF t \in At(S) THEN Cardinality(At(S)) - 1 ELSE Cardinality(At(S))
      BY NumIsNat, FS_RemoveElement
    <2> QED BY <1>2, <1>3, <1>5, <2>1, NumIsNat DEF Num
  <1> QED BY <1>4, <1>5

LEMMA NumMoves ==
    ASSUME TypeOK, NEW t \in Threads, NEW from, NEW to, Goto(t, from, to)
    PROVE  /\ Num(Reserved)' = Num(Reserved) + (IF to \in Reserved THEN 1 ELSE 0)
                                     - (IF from \in Reserved THEN 1 ELSE 0)
           /\ Num(Emptied)' = Num(Emptied) + (IF to \in Emptied THEN 1 ELSE 0)
                                    - (IF from \in Emptied THEN 1 ELSE 0)
           /\ Num(Unposted)' = Num(Unposted) + (IF to \in Unposted THEN 1 ELSE 0)
                                     - (IF from \in Unposted THEN 1 ELSE 0)
           /\ Num(Claimed)' = Num(Claimed) + (IF to \in Claimed THEN 1 ELSE 0)
                                    - (IF from \in Claimed THEN 1 ELSE 0)
  BY NumMove

-----------------------------------------------------------------------------
LEMMA InitIInv == Init => IInv
  <1> SUFFICES ASSUME Init PROVE IInv
    OBVIOUS
  <1>1. \A S : "idle" \notin S => At(S) = {} /\ Num(S) = 0
    BY NumIsNat DEF Init, At
  <1>2. \A zero \in Items : [i \in 0 .. Size - 1 |-> zero] \in [0 .. Size - 1 -> Items]
    OBVIOUS
  <1>3. TypeOK
    BY <1>2, SizeIsPositive DEF Init, TypeOK, InsertLabels, RemoveLabels, Threads
  <1> QED
    BY <1>1, <1>3, SizeIsPositive
       DEF Init, IInv, InMutex, RingExclusion, SlotsAccounted, ItemsAccounted

LEMMA StepIInv == IInv /\ [Next]_vars => IInv'
  <1> SUFFICES ASSUME IInv, [Next]_vars PROVE IInv'
    OBVIOUS
  <1>0. /\ Num(Reserved) \in Nat /\ Num(Emptied) \in Nat
        /\ Num(Unposted) \in Nat /\ Num(Claimed) \in Nat
    BY NumIsNat
  <1>1. ASSUME NEW p \in Producers, CallInsert(p) PROVE IInv'
    <2>1. /\ Num(Reserved)' = Num(Reserved) /\ Num(Emptied)' = Num(Emptied)
          /\ Num(Unposted)' = Num(Unposted) /\ Num(Claimed)' = Num(Claimed)
      BY <1>0, <1>1, NumMoves DEF CallInsert, IInv, Threads, Reserved, Emptied, Unposted, Claimed
    <2>2. TypeOK' /\ (mutex = 1 <=> At(InMutex) = {})' /\ RingExclusion'
      BY <1>1, RolesDisjoint, SizeIsPositive
         DEF CallInsert, Goto, At, IInv, TypeOK, RingExclusion, InsertLabels, RemoveLabels,
             InMutex, Threads, P, V
    <2>3. SlotsAccounted' /\ ItemsAccounted'
      BY <1>0, <1>1, <2>1, SizeIsPositive
         DEF CallInsert, IInv, TypeOK, SlotsAccounted, ItemsAccounted, P, V,
             Reserved, Emptied, Unposted, Claimed
    <2> QED BY <2>2, <2>3 DEF IInv
  <1>2. ASSUME NEW p \in Producers, TakeSlot(p) PROVE IInv'
    <2>1. /\ Num(Reserved)' = Num(Reserved) + 1 /\ Num(Emptied)' = Num(Emptied)
          /\ Num(Unposted)' = Num(Unposted) /\ Num(Claimed)' = Num(Claimed)
      BY <1>0, <1>2, NumMoves DEF TakeSlot, IInv, Threads, Reserved, Emptied, Unposted, Claimed
    <2>2. TypeOK' /\ (mutex = 1 <=> At(InMutex) = {})' /\ RingExclusion'
      BY <1>2, RolesDisjoint, SizeIsPositive
         DEF TakeSlot, Goto, At, IInv, TypeOK, RingExclusion, InsertLabels, RemoveLabels,
             InMutex, Threads, P, V
    <2>3. SlotsAccounted' /\ ItemsAccounted'
      BY <1>0, <1>2, <2>1, SizeIsPositive
         DEF TakeSlot, IInv, TypeOK, SlotsAccounted, ItemsAccounted, P, V,
             Reserved, Emptied, Unposted, Claimed
    <2> QED BY <2>2, <2>3 DEF IInv
  <1>3. ASSUME NEW p \in Producers, LockInsert(p) PROVE IInv'
    <2>1. /\ Num(Reserved)' = Num(Reserved) /\ Num(Emptied)' = Num(Emptied)
          /\ Num(Unposted)' = Num(Unposted) /\ Num(Claimed)' = Num(Claimed)
      BY <1>0, <1>3, NumMoves DEF LockInsert, IInv, Threads, Reserved, Emptied, Unposted, Claimed
    <2>2. TypeOK' /\ (mutex = 1 <=> At(InMutex) = {})' /\ RingExclusion'
      BY <1>3, RolesDisjoint, SizeIsPositive
         DEF LockInsert, Goto, At, IInv, TypeOK, RingExclusion, InsertLabels, RemoveLabels,
             InMutex, Threads, P, V
    <2>3. SlotsAccounted' /\ ItemsAccounted'
      BY <1>0, <1>3, <2>1, SizeIsPositive
         DEF LockInsert, IInv, TypeOK, SlotsAccounted, ItemsAccounted, P, V,
             Reserved, Emptied, Unposted, Claimed
    <2> QED BY <2>2, <2>3 DEF IInv
  <1>4. ASSUME NEW p \in Producers, Store(p) PROVE IInv'
    <2>1. /\ Num(Reserved)' = Num(Reserved) - 1 /\ Num(Emptied)' = Num(Emptied)
          /\ Num(Unposted)' = Num(Unposted) + 1 /\ Num(Claimed)' = Num(Claimed)
      BY <1>0, <1>4, NumMoves DEF Store, IInv, Threads, Reserved, Emptied, Unposted, Claimed
    <2>2. TypeOK' /\ (mutex = 1 <=> At(InMutex) = {})' /\ RingExclusion'
      BY <1>4, RolesDisjoint, SizeIsPositive
         DEF Store, Goto, At, IInv, TypeOK, RingExclusion, InsertLabels, RemoveLabels,
             InMutex, Threads, P, V
    <2>3. /\ front' = front /\ rear' = rear + 1
          /\ slots' = slots /\ items' = items
      BY <1>4 DEF Store
    <2>4. front \in Nat /\ rear \in Nat /\ slots \in Nat /\ items \in Nat /\ Size \in Nat
      BY SizeIsPositive DEF IInv, TypeOK
    <2>5. SlotsAccounted /\ ItemsAccounted
      BY DEF IInv
    <2>6. SlotsAccounted'
      BY <1>0, <2>1, <2>3, <2>4, <2>5 DEF SlotsAccounted, Reserved, Emptied
    <2>7. rear' - front' = (rear - front) + 1
      BY <2>3, <2>4
    <2>8. rear - front = items + Num(Unposted) + Num(Claimed)
      BY <2>5 DEF ItemsAccounted, Unposted, Claimed
    <2>9. rear' - front' = items' + Num(Unposted)' + Num(Claimed)'
      <3> DEFINE u == Num(Unposted)
                 c == Num(Claimed)
                 v == Num(Unposted)'
      <3>1. u \in Nat /\ c \in Nat /\ v = u + 1 /\ Num(Claimed)' = c /\ items' = items
        BY <1>0, <2>1, <2>3
      <3>2. rear' - front' = (items + u + c) + 1
        BY <2>7, <2>8
      <3> HIDE DEF u, c, v
      <3>3. rear' - front' = items' + v + Num(Claimed)'
        BY <2>4, <3>1, <3>2
      <3> QED BY <3>3 DEF v
    <2>10. ItemsAccounted'
      BY <2>9 DEF ItemsAccounted, Unposted, Claimed
    <2> QED BY <2>2, <2>6, <2>10 DEF IInv
  <1>5. ASSUME NEW p \in Producers, UnlockInsert(p) PROVE IInv'
    <2>1. /\ Num(Reserved)' = Num(Reserved) /\ Num(Emptied)' = Num(Emptied)
          /\ Num(Unposted)' = Num(Unposted) /\ Num(Claimed)' = Num(Claimed)
      BY <1>0, <1>5, NumMoves DEF UnlockInsert, IInv, Threads, Reserved, Emptied, Unposted, Claimed
    <2>2. TypeOK' /\ (mutex = 1 <=> At(InMutex) = {})' /\ RingExclusion'
      BY <1>5, RolesDisjoint, SizeIsPositive
         DEF UnlockInsert, Goto, At, IInv, TypeOK, RingExclusion, InsertLabels, RemoveLabels,
             InMutex, Threads, P, V
    <2>3. SlotsAccounted' /\ ItemsAccounted'
      BY <1>0, <1>5, <2>1, SizeIsPositive
         DEF UnlockInsert, IInv, TypeOK, SlotsAccounted, ItemsAccounted, P, V,
             Reserved, Emptied, Unposted, Claimed
    <2> QED BY <2>2, <2>3 DEF IInv
  <1>6. ASSUME NEW p \in Producers, PostInsert(p) PROVE IInv'
    <2>1. /\ Num(Reserved)' = Num(Reserved) /\ Num(Emptied)' = Num(Emptied)
          /\ Num(Unposted)' = Num(Unposted) - 1 /\ Num(Claimed)' = Num(Claimed)
      BY <1>0, <1>6, NumMoves DEF PostInsert, IInv, Threads, Reserved, Emptied, Unposted, Claimed
    <2>2. TypeOK' /\ (mutex = 1 <=> At(InMutex) = {})' /\ RingExclusion'
      BY <1>6, RolesDisjoint, SizeIsPositive
         DEF PostInsert, Goto, At, IInv, TypeOK, RingExclusion, InsertLabels, RemoveLabels,
             InMutex, Threads, P, V
    <2>3. SlotsAccounted' /\ ItemsAccounted'
      BY <1>0, <1>6, <2>1, SizeIsPositive
         DEF PostInsert, IInv, TypeOK, SlotsAccounted, ItemsAccounted, P, V,
             Reserved, Emptied, Unposted, Claimed
    <2> QED BY <2>2, <2>3 DEF IInv
  <1>7. ASSUME NEW c \in Consumers, TakeItem(c) PROVE IInv'
    <2>1. /\ Num(Reserved)' = Num(Reserved) /\ Num(Emptied)' = Num(Emptied)
          /\ Num(Unposted)' = Num(Unposted) /\ Num(Claimed)' = Num(Claimed) + 1
      BY <1>0, <1>7, NumMoves DEF TakeItem, IInv, Threads, Reserved, Emptied, Unposted, Claimed
    <2>2. TypeOK' /\ (mutex = 1 <=> At(InMutex) = {})' /\ RingExclusion'
      BY <1>7, RolesDisjoint, SizeIsPositive
         DEF TakeItem, Goto, At, IInv, TypeOK, RingExclusion, InsertLabels, RemoveLabels,
             InMutex, Threads, P, V
    <2>3. SlotsAccounted' /\ ItemsAccounted'
      BY <1>0, <1>7, <2>1, SizeIsPositive
         DEF TakeItem, IInv, TypeOK, SlotsAccounted, ItemsAccounted, P, V,
             Reserved, Emptied, Unposted, Claimed
    <2> QED BY <2>2, <2>3 DEF IInv
  <1>8. ASSUME NEW c \in Consumers, LockRemove(c) PROVE IInv'
    <2>1. /\ Num(Reserved)' = Num(Reserved) /\ Num(Emptied)' = Num(Emptied)
          /\ Num(Unposted)' = Num(Unposted) /\ Num(Claimed)' = Num(Claimed)
      BY <1>0, <1>8, NumMoves DEF LockRemove, IInv, Threads, Reserved, Emptied, Unposted, Claimed
    <2>2. TypeOK' /\ (mutex = 1 <=> At(InMutex) = {})' /\ RingExclusion'
      BY <1>8, RolesDisjoint, SizeIsPositive
         DEF LockRemove, Goto, At, IInv, TypeOK, RingExclusion, InsertLabels, RemoveLabels,
             InMutex, Threads, P, V
    <2>3. SlotsAccounted' /\ ItemsAccounted'
      BY <1>0, <1>8, <2>1, SizeIsPositive
         DEF LockRemove, IInv, TypeOK, SlotsAccounted, ItemsAccounted, P, V,
             Reserved, Emptied, Unposted, Claimed
    <2> QED BY <2>2, <2>3 DEF IInv
  <1>9. ASSUME NEW c \in Consumers, Fetch(c) PROVE IInv'
    <2>1. /\ Num(Reserved)' = Num(Reserved) /\ Num(Emptied)' = Num(Emptied) + 1
          /\ Num(Unposted)' = Num(Unposted) /\ Num(Claimed)' = Num(Claimed) - 1
      BY <1>0, <1>9, NumMoves DEF Fetch, IInv, Threads, Reserved, Emptied, Unposted, Claimed
    <2>2. TypeOK' /\ (mutex = 1 <=> At(InMutex) = {})' /\ RingExclusion'
      BY <1>9, RolesDisjoint, SizeIsPositive
         DEF Fetch, Goto, At, IInv, TypeOK, RingExclusion, InsertLabels, RemoveLabels,
             InMutex, Threads, P, V
    <2>3. /\ front' = front + 1 /\ rear' = rear
          /\ slots' = slots /\ items' = items
      BY <1>9 DEF Fetch
    <2>4. front \in Nat /\ rear \in Nat /\ slots \in Nat /\ items \in Nat /\ Size \in Nat
      BY SizeIsPositive DEF IInv, TypeOK
    <2>5. SlotsAccounted /\ ItemsAccounted
      BY DEF IInv
    <2>6. SlotsAccounted'
      BY <1>0, <2>1, <2>3, <2>4, <2>5 DEF SlotsAccounted, Reserved, Emptied
    <2>7. rear' - front' = (rear - front) - 1
      BY <2>3, <2>4
    <2>8. rear - front = items + Num(Unposted) + Num(Claimed)
      BY <2>5 DEF ItemsAccounted, Unposted, Claimed
    <2>9. rear' - front' = items' + Num(Unposted)' + Num(Claimed)'
      BY <1>0, <2>1, <2>3, <2>4, <2>7, <2>8
    <2>10. ItemsAccounted'
      BY <2>9 DEF ItemsAccounted, Unposted, Claimed
    <2> QED BY <2>2, <2>6, <2>10 DEF IInv
  <1>10. ASSUME NEW c \in Consumers, UnlockRemove(c) PROVE IInv'
    <2>1. /\ Num(Reserved)' = Num(Reserved) /\ Num(Emptied)' = Num(Emptied)
          /\ Num(Unposted)' = Num(Unposted) /\ Num(Claimed)' = Num(Claimed)
      BY <1>0, <1>10, NumMoves DEF UnlockRemove, IInv, Threads, Reserved, Emptied, Unposted, Claimed
    <2>2. TypeOK' /\ (mutex = 1 <=> At(InMutex) = {})' /\ RingExclusion'
      BY <1>10, RolesDisjoint, SizeIsPositive
         DEF UnlockRemove, Goto, At, IInv, TypeOK, RingExclusion, InsertLabels, RemoveLabels,
             InMutex, Threads, P, V
    <2>3. SlotsAccounted' /\ ItemsAccounted'
      BY <1>0, <1>10, <2>1, SizeIsPositive
         DEF UnlockRemove, IInv, TypeOK, SlotsAccounted, ItemsAccounted, P, V,
             Reserved, Emptied, Unposted, Claimed
    <2> QED BY <2>2, <2>3 DEF IInv
  <1>11. ASSUME NEW c \in Consumers, PostRemove(c) PROVE IInv'
    <2>1. /\ Num(Reserved)' = Num(Reserved) /\ Num(Emptied)' = Num(Emptied) - 1
          /\ Num(Unposted)' = Num(Unposted) /\ Num(Claimed)' = Num(Claimed)
      BY <1>0, <1>11, NumMoves DEF PostRemove, IInv, Threads, Reserved, Emptied, Unposted, Claimed
    <2>2. TypeOK' /\ (mutex = 1 <=> At(InMutex) = {})' /\ RingExclusion'
      BY <1>11, RolesDisjoint, SizeIsPositive
         DEF PostRemove, Goto, At, IInv, TypeOK, RingExclusion, InsertLabels, RemoveLabels,
             InMutex, Threads, P, V
    <2>3. SlotsAccounted' /\ ItemsAccounted'
      BY <1>0, <1>11, <2>1, SizeIsPositive
         DEF PostRemove, IInv, TypeOK, SlotsAccounted, ItemsAccounted, P, V,
             Reserved, Emptied, Unposted, Claimed
    <2> QED BY <2>2, <2>3 DEF IInv
  <1>12. CASE UNCHANGED vars
    BY <1>12 DEF vars, At, Num, IInv, TypeOK, RingExclusion, SlotsAccounted, ItemsAccounted
  <1> QED
    BY <1>1, <1>2, <1>3, <1>4, <1>5, <1>6, <1>7, <1>8, <1>9, <1>10, <1>11, <1>12
       DEF Next, Insert, Remove

\* The accounting and the exclusion hold in every reachable state.
THEOREM Invariance == Spec => []IInv
  BY InitIInv, StepIInv, PTL DEF Spec

\* Every variable of the buffer keeps its type, whatever the threads do.
THEOREM TypeCorrect == Spec => []TypeOK
  BY Invariance, PTL DEF IInv

\* One thread at a time touches the ring.
THEOREM Exclusive == Spec => []RingExclusion
  BY Invariance, PTL DEF IInv

\* Every place and every item of the ring is posted or in the hands of a thread.
THEOREM Accounted == Spec => [](SlotsAccounted /\ ItemsAccounted)
  BY Invariance, PTL DEF IInv

LEMMA Room == IInv => NoOverrun
  <1> SUFFICES ASSUME IInv PROVE NoOverrun
    OBVIOUS
  <1>1. /\ front \in Nat /\ rear \in Nat /\ slots \in Nat /\ items \in Nat
        /\ Size \in Nat
    BY SizeIsPositive DEF IInv, TypeOK
  <1>2. /\ Num(Reserved) \in Nat /\ Num(Emptied) \in Nat
        /\ Num(Unposted) \in Nat /\ Num(Claimed) \in Nat
    BY NumIsNat
  <1>3. /\ Size = slots + Num(Reserved) + (rear - front) + Num(Emptied)
        /\ rear - front = items + Num(Unposted) + Num(Claimed)
    BY DEF IInv, SlotsAccounted, ItemsAccounted, Reserved, Emptied, Unposted, Claimed
  <1>4. rear - front \in 0 .. Size
    BY <1>1, <1>2, <1>3
  <1>5. At({"storing"}) # {} => rear - front < Size
    <2> SUFFICES ASSUME At({"storing"}) # {} PROVE rear - front < Size
      OBVIOUS
    <2>1. At(Reserved) # {}
      BY DEF At, Reserved
    <2>2. Num(Reserved) > 0
      BY <2>1, <1>2, NumIsNat
    <2> QED BY <2>2, <1>1, <1>2, <1>3
  <1>6. At({"fetching"}) # {} => rear - front > 0
    <2> SUFFICES ASSUME At({"fetching"}) # {} PROVE rear - front > 0
      OBVIOUS
    <2>1. At(Claimed) # {}
      BY DEF At, Claimed
    <2>2. Num(Claimed) > 0
      BY <2>1, <1>2, NumIsNat
    <2> QED BY <2>2, <1>1, <1>2, <1>3
  <1> QED BY <1>4, <1>5, <1>6 DEF NoOverrun

\* No insert overwrites an item nobody has taken, no remove takes an empty place.
THEOREM NeverOverrun == Spec => []NoOverrun
  BY Invariance, Room, PTL

-----------------------------------------------------------------------------
\* Division with remainder, and two places less than Size apart in the order of
\* use are different places of the ring.
LEMMA Division ==
    ASSUME NEW n \in Nat \ {0}, NEW a \in Nat
    PROVE  a \div n \in Int /\ a % n \in 0 .. n - 1 /\ a = n * (a \div n) + (a % n)
  <1>1. a \div n \in Int
    OBVIOUS
  <1>2. a % n \in 0 .. n - 1
    OBVIOUS
  <1>3. a = n * (a \div n) + (a % n)
    OBVIOUS
  <1> QED BY <1>1, <1>2, <1>3

LEMMA NoMultiple ==
    ASSUME NEW n \in Nat \ {0}, NEW p \in Int, NEW q \in Int,
           0 < n * q - n * p, n * q - n * p < n
    PROVE  FALSE
  <1>1. n * q - n * p = n * (q - p)
    OBVIOUS
  <1>2. CASE q - p >= 1
    <2>1. n * (q - p) >= n
      BY <1>2
    <2> QED BY <2>1, <1>1
  <1>3. CASE q - p <= 0
    <2>1. n * (q - p) <= 0
      BY <1>3
    <2> QED BY <2>1, <1>1
  <1> QED BY <1>2, <1>3

LEMMA PlacesDiffer ==
    ASSUME NEW n \in Nat \ {0}, NEW a \in Nat, NEW b \in Nat, a < b, b - a < n
    PROVE  a % n # b % n
  <1>1. PICK p \in Int, r \in 0 .. n - 1 : a = n * p + r /\ a % n = r
    BY Division
  <1>2. PICK q \in Int, s \in 0 .. n - 1 : b = n * q + s /\ b % n = s
    BY Division
  <1>3. SUFFICES ASSUME r = s PROVE FALSE
    BY <1>1, <1>2
  <1>4. n * q - n * p = b - a
    BY <1>1, <1>2, <1>3
  <1> QED BY <1>4, NoMultiple

QueueInRing ==
    /\ Queue \in Seq(Items)
    /\ Len(Queue) = rear - front
    /\ \A i \in 1 .. rear - front : Queue[i] = buf[(front + i) % Size]

LEMMA QueueIsSeq == IInv => QueueInRing
  <1> SUFFICES ASSUME IInv PROVE QueueInRing
    OBVIOUS
  <1>1. rear - front \in Nat /\ front \in Nat
    BY Room DEF NoOverrun, IInv, TypeOK
  <1>2. \A i \in 1 .. rear - front : (front + i) % Size \in 0 .. Size - 1
    BY <1>1, SizeIsPositive, Division
  <1>3. \A i \in 1 .. rear - front : buf[(front + i) % Size] \in Items
    BY <1>2 DEF IInv, TypeOK
  <1>4. Queue \in [1 .. rear - front -> Items]
    BY <1>3 DEF Queue
  <1>5. Queue \in Seq(Items) /\ Len(Queue) = rear - front
    <2> DEFINE n == rear - front
               q == Queue
    <2>1. n \in Nat /\ q \in [1 .. n -> Items]
      BY <1>1, <1>4
    <2> HIDE DEF n, q
    <2>2. q \in Seq(Items) /\ Len(q) = n
      BY <2>1
    <2> QED BY <2>2 DEF n, q
  <1>6. \A i \in 1 .. rear - front : Queue[i] = buf[(front + i) % Size]
    BY DEF Queue
  <1> QED BY <1>5, <1>6 DEF QueueInRing

\* A store appends to the queue: it disturbs none of the places in use.
LEMMA StorePuts ==
    ASSUME IInv, IInv', NEW p \in Producers, Store(p)
    PROVE  Abstract!Put(p)
  <1> DEFINE n == rear - front
  <1>1. /\ n \in Nat /\ n < Size /\ front \in Nat /\ rear \in Nat /\ Size \in Nat \ {0}
        /\ buf \in [0 .. Size - 1 -> Items] /\ item[p] \in Items
    BY Room, SizeIsPositive DEF Store, Goto, NoOverrun, At, IInv, TypeOK, Threads
  <1>2. /\ rear' = rear + 1 /\ front' = front /\ UNCHANGED item
        /\ buf' = [buf EXCEPT ![(rear + 1) % Size] = item[p]]
        /\ rear' - front' = n + 1
    BY <1>1 DEF Store
  <1>3. (rear + 1) % Size \in 0 .. Size - 1
    BY <1>1, Division
  <1>4. \A i \in 1 .. n : /\ (front + i) % Size \in 0 .. Size - 1
                          /\ (front + i) % Size # (rear + 1) % Size
    <2> TAKE i \in 1 .. n
    <2>1. /\ front + i \in Nat /\ rear + 1 \in Nat
          /\ front + i < rear + 1 /\ (rear + 1) - (front + i) < Size
      BY <1>1
    <2> HIDE DEF n
    <2> QED BY <1>1, <2>1, Division, PlacesDiffer
  <1>5. \A i \in 1 .. n : buf'[(front + i) % Size] = buf[(front + i) % Size]
    BY <1>1, <1>2, <1>3, <1>4
  <1>6. buf'[(front + (n + 1)) % Size] = item[p]
    BY <1>1, <1>2, <1>3
  <1>7. /\ Queue \in Seq(Items) /\ Len(Queue) = n
        /\ \A i \in 1 .. n : Queue[i] = buf[(front + i) % Size]
    BY QueueIsSeq DEF QueueInRing
  <1>8. /\ Queue' \in Seq(Items) /\ Len(Queue') = rear' - front'
        /\ \A i \in 1 .. rear' - front' : Queue'[i] = buf'[(front' + i) % Size]
    <2>1. QueueInRing'
      BY QueueIsSeq, PTL
    <2> QED BY <2>1 DEF QueueInRing
  <1> HIDE DEF n
  <1>9. /\ Append(Queue, item[p]) \in Seq(Items)
        /\ Len(Append(Queue, item[p])) = n + 1
        /\ \A i \in 1 .. n : Append(Queue, item[p])[i] = Queue[i]
        /\ Append(Queue, item[p])[n + 1] = item[p]
    BY <1>1, <1>7, AppendProperties
  <1>10. \A i \in 1 .. n + 1 : Queue'[i] = Append(Queue, item[p])[i]
    BY <1>1, <1>2, <1>5, <1>6, <1>7, <1>8, <1>9
  <1>11. Queue' = Append(Queue, item[p])
    BY <1>2, <1>8, <1>9, <1>10, SeqEqual
  <1> QED BY <1>1, <1>2, <1>7, <1>11 DEF Abstract!Put

\* A fetch returns the oldest item and takes it off the queue.
LEMMA FetchGets ==
    ASSUME IInv, IInv', NEW c \in Consumers, Fetch(c)
    PROVE  Abstract!Get(c)
  <1> DEFINE n == rear - front
  <1>1. /\ n \in Nat \ {0} /\ front \in Nat /\ rear \in Nat
    BY Room, SizeIsPositive DEF Fetch, Goto, NoOverrun, At, IInv, TypeOK, Threads
  <1>2. /\ rear' = rear /\ front' = front + 1 /\ buf' = buf
        /\ item' = [item EXCEPT ![c] = buf[(front + 1) % Size]]
        /\ rear' - front' = n - 1
    BY <1>1 DEF Fetch
  <1>3. /\ Queue \in Seq(Items) /\ Len(Queue) = n
        /\ \A i \in 1 .. n : Queue[i] = buf[(front + i) % Size]
    BY QueueIsSeq DEF QueueInRing
  <1>4. /\ Queue' \in Seq(Items) /\ Len(Queue') = rear' - front'
        /\ \A i \in 1 .. rear' - front' : Queue'[i] = buf'[(front' + i) % Size]
    <2>1. QueueInRing'
      BY QueueIsSeq, PTL
    <2> QED BY <2>1 DEF QueueInRing
  <1> HIDE DEF n
  <1>5. Queue # <<>> /\ Head(Queue) = Queue[1]
    BY <1>1, <1>3
  <1>6. /\ Tail(Queue) \in Seq(Items) /\ Len(Tail(Queue)) = n - 1
        /\ \A i \in 1 .. n - 1 : Tail(Queue)[i] = Queue[i + 1]
    BY <1>3, <1>5, HeadTailProperties
  <1>7. \A i \in 1 .. n - 1 : Queue'[i] = Queue[i + 1]
    <2> SUFFICES ASSUME NEW i \in 1 .. n - 1 PROVE Queue'[i] = Queue[i + 1]
      OBVIOUS
    <2>1. Queue'[i] = buf[((front + 1) + i) % Size]
      BY <1>2, <1>4
    <2>2. Queue[i + 1] = buf[(front + (i + 1)) % Size]
      BY <1>1, <1>3
    <2>3. (front + 1) + i = front + (i + 1)
      BY <1>1
    <2> QED BY <2>1, <2>2, <2>3
  <1>8. Queue' = Tail(Queue)
    BY <1>2, <1>4, <1>6, <1>7, SeqEqual
  <1>9. Head(Queue) = buf[(front + 1) % Size]
    BY <1>1, <1>3, <1>5
  <1> QED BY <1>2, <1>5, <1>8, <1>9 DEF Abstract!Get

\* Every behaviour of the buffer is one of a first-in first-out queue of at most
\* Size items.
THEOREM Refinement == Spec => ImplementsQueue
  <1>1. Init => Abstract!Init
    <2> SUFFICES ASSUME Init PROVE Abstract!Init
      OBVIOUS
    <2>1. IInv /\ rear - front = 0
      BY InitIInv DEF Init
    <2>2. Queue \in Seq(Items) /\ Len(Queue) = 0
      BY <2>1, QueueIsSeq DEF QueueInRing
    <2>3. Queue = <<>>
      BY <2>2, EmptySeq
    <2> QED BY <2>3 DEF Init, Abstract!Init, Threads
  <1>2. IInv /\ IInv' /\ [Next]_vars => [Abstract!Next]_(Abstract!vars)
    <2> SUFFICES ASSUME IInv, IInv', [Next]_vars
                 PROVE  [Abstract!Next]_(Abstract!vars)
      OBVIOUS
    <2>1. CASE \E p \in Producers : Store(p)
      BY <2>1, StorePuts DEF Abstract!Next
    <2>2. CASE \E c \in Consumers : Fetch(c)
      BY <2>2, FetchGets DEF Abstract!Next
    <2>3. CASE \E p \in Producers : CallInsert(p)
      BY <2>3 DEF CallInsert, Queue, Abstract!Next, Abstract!Choose
    <2>4. CASE UNCHANGED <<buf, front, rear, item>>
      BY <2>4 DEF Queue, Abstract!vars
    <2> QED
      BY <2>1, <2>2, <2>3, <2>4
         DEF vars, Next, Insert, Remove, TakeSlot, LockInsert, UnlockInsert, PostInsert,
             TakeItem, LockRemove, UnlockRemove, PostRemove
  <1> QED
    BY <1>1, <1>2, Invariance, PTL DEF Spec, ImplementsQueue, Abstract!Spec
=============================================================================
