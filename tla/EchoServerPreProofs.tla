------------------------ MODULE EchoServerPreProofs -------------------------
(***************************************************************************)
(* For any set of workers and any buffer: pthread_once and the mutex it    *)
(* initialises keep the updates of byte_cnt apart; and every connection is *)
(* in one place, main's hand, the ring or a worker's hand, so that a full  *)
(* buffer bounds the descriptors in use.  What the buffer itself does is   *)
(* known from SBufProofs.                                                  *)
(***************************************************************************)
EXTENDS EchoServerPre, FiniteSetTheorems, WellFoundedInduction, TLAPS

Updating == {"load", "store", "unlock"}

\* What the proof needs to know of the variables' types.
CountTypes ==
    /\ at \in [Workers -> {"remove", "once", "init", "read", "lock", "load", "store",
                           "unlock", "write", "close"}]
    /\ loaded \in [Workers -> Int] /\ byte_cnt \in Int
    /\ n \in [Workers -> Int]
    /\ once \in {"new", "running", "done"}
    /\ cnt_mutex \in {0, 1}

\* One worker runs init_echo_cnt, and nobody is beyond pthread_once before it
\* has returned: the mutex is not set to 1 under a worker that holds it.
OneInitializer ==
    /\ \A t \in Workers : at[t] = "init" => once = "running"
    /\ \A t, u \in Workers : at[t] = "init" /\ at[u] = "init" => t = u
    /\ \A t \in Workers : at[t] \notin {"remove", "once", "init"} => once = "done"

\* The mutex is zero while a worker updates the count, and one worker does.
OneUpdater ==
    /\ \A t \in Workers : at[t] \in Updating => cnt_mutex = 0
    /\ \A t, u \in Workers : at[t] \in Updating /\ at[u] \in Updating => t = u

CountInv == CountTypes /\ OneInitializer /\ OneUpdater /\ NoUpdateLost

LEMMA InitCountInv == Init => CountInv
  BY DEF Init, CountInv, CountTypes, OneInitializer, OneUpdater, NoUpdateLost, Updating

LEMMA StepCountInv == CountInv /\ [Next]_vars => CountInv'
  <1> SUFFICES ASSUME CountInv, [Next]_vars PROVE CountInv'
    OBVIOUS
  <1> USE DEF CountInv, CountTypes, OneInitializer, OneUpdater, NoUpdateLost, Updating,
              counter, Move
  <1>1. CASE Accept \/ AcceptFails
    BY <1>1 DEF Accept, AcceptFails
  <1>2. CASE Insert
    BY <1>2 DEF Insert
  <1>3. ASSUME NEW t \in Workers, Remove(t) PROVE CountInv'
    <2>1. at' = [at EXCEPT ![t] = "once"] \/ at' = at
      BY <1>3 DEF Remove
    <2> QED BY <1>3, <2>1 DEF Remove
  <1>4. ASSUME NEW t \in Workers, CallOnce(t) PROVE CountInv'
    BY <1>4 DEF CallOnce
  <1>5. ASSUME NEW t \in Workers, InitEchoCnt(t) PROVE CountInv'
    <2>1. once = "running" /\ \A u \in Workers : at[u] \notin Updating
      BY <1>5 DEF InitEchoCnt
    <2> QED BY <1>5, <2>1 DEF InitEchoCnt
  <1>6. ASSUME NEW t \in Workers, ReadLine(t) PROVE CountInv'
    BY <1>6 DEF ReadLine
  <1>7. ASSUME NEW t \in Workers, ReadEOF(t) PROVE CountInv'
    BY <1>7 DEF ReadEOF
  <1>8. ASSUME NEW t \in Workers, LockCount(t) PROVE CountInv'
    <2>1. cnt_mutex = 1 /\ cnt_mutex' = 0 /\ \A u \in Workers : at[u] \notin Updating
      BY <1>8 DEF LockCount, Buf!P
    <2> QED BY <1>8, <2>1 DEF LockCount
  <1>9. ASSUME NEW t \in Workers, LoadCount(t) PROVE CountInv'
    BY <1>9 DEF LoadCount
  <1>10. ASSUME NEW t \in Workers, StoreCount(t) PROVE CountInv'
    <2>1. \A u \in Workers \ {t} : at[u] \notin Updating
      BY <1>10 DEF StoreCount
    <2> QED BY <1>10, <2>1 DEF StoreCount
  <1>11. ASSUME NEW t \in Workers, UnlockCount(t) PROVE CountInv'
    <2>1. cnt_mutex' = 1 /\ \A u \in Workers \ {t} : at[u] \notin Updating
      BY <1>11 DEF UnlockCount, Buf!V
    <2> QED BY <1>11, <2>1 DEF UnlockCount
  <1>12. ASSUME NEW t \in Workers, WriteLine(t) PROVE CountInv'
    BY <1>12 DEF WriteLine
  <1>13. ASSUME NEW t \in Workers, CloseConn(t) PROVE CountInv'
    BY <1>13 DEF CloseConn
  <1>14. ASSUME NEW t \in Workers, ClientResets(t) PROVE CountInv'
    BY <1>14 DEF ClientResets
  <1>15. CASE UNCHANGED vars
    BY <1>15 DEF vars
  <1> QED
    BY <1>1, <1>2, <1>3, <1>4, <1>5, <1>6, <1>7, <1>8, <1>9, <1>10, <1>11, <1>12,
       <1>13, <1>14, <1>15 DEF Next, Worker

\* No update of the total of bytes is lost, for any number of workers of
\* thread/echoserver_pre.c, any buffer and any lines.
THEOREM NoUpdateIsLost == Spec => []NoUpdateLost
  <1>1. CountInv => NoUpdateLost
    BY DEF CountInv
  <1> QED BY <1>1, InitCountInv, StepCountInv, PTL DEF Spec

-----------------------------------------------------------------------------
(* The buffer                                                               *)

BP == INSTANCE SBufProofs WITH Producers <- {main}, Consumers <- Workers,
                               Items <- FDs \cup {0}, MaxInserts <- MaxAccepts

\* main() and the workers use the buffer by its two functions only.
LEMMA BufferUsed ==
    /\ Init => BP!Init
    /\ [Next]_vars => [BP!Next]_(BP!vars)
  <1>1. Init => BP!Init
    BY DEF Init, Buf!Init, BP!Init, Buf!Threads, BP!Threads
  <1>2. ASSUME [Next]_vars PROVE [BP!Next]_(BP!vars)
    <2>1. ASSUME Accept PROVE BP!Next
      BY <2>1 DEF Accept, Buf!CallInsert, BP!CallInsert, Buf!Goto, BP!Goto, BP!Insert, BP!Next
    <2>2. ASSUME Insert PROVE BP!Next
      BY <2>2 DEF Insert, BP!Insert, BP!Next, Buf!Goto, BP!Goto, Buf!P, BP!P, Buf!V, BP!V,
                  Buf!TakeSlot, Buf!LockInsert, Buf!Store, Buf!UnlockInsert, Buf!PostInsert,
                  BP!TakeSlot, BP!LockInsert, BP!Store, BP!UnlockInsert, BP!PostInsert
    <2>3. ASSUME NEW t \in Workers, Remove(t) PROVE BP!Next
      BY <2>3 DEF Remove, Buf!Remove, BP!Remove, BP!Next, Buf!Goto, BP!Goto, Buf!P, BP!P, Buf!V, BP!V,
                  Buf!TakeItem, Buf!LockRemove, Buf!Fetch, Buf!UnlockRemove, Buf!PostRemove,
                  BP!TakeItem, BP!LockRemove, BP!Fetch, BP!UnlockRemove, BP!PostRemove
    <2>4. ASSUME NEW t \in Workers,
                 \/ CallOnce(t) \/ InitEchoCnt(t) \/ ReadLine(t) \/ ReadEOF(t) \/ LockCount(t)
                 \/ LoadCount(t) \/ StoreCount(t) \/ UnlockCount(t) \/ WriteLine(t) \/ CloseConn(t)
                 \/ ClientResets(t)
          PROVE  UNCHANGED sbuf
      BY <2>4 DEF CallOnce, InitEchoCnt, ReadLine, ReadEOF, LockCount, LoadCount, StoreCount,
                  UnlockCount, WriteLine, CloseConn, ClientResets
    <2>5. AcceptFails \/ UNCHANGED vars => UNCHANGED sbuf
      BY DEF vars, AcceptFails
    <2>6. UNCHANGED sbuf => UNCHANGED BP!vars
      BY DEF BP!vars, sbuf
    <2>7. ASSUME NEW t \in Workers, Worker(t) \/ ClientResets(t) PROVE BP!Next \/ UNCHANGED sbuf
      BY <2>3, <2>4, <2>7, Zenon DEF Worker
    <2>8. BP!Next \/ UNCHANGED sbuf
      BY <1>2, <2>1, <2>2, <2>5, <2>7, Zenon DEF Next
    <2> QED BY <2>6, <2>8, Zenon
  <1> QED BY <1>1, <1>2

LEMMA BufferAssumed ==
    /\ BP!IsFiniteSet(BP!Threads)
    /\ {main} \cap Workers = {} /\ Size \in Nat \ {0} /\ MaxAccepts \in Nat
  <1>1. BP!Threads = Workers \cup {main}
    BY DEF BP!Threads
  <1>2. IsFiniteSet(Workers \cup {main})
    BY WorkersOK, FS_AddElement
  <1>3. BP!IsFiniteSet(BP!Threads)
    BY <1>1, <1>2 DEF BP!IsFiniteSet, IsFiniteSet
  <1> QED BY <1>3, WorkersOK, SizesOK

LEMMA BufferInvariant == Spec => []BP!IInv
  <1>1. BP!Spec => []BP!IInv
    BY BufferAssumed, BP!Invariance, PTL
  <1> QED BY <1>1, BufferUsed, PTL DEF Spec, BP!Spec

\* What the proof needs to know of the buffer.
BufferTypes ==
    /\ buf \in [0 .. Size - 1 -> FDs \cup {0}] /\ item \in [Workers \cup {main} -> FDs \cup {0}]
    /\ front \in Nat /\ rear \in Nat /\ rear - front \in 0 .. Size
    /\ pc \in [Workers \cup {main} -> Buf!InsertLabels \cup Buf!RemoveLabels]
    /\ pc[main] \in Buf!InsertLabels /\ \A t \in Workers : pc[t] \in Buf!RemoveLabels
    /\ pc[main] = "storing" => rear - front < Size
    /\ \A t \in Workers : pc[t] = "fetching" => rear - front > 0

LEMMA BufferKnown == BP!IInv => BufferTypes /\ Buf!TypeOK
  <1> SUFFICES ASSUME BP!IInv PROVE BufferTypes /\ Buf!TypeOK
    OBVIOUS
  <1>1. BP!NoOverrun
    BY BufferAssumed, BP!Room
  <1>2. Buf!TypeOK
    BY DEF BP!IInv, BP!TypeOK, Buf!TypeOK, BP!Threads, Buf!Threads, BP!InsertLabels,
           Buf!InsertLabels, BP!RemoveLabels, Buf!RemoveLabels
  <1>3. BufferTypes
    BY <1>1, <1>2 DEF BufferTypes, Buf!TypeOK, BP!NoOverrun, BP!At, Buf!Threads, BP!Threads
  <1> QED BY <1>2, <1>3

-----------------------------------------------------------------------------
(* The descriptors                                                          *)

Mine == IF pc[main] \in {"called", "slotted", "storing"} THEN {main} ELSE {}
Places(f, r) == {(f + k) % Size : k \in 1 .. r - f}
InHand == {t \in Workers : at[t] # "remove" \/ pc[t] \in {"fetched", "freeing"}}

LEMMA HoldersAre == Holders = Mine \cup Places(front, rear) \cup InHand
  BY DEF Holders, Mine, Places, InHand

\* The ring's full places when one is filled at its end, or emptied at its beginning.
LEMMA PlacesChange ==
    ASSUME NEW f \in Nat, NEW r \in Nat, r - f \in 0 .. Size
    PROVE  /\ Places(f, r) \subseteq 0 .. Size - 1
           /\ r - f < Size => /\ (r + 1) % Size \in (0 .. Size - 1) \ Places(f, r)
                              /\ Places(f, r + 1) = Places(f, r) \cup {(r + 1) % Size}
           /\ r - f > 0 => /\ (f + 1) % Size \in (0 .. Size - 1) \ Places(f + 1, r)
                           /\ Places(f, r) = Places(f + 1, r) \cup {(f + 1) % Size}
  <1> DEFINE place(num) == num % Size
  <1>1. \A num \in Nat : place(num) \in 0 .. Size - 1
    BY SizesOK
  <1>2. \A a, b \in Nat : a < b /\ b - a < Size => place(a) # place(b)
    <2> SUFFICES ASSUME NEW a \in Nat, NEW b \in Nat, a < b, b - a < Size
                 PROVE  a % Size # b % Size
      OBVIOUS
    <2>1. BP!IsFiniteSet(BP!Threads) /\ {main} \cap Workers = {} /\ MaxAccepts \in Nat
      BY BufferAssumed
    <2> QED BY <2>1, SizesOK, BP!PlacesDiffer
  <1>3. Size \in Nat \ {0}
    BY SizesOK
  <1>4. \A g, h : Places(g, h) = {place(g + k) : k \in 1 .. h - g}
    BY DEF Places
  <1>5. place(r + 1) = (r + 1) % Size /\ place(f + 1) = (f + 1) % Size
    OBVIOUS
  <1> HIDE DEF place
  <1>6. Places(f, r) \subseteq 0 .. Size - 1
    <2>1. \A k \in 1 .. r - f : f + k \in Nat
      OBVIOUS
    <2> QED BY <1>1, <1>4, <2>1
  <1>7. ASSUME r - f < Size
        PROVE  /\ place(r + 1) \in (0 .. Size - 1) \ Places(f, r)
               /\ Places(f, r + 1) = Places(f, r) \cup {place(r + 1)}
    <2>1. \A k \in 1 .. r - f : place(f + k) # place(r + 1)
      <3> SUFFICES ASSUME NEW k \in 1 .. r - f PROVE place(f + k) # place(r + 1)
        OBVIOUS
      <3>1. f + k \in Nat /\ r + 1 \in Nat /\ f + k < r + 1 /\ (r + 1) - (f + k) < Size
        BY <1>3, <1>7
      <3> QED BY <1>2, <3>1
    <2>2. \A k \in 1 .. (r + 1) - f : k \in 1 .. r - f \/ f + k = r + 1
      OBVIOUS
    <2>3. (r + 1) - f \in 1 .. (r + 1) - f /\ f + ((r + 1) - f) = r + 1
      OBVIOUS
    <2>4. \A k \in 1 .. r - f : k \in 1 .. (r + 1) - f
      OBVIOUS
    <2>5. Places(f, r + 1) = Places(f, r) \cup {place(r + 1)}
      BY <1>4, <2>2, <2>3, <2>4
    <2> QED BY <1>1, <1>4, <2>1, <2>5
  <1>8. ASSUME r - f > 0
        PROVE  /\ place(f + 1) \in (0 .. Size - 1) \ Places(f + 1, r)
               /\ Places(f, r) = Places(f + 1, r) \cup {place(f + 1)}
    <2>1. \A k \in 1 .. r - (f + 1) : place((f + 1) + k) # place(f + 1)
      <3> SUFFICES ASSUME NEW k \in 1 .. r - (f + 1) PROVE place((f + 1) + k) # place(f + 1)
        OBVIOUS
      <3>1. /\ f + 1 \in Nat /\ (f + 1) + k \in Nat
            /\ f + 1 < (f + 1) + k /\ ((f + 1) + k) - (f + 1) < Size
        BY <1>3
      <3> QED BY <1>2, <3>1
    <2>2. \A k \in 1 .. r - f : f + k = f + 1 \/ (k - 1 \in 1 .. r - (f + 1) /\ (f + 1) + (k - 1) = f + k)
      OBVIOUS
    <2>3. \A k \in 1 .. r - (f + 1) : k + 1 \in 1 .. r - f /\ f + (k + 1) = (f + 1) + k
      OBVIOUS
    <2>4. 1 \in 1 .. r - f
      BY <1>8
    <2>5. Places(f, r) = Places(f + 1, r) \cup {place(f + 1)}
      BY <1>4, <2>2, <2>3, <2>4
    <2> QED BY <1>1, <1>4, <2>1, <2>5
  <1> QED BY <1>5, <1>6, <1>7, <1>8

LEMMA PlacesAreNoThreads ==
    ASSUME BufferTypes
    PROVE  \A h \in Places(front, rear) : h \in 0 .. Size - 1 /\ h \notin Workers \cup {main}
  BY PlacesChange, NamesOK DEF BufferTypes

\* A connection is accepted, handed on, or closed.
LEMMA HolderComes ==
    ASSUME OneHolder, NEW b, NEW d, b \notin Holders, d \notin open,
           Holders' = Holders \cup {b}, open' = open \cup {d}, Held(b)' = d,
           \A h \in Holders : Held(h)' = Held(h)
    PROVE  OneHolder'
  BY DEF OneHolder

LEMMA HolderHandsOn ==
    ASSUME OneHolder, NEW a \in Holders, NEW b, b \notin Holders,
           Holders' = (Holders \ {a}) \cup {b}, open' = open, Held(b)' = Held(a),
           \A h \in Holders \ {a} : Held(h)' = Held(h)
    PROVE  OneHolder'
  BY DEF OneHolder

LEMMA HolderGoes ==
    ASSUME OneHolder, NEW a \in Holders, Holders' = Holders \ {a}, open' = open \ {Held(a)},
           \A h \in Holders \ {a} : Held(h)' = Held(h)
    PROVE  OneHolder'
  BY DEF OneHolder

LEMMA HoldersStay ==
    ASSUME OneHolder, Holders' = Holders, open' = open, \A h \in Holders : Held(h)' = Held(h)
    PROVE  OneHolder'
  BY DEF OneHolder

\* What is left of TypeOK; a worker stands in one of the two functions; and what it has found
\* ended or sent does not fall silent.
PreTypes ==
    /\ at \in [Workers -> {"remove", "once", "init", "read", "lock", "load", "store",
                           "unlock", "write", "close"}]
    /\ open \subseteq FDs /\ stalled \subseteq open
    /\ up \in BOOLEAN /\ once \in {"new", "running", "done"} /\ cnt_mutex \in {0, 1}
    /\ byte_cnt \in Nat /\ loaded \in [Workers -> Nat] /\ n \in [Workers -> 0 .. MaxBytes]

Standing ==
    /\ \A t \in Workers : at[t] # "remove" => pc[t] = "idle"
    /\ \A t \in Workers : at[t] = "close" => item[t] \notin stalled

PreInv == PreTypes /\ Standing /\ OneHolder

LEMMA InitPreInv == Init => PreInv
  <1> SUFFICES ASSUME Init PROVE PreInv
    OBVIOUS
  <1>1. pc = [t \in Workers \cup {main} |-> "idle"] /\ front = 0 /\ rear = 0
    BY DEF Init, Buf!Init, Buf!Threads
  <1>2. PreTypes /\ Standing
    BY <1>1, SizesOK DEF Init, PreTypes, Standing
  <1>3. Holders = {}
    <2>1. Mine = {} /\ InHand = {} /\ Places(front, rear) = {}
      BY <1>1 DEF Init, Mine, InHand, Places
    <2> QED BY <2>1, HoldersAre
  <1>4. OneHolder
    BY <1>3 DEF Init, OneHolder
  <1> QED BY <1>2, <1>4 DEF PreInv

LEMMA HoldersWillBe == Holders' = Mine' \cup Places(front, rear)' \cup InHand'
  BY DEF Holders, Mine, Places, InHand

\* The steps of the buffer's two functions.
\* A set of natural numbers that is not empty has a least member.
LEMMA LeastExists ==
    ASSUME NEW S, S \subseteq Nat, S # {}
    PROVE  \E x \in S : \A y \in S : x <= y
  <1> DEFINE Below == {ss \in Nat \X Nat : ss[1] < ss[2]}
  <1>1. PICK x \in S : \A y \in S : <<y, x>> \notin Below
    <2>1. IsWellFoundedOn(Below, Nat)
      BY NatLessThanWellFounded DEF OpToRel
    <2> HIDE DEF Below
    <2> QED BY <2>1, WFMin
  <1>2. \A y \in S : <<y, x>> \notin Below => x <= y
    <2> TAKE y \in S
    <2>1. <<y, x>> \in Nat \X Nat /\ <<y, x>>[1] = y /\ <<y, x>>[2] = x
      OBVIOUS
    <2> QED BY <2>1
  <1> QED BY <1>1, <1>2

LEMMA StepAccept ==
    ASSUME BufferTypes, PreInv, Accept
    PROVE  PreInv'
  <1>1. PICK d \in FDs \ open : /\ item' = [item EXCEPT ![main] = d] /\ open' = open \cup {d}
                                /\ stalled' = stalled \/ stalled' = stalled \cup {d}
    <2>1. Min(FDs \ open) \in FDs \ open
      <3>1. \E x \in FDs \ open : \A y \in FDs \ open : x <= y
        BY LeastExists, FDsOK DEF Accept
      <3> QED BY <3>1 DEF Min
    <2>2. PICK v \in FDs \cup {0} : item' = [item EXCEPT ![main] = v]
      BY DEF Accept, Buf!CallInsert
    <2>3. item'[main] = v
      BY <2>2 DEF BufferTypes
    <2> QED BY <2>1, <2>2, <2>3 DEF Accept
  <1>2. /\ pc[main] = "idle" /\ pc' = [pc EXCEPT ![main] = "called"]
        /\ UNCHANGED <<buf, front, rear, at, up, once, cnt_mutex, byte_cnt, loaded, n>>
    BY DEF Accept, Buf!CallInsert, Buf!Goto, counter
  <1>3. \A t \in Workers : pc'[t] = pc[t] /\ item'[t] = item[t]
    BY <1>1, <1>2, WorkersOK DEF BufferTypes
  <1>4. pc'[main] = "called" /\ item'[main] = d
    BY <1>1, <1>2 DEF BufferTypes
  <1>5. PreTypes'
    BY <1>1, <1>2 DEF PreInv, PreTypes
  <1>6. Standing'
    <2>1. \A t \in Workers : at[t] = "close" => item[t] # d
      <3> SUFFICES ASSUME NEW t \in Workers, at[t] = "close" PROVE item[t] # d
        OBVIOUS
      <3>1. t \in Holders /\ Held(t) = item[t]
        BY HoldersAre DEF InHand, Held
      <3> QED BY <1>1, <3>1 DEF PreInv, OneHolder
    <2> QED BY <1>1, <1>2, <1>3, <2>1 DEF PreInv, Standing
  <1>7. OneHolder'
    <2>1. Mine = {} /\ Mine' = {main} /\ InHand' = InHand /\ Places(front, rear)' = Places(front, rear)
      BY <1>2, <1>3, <1>4 DEF Mine, InHand, Places
    <2>2. Holders' = Holders \cup {main} /\ main \notin Holders
      BY <2>1, HoldersAre, HoldersWillBe, PlacesAreNoThreads, WorkersOK DEF InHand
    <2>3. Held(main)' = d
      BY <1>4 DEF Held
    <2>4. \A h \in Holders : Held(h)' = Held(h)
      BY <1>2, <1>3, <2>2 DEF Held
    <2> QED BY <1>1, <2>2, <2>3, <2>4, HolderComes DEF PreInv
  <1> QED BY <1>5, <1>6, <1>7 DEF PreInv

LEMMA StepInsert ==
    ASSUME BufferTypes, PreInv, Insert
    PROVE  PreInv'
  <1>1. UNCHANGED <<item, front, at, open, stalled, up, once, cnt_mutex, byte_cnt, loaded, n>>
    BY DEF Insert, Buf!TakeSlot, Buf!LockInsert, Buf!Store, Buf!UnlockInsert, Buf!PostInsert, counter
  <1>2. \A t \in Workers : pc'[t] = pc[t]
    BY WorkersOK DEF Insert, Buf!TakeSlot, Buf!LockInsert, Buf!Store, Buf!UnlockInsert, Buf!PostInsert,
                     Buf!Goto, BufferTypes
  <1>3. PreTypes' /\ Standing'
    BY <1>1, <1>2 DEF PreInv, PreTypes, Standing
  <1>4. InHand' = InHand
    BY <1>1, <1>2 DEF InHand
  <1>5. CASE Buf!Store(main)
    <2>0. PICK p : p = (rear + 1) % Size
      OBVIOUS
    <2>1. /\ pc[main] = "storing" /\ pc'[main] = "stored" /\ rear' = rear + 1
          /\ buf' = [buf EXCEPT ![p] = item[main]]
      BY <1>5, <2>0 DEF Buf!Store, Buf!Goto, BufferTypes
    <2>2. /\ p \in (0 .. Size - 1) \ Places(front, rear)
          /\ Places(front, rear)' = Places(front, rear) \cup {p}
      <3>1. Places(front, rear)' = Places(front, rear + 1)
        BY <1>1, <2>1 DEF Places
      <3> QED BY <2>0, <2>1, <3>1, PlacesChange DEF BufferTypes
    <2>3. Mine = {main} /\ Mine' = {}
      BY <2>1 DEF Mine
    <2>4. p \notin Workers \cup {main}
      BY <2>2, NamesOK
    <2>5. /\ main \in Holders /\ p \notin Holders
          /\ Holders' = (Holders \ {main}) \cup {p}
      BY <1>4, <2>2, <2>3, <2>4, HoldersAre, HoldersWillBe, PlacesAreNoThreads, WorkersOK DEF InHand
    <2>6. Held(p)' = Held(main)
      <3>1. buf'[p] = item[main]
        BY <2>1, <2>2 DEF BufferTypes
      <3> QED BY <2>4, <3>1 DEF Held
    <2>7. \A h \in Holders \ {main} : Held(h)' = Held(h)
      <3>1. \A q \in Places(front, rear) : buf'[q] = buf[q]
        BY <2>1, <2>2, PlacesAreNoThreads DEF BufferTypes
      <3> QED BY <1>1, <2>3, <3>1, HoldersAre DEF Held, InHand
    <2>8. OneHolder'
      BY <1>1, <2>5, <2>6, <2>7, HolderHandsOn DEF PreInv
    <2> QED BY <1>3, <2>8 DEF PreInv
  <1>6. CASE Buf!TakeSlot(main) \/ Buf!LockInsert(main) \/ Buf!UnlockInsert(main) \/ Buf!PostInsert(main)
    <2>1. Mine' = Mine /\ UNCHANGED <<buf, rear>>
      BY <1>6 DEF Buf!TakeSlot, Buf!LockInsert, Buf!UnlockInsert, Buf!PostInsert, Buf!Goto, Mine, BufferTypes
    <2>2. Holders' = Holders
      BY <1>1, <1>4, <2>1, HoldersAre, HoldersWillBe DEF Places
    <2>3. \A h \in Holders : Held(h)' = Held(h)
      BY <1>1, <2>1 DEF Held
    <2>4. OneHolder'
      BY <1>1, <2>2, <2>3, HoldersStay DEF PreInv
    <2> QED BY <1>3, <2>4 DEF PreInv
  <1> QED BY <1>5, <1>6 DEF Insert

LEMMA StepRemove ==
    ASSUME BufferTypes, PreInv, NEW t \in Workers, Remove(t)
    PROVE  PreInv'
  <1>1. /\ at[t] = "remove" /\ (at' = at \/ at' = [at EXCEPT ![t] = "once"])
        /\ UNCHANGED <<rear, buf, open, stalled, up, once, cnt_mutex, byte_cnt, loaded, n>>
    BY DEF Remove, Buf!Remove, Buf!TakeItem, Buf!LockRemove, Buf!Fetch, Buf!UnlockRemove,
           Buf!PostRemove, counter
  <1>2. PreTypes'
    BY <1>1 DEF PreInv, PreTypes
  <1>3. pc'[main] = pc[main] /\ \A u \in Workers \ {t} : pc'[u] = pc[u]
    BY WorkersOK DEF Remove, Buf!Remove, Buf!TakeItem, Buf!LockRemove, Buf!Fetch, Buf!UnlockRemove,
                     Buf!PostRemove, Buf!Goto, BufferTypes
  <1>4. Mine' = Mine
    BY <1>3 DEF Mine
  <1>5. CASE Buf!Fetch(t)
    <2> DEFINE p == (front + 1) % Size
    <2>1. /\ pc[t] = "fetching" /\ pc'[t] = "fetched" /\ front' = front + 1 /\ at' = at
          /\ item' = [item EXCEPT ![t] = buf[p]]
      <3>1. /\ pc[t] = "fetching" /\ pc'[t] = "fetched" /\ front' = front + 1
            /\ item' = [item EXCEPT ![t] = buf[p]]
        BY <1>5 DEF Buf!Fetch, Buf!Goto, BufferTypes
      <3> QED BY <3>1 DEF Remove
    <2>2. /\ p \in (0 .. Size - 1) \ Places(front, rear)'
          /\ Places(front, rear) = Places(front, rear)' \cup {p}
      <3>1. Places(front, rear)' = Places(front + 1, rear)
        BY <1>1, <2>1 DEF Places
      <3> QED BY <2>1, <3>1, PlacesChange DEF BufferTypes
    <2> HIDE DEF p
    <2>3. InHand' = InHand \cup {t} /\ t \notin InHand
      BY <1>1, <1>3, <2>1 DEF InHand
    <2>4. p \notin Workers \cup {main}
      BY <2>2, NamesOK
    <2>5. p \in Holders /\ t \notin Holders /\ Holders' = (Holders \ {p}) \cup {t}
      BY <1>4, <2>2, <2>3, <2>4, HoldersAre, HoldersWillBe, PlacesAreNoThreads, WorkersOK DEF InHand, Mine
    <2>6. item'[t] = buf[p] /\ \A u \in (Workers \cup {main}) \ {t} : item'[u] = item[u]
      BY <2>1 DEF BufferTypes
    <2>7. Held(t)' = Held(p)
      BY <2>4, <2>6 DEF Held
    <2>8. \A h \in Holders \ {p} : Held(h)' = Held(h)
      BY <1>1, <2>5, <2>6 DEF Held
    <2>9. OneHolder'
      BY <1>1, <2>5, <2>7, <2>8, HolderHandsOn DEF PreInv
    <2>10. Standing'
      BY <1>1, <1>3, <2>1, <2>6 DEF PreInv, Standing
    <2> QED BY <1>2, <2>9, <2>10 DEF PreInv
  <1>6. CASE Buf!TakeItem(t) \/ Buf!LockRemove(t) \/ Buf!UnlockRemove(t) \/ Buf!PostRemove(t)
    <2>1. /\ UNCHANGED <<front, item>>
          /\ \/ pc[t] \notin {"fetched", "freeing"} /\ pc'[t] \notin {"fetched", "freeing", "idle"} /\ at' = at
             \/ pc[t] \in {"fetched", "freeing"} /\ pc'[t] = "freeing" /\ at' = at
             \/ pc[t] \in {"fetched", "freeing"} /\ pc'[t] = "idle" /\ at' = [at EXCEPT ![t] = "once"]
      BY <1>6 DEF Remove, Buf!TakeItem, Buf!LockRemove, Buf!UnlockRemove, Buf!PostRemove, Buf!Goto, BufferTypes
    <2>2. InHand' = InHand
      BY <1>1, <1>3, <2>1 DEF InHand, PreInv, PreTypes
    <2>3. Holders' = Holders
      BY <1>1, <1>4, <2>1, <2>2, HoldersAre, HoldersWillBe DEF Places
    <2>4. \A h \in Holders : Held(h)' = Held(h)
      BY <1>1, <2>1 DEF Held
    <2>5. OneHolder'
      BY <1>1, <2>3, <2>4, HoldersStay DEF PreInv
    <2>6. Standing'
      BY <1>1, <1>3, <2>1 DEF PreInv, PreTypes, Standing
    <2> QED BY <1>2, <2>5, <2>6 DEF PreInv
  <1> QED BY <1>5, <1>6 DEF Remove, Buf!Remove

LEMMA StepServe ==
    ASSUME BufferTypes, CountInv, PreInv, NEW t \in Workers,
           \/ CallOnce(t) \/ InitEchoCnt(t) \/ ReadLine(t) \/ ReadEOF(t) \/ LockCount(t)
           \/ LoadCount(t) \/ StoreCount(t) \/ UnlockCount(t) \/ WriteLine(t) \/ CloseConn(t)
    PROVE  PreInv'
  <1>1. /\ at[t] # "remove" /\ pc[t] = "idle" /\ UNCHANGED <<stalled, up>>
        /\ UNCHANGED <<buf, front, rear, pc, item>>
    BY DEF PreInv, Standing, Move, sbuf, counter, CallOnce, InitEchoCnt, ReadLine, ReadEOF, LockCount,
           LoadCount, StoreCount, UnlockCount, WriteLine, CloseConn
  <1>2. Mine' = Mine /\ Places(front, rear)' = Places(front, rear) /\ t \in InHand /\ t \notin Places(front, rear)
    BY <1>1, PlacesAreNoThreads DEF Mine, Places, InHand
  <1>3. \A h \in Holders : Held(h)' = Held(h)
    BY <1>1 DEF Held
  <1>4. CASE CloseConn(t)
    <2>1. /\ at[t] = "close" /\ at' = [at EXCEPT ![t] = "remove"] /\ open' = open \ {item[t]}
          /\ UNCHANGED <<once, cnt_mutex, byte_cnt, loaded, n>>
      BY <1>4 DEF CloseConn, Move, counter
    <2>2. PreTypes'
      BY <1>1, <2>1 DEF PreInv, PreTypes, Standing
    <2>3. Standing'
      BY <1>1, <2>1 DEF PreInv, PreTypes, Standing
    <2>4. InHand' = InHand \ {t}
      BY <1>1, <2>1 DEF InHand, PreInv, PreTypes
    <2>5. t \in Holders /\ Holders' = Holders \ {t} /\ Held(t) = item[t]
      BY <1>2, <2>4, HoldersAre, HoldersWillBe, WorkersOK DEF Mine, Held
    <2>6. OneHolder'
      BY <1>3, <2>1, <2>5, HolderGoes DEF PreInv
    <2> QED BY <2>2, <2>3, <2>6 DEF PreInv
  <1>5. CASE \/ CallOnce(t) \/ InitEchoCnt(t) \/ ReadLine(t) \/ ReadEOF(t) \/ LockCount(t)
             \/ LoadCount(t) \/ StoreCount(t) \/ UnlockCount(t) \/ WriteLine(t)
    <2>1. /\ open' = open
          /\ \E to \in {"init", "read", "lock", "close", "load", "store", "unlock", "write"} :
                 at' = [at EXCEPT ![t] = to] /\ (to = "close" => item[t] \notin stalled)
      BY <1>5 DEF Move, CallOnce, InitEchoCnt, ReadLine, ReadEOF, LockCount,
                  LoadCount, StoreCount, UnlockCount, WriteLine
    <2>2. PICK to \in {"init", "read", "lock", "close", "load", "store", "unlock", "write"} :
              at' = [at EXCEPT ![t] = to] /\ (to = "close" => item[t] \notin stalled)
      BY <2>1
    <2>3. PreTypes'
      <3>1. at' \in [Workers -> {"remove", "once", "init", "read", "lock", "load", "store",
                                 "unlock", "write", "close"}]
        BY <2>2 DEF PreInv, PreTypes
      <3>2. CASE ReadLine(t)
        <4>1. PICK k \in 1 .. MaxBytes - byte_cnt : n' = [n EXCEPT ![t] = k]
          BY <3>2 DEF ReadLine
        <4>2. k \in 0 .. MaxBytes
          BY <4>1, SizesOK DEF PreInv, PreTypes
        <4> QED BY <1>1, <2>1, <3>1, <3>2, <4>1, <4>2 DEF PreInv, PreTypes, ReadLine, counter
      <3>3. CASE InitEchoCnt(t) \/ CallOnce(t)
        BY <1>1, <2>1, <3>1, <3>3 DEF PreInv, PreTypes, InitEchoCnt, CallOnce
      <3>4. CASE LockCount(t) \/ UnlockCount(t)
        <4>1. CASE LockCount(t)
          BY <1>1, <2>1, <3>1, <4>1 DEF PreInv, PreTypes, LockCount, Buf!P
        <4>2. CASE UnlockCount(t)
          <5>1. cnt_mutex = 0
            BY <4>2 DEF UnlockCount, Move, CountInv, OneUpdater, Updating
          <5> QED BY <1>1, <2>1, <3>1, <4>2, <5>1 DEF PreInv, PreTypes, UnlockCount, Buf!V
        <4> QED BY <3>4, <4>1, <4>2
      <3>5. CASE LoadCount(t) \/ StoreCount(t)
        BY <1>1, <2>1, <3>1, <3>5, SizesOK DEF PreInv, PreTypes, LoadCount, StoreCount
      <3>6. CASE ReadEOF(t) \/ WriteLine(t)
        BY <1>1, <2>1, <3>1, <3>6 DEF PreInv, PreTypes, ReadEOF, WriteLine, counter
      <3> QED BY <1>5, <3>2, <3>3, <3>4, <3>5, <3>6
    <2>4. Standing'
      BY <1>1, <2>2 DEF PreInv, PreTypes, Standing
    <2>5. InHand' = InHand
      BY <1>1, <2>2 DEF InHand, PreInv, PreTypes
    <2>6. Holders' = Holders
      BY <1>2, <2>5, HoldersAre, HoldersWillBe
    <2>7. OneHolder'
      BY <1>3, <2>1, <2>6, HoldersStay DEF PreInv
    <2> QED BY <2>3, <2>4, <2>7 DEF PreInv
  <1> QED BY <1>4, <1>5

LEMMA StepPreInv == BufferTypes /\ CountInv /\ PreInv /\ [Next]_vars => PreInv'
  <1> SUFFICES ASSUME BufferTypes, CountInv, PreInv, [Next]_vars PROVE PreInv'
    OBVIOUS
  <1>1. ASSUME UNCHANGED <<sbuf, at, open, stalled, once, cnt_mutex, byte_cnt, loaded, n>>, up' \in BOOLEAN
        PROVE  PreInv'
    <2>1. UNCHANGED <<buf, front, rear, pc, item>>
      BY <1>1 DEF sbuf
    <2>2. Mine' = Mine /\ InHand' = InHand /\ Places(front, rear)' = Places(front, rear)
      BY <1>1, <2>1 DEF Mine, InHand, Places
    <2>3. OneHolder'
      <3>1. \A h \in Holders : Held(h)' = Held(h)
        BY <2>1 DEF Held
      <3> QED BY <1>1, <2>2, <3>1, HoldersAre, HoldersWillBe, HoldersStay DEF PreInv
    <2> QED BY <1>1, <2>1, <2>3 DEF PreInv, PreTypes, Standing
  <1>2. ASSUME NEW t \in Workers, ClientResets(t) PROVE PreInv'
    BY <1>1, <1>2 DEF ClientResets, counter
  <1>3. CASE AcceptFails \/ UNCHANGED vars
    BY <1>1, <1>3 DEF vars, counter, AcceptFails, PreInv, PreTypes
  <1> QED BY <1>2, <1>3, StepAccept, StepInsert, StepRemove, StepServe, Zenon DEF Next, Worker

\* With every connection in one place, there are no more of them than places.
LEMMA FewDescriptors == BufferTypes /\ OneHolder => DescriptorsBounded
  <1> SUFFICES ASSUME BufferTypes, OneHolder PROVE DescriptorsBounded
    OBVIOUS
  <1> DEFINE All == (Workers \cup (0 .. Size - 1)) \cup {main}
             held == [h \in Holders |-> Held(h)]
  <1>1. /\ IsFiniteSet(All) /\ Cardinality(All) \in Nat
        /\ Cardinality(All) <= Size + Cardinality(Workers) + 1
    <2>1. IsFiniteSet(Workers) /\ Cardinality(Workers) \in Nat
      BY WorkersOK, FS_CardinalityType
    <2>2. IsFiniteSet(0 .. Size - 1) /\ Cardinality(0 .. Size - 1) = Size
      BY SizesOK, FS_Interval
    <2>3. Workers \cap (0 .. Size - 1) = {}
      BY NamesOK
    <2>4. /\ IsFiniteSet(Workers \cup (0 .. Size - 1))
          /\ Cardinality(Workers \cup (0 .. Size - 1)) = Cardinality(Workers) + Size
      <3> DEFINE R == 0 .. Size - 1
      <3>1. IsFiniteSet(R) /\ Cardinality(R) = Size
        BY <2>2
      <3>2. Cardinality(Workers \cap R) = 0
        BY <2>3, FS_EmptySet
      <3> HIDE DEF R
      <3>3. /\ IsFiniteSet(Workers \cup R)
            /\ Cardinality(Workers \cup R) = Cardinality(Workers) + Cardinality(R)
                                             - Cardinality(Workers \cap R)
        BY <2>1, <3>1, FS_Union
      <3>4. /\ IsFiniteSet(Workers \cup R)
            /\ Cardinality(Workers \cup R) = Cardinality(Workers) + Size
        BY <2>1, <3>1, <3>2, <3>3, SizesOK
      <3> QED BY <3>4 DEF R
    <2>5. IsFiniteSet(All) /\ Cardinality(All) <= Cardinality(Workers) + Size + 1
      <3> DEFINE A == Workers \cup (0 .. Size - 1)
      <3>1. IsFiniteSet(A) /\ Cardinality(A) = Cardinality(Workers) + Size
        BY <2>4
      <3> HIDE DEF A
      <3>2. IsFiniteSet(A \cup {main}) /\ Cardinality(A \cup {main}) <= Cardinality(A) + 1
        BY <2>1, <3>1, SizesOK, FS_AddElement
      <3> QED BY <2>1, <3>1, <3>2, SizesOK DEF A
    <2> QED BY <2>1, <2>5, SizesOK, FS_CardinalityType
  <1>2. Holders \subseteq All
    BY HoldersAre, PlacesAreNoThreads DEF Mine, InHand
  <1> HIDE DEF All
  <1>3. IsFiniteSet(Holders) /\ Cardinality(Holders) \in Nat /\ Cardinality(Holders) <= Cardinality(All)
    BY <1>1, <1>2, FS_Subset, FS_CardinalityType
  <1>4. held \in Surjection(Holders, open)
    <2>1. \A h \in Holders : Held(h) \in open
      BY DEF OneHolder
    <2>2. \A d \in open : \E h \in Holders : Held(h) = d
      BY DEF OneHolder
    <2> QED BY <2>1, <2>2 DEF Surjection
  <1>5. IsFiniteSet(open) /\ Cardinality(open) <= Cardinality(Holders)
    BY <1>3, <1>4, FS_Surjection
  <1>6. Cardinality(open) \in Nat /\ Cardinality(Workers) \in Nat
    BY <1>5, WorkersOK, FS_CardinalityType
  <1> QED BY <1>1, <1>3, <1>5, <1>6, SizesOK DEF DescriptorsBounded

\* thread/echoserver_pre.c: between accept() and close() a connection is in main's hand, in one
\* full place of the ring, or in one worker's hand, though descriptors and places are used
\* again; and so no more of them are open than there are places, for any ring and any workers.
THEOREM EachInOnePlace == Spec => []DescriptorsInv
  <1>1. Spec => [](BufferTypes /\ Buf!TypeOK)
    BY BufferInvariant, BufferKnown, PTL
  <1>2. Spec => []CountInv
    BY InitCountInv, StepCountInv, PTL DEF Spec
  <1>3. Spec => []PreInv
    BY <1>1, <1>2, InitPreInv, StepPreInv, PTL DEF Spec
  <1>4. BufferTypes /\ Buf!TypeOK /\ PreInv => DescriptorsInv
    BY FewDescriptors DEF PreInv, PreTypes, TypeOK, DescriptorsInv
  <1> QED BY <1>1, <1>3, <1>4, PTL
=============================================================================
