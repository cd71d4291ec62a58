------------------------- MODULE ReaderWriterProofs -------------------------
(***************************************************************************)
(* Proofs about ReaderWriter for any finite set of threads: the inductive  *)
(* invariant, the exclusion properties that follow from it, and that the   *)
(* semaphores implement the abstract lock.                                 *)
(***************************************************************************)
EXTENDS ReaderWriter, FiniteSetTheorems, TLAPS

Counted == {"claiming", "admitted", "reading", "uncounting"}

\* The number of threads the counter should show, and how a step changes it.
LEMMA CountedIsNat ==
    /\ IsFiniteSet(At(Counted)) /\ Cardinality(At(Counted)) \in Nat
    /\ Cardinality(At(Counted)) = 0 <=> At(Counted) = {}
  <1>1. At(Counted) \subseteq Threads
    BY DEF At
  <1> QED BY <1>1, ThreadsFinite, FS_Subset, FS_CardinalityType, FS_EmptySet

LEMMA CountedMoves ==
    ASSUME TypeOK, NEW t \in Threads, NEW label \in Labels, Goto(t, label)
    PROVE  Cardinality(At(Counted))' =
             Cardinality(At(Counted))
               + (IF label \in Counted THEN 1 ELSE 0)
               - (IF pc[t] \in Counted THEN 1 ELSE 0)
  <1>1. pc'[t] = label /\ \A u \in Threads \ {t} : pc'[u] = pc[u]
    BY DEF TypeOK, Goto
  <1>2. At(Counted)' = IF label \in Counted THEN At(Counted) \cup {t} ELSE At(Counted) \ {t}
    BY <1>1 DEF At
  <1>3. t \in At(Counted) <=> pc[t] \in Counted
    BY DEF At
  <1>4. Cardinality(At(Counted))' = Cardinality(At(Counted)')
    OBVIOUS
  <1>5. CASE label \in Counted
    <2>1. Cardinality(At(Counted) \cup {t}) =
              IF t \in At(Counted) THEN Cardinality(At(Counted)) ELSE Cardinality(At(Counted)) + 1
      BY CountedIsNat, FS_AddElement
    <2> QED BY <1>2, <1>3, <1>4, <1>5, <2>1, CountedIsNat
  <1>6. CASE label \notin Counted
    <2>1. Cardinality(At(Counted) \ {t}) =
              IF t \in At(Counted) THEN Cardinality(At(Counted)) - 1 ELSE Cardinality(At(Counted))
      BY CountedIsNat, FS_RemoveElement
    <2> QED BY <1>2, <1>3, <1>4, <1>6, <2>1, CountedIsNat
  <1> QED BY <1>5, <1>6

-----------------------------------------------------------------------------
LEMMA InitIInv == Init => IInv
  <1> SUFFICES ASSUME Init PROVE IInv
    OBVIOUS
  <1>1. \A S : "idle" \notin S => At(S) = {}
    BY DEF Init, At
  <1>2. Cardinality(At(Counted)) = 0
    BY <1>1, FS_EmptySet DEF Counted
  <1> QED
    BY <1>1, <1>2 DEF Init, IInv, TypeOK, InMutex, Labels, CounterExclusion,
                      CounterExact, Counted, WAccounted, Group

LEMMA StepIInv == IInv /\ [Next]_vars => IInv'
  <1> SUFFICES ASSUME IInv, [Next]_vars PROVE IInv'
    OBVIOUS
  <1> DEFINE n == Cardinality(At(Counted))
  <1>0. /\ n \in Nat
        /\ n = 0 <=> At(Counted) = {}
        /\ readcnt = n
    BY CountedIsNat DEF IInv, CounterExact, Counted
  <1> USE DEF IInv, TypeOK, CounterExclusion, WAccounted, Labels, InMutex, Group,
              At, Goto, P, V
  <1>1. ASSUME NEW t \in Threads, Arrive(t) PROVE IInv'
    <2>1. n' = n + (IF "counting" \in Counted THEN 1 ELSE 0)
                - (IF pc[t] \in Counted THEN 1 ELSE 0)
      BY <1>1, CountedMoves DEF Arrive
    <2> QED BY <1>0, <1>1, <2>1 DEF Arrive, Counted, CounterExact
  <1>2. ASSUME NEW t \in Threads, Count(t) PROVE IInv'
    <2> DEFINE label == IF readcnt' = 1 THEN "claiming" ELSE "admitted"
    <2>1. n' = n + (IF label \in Counted THEN 1 ELSE 0)
                - (IF pc[t] \in Counted THEN 1 ELSE 0)
      BY <1>2, CountedMoves DEF Count
    <2>2. CASE readcnt' = 1
      BY <1>0, <1>2, <2>1, <2>2 DEF Count, Counted, CounterExact
    <2>3. CASE ~(readcnt' = 1)
      BY <1>0, <1>2, <2>1, <2>3 DEF Count, Counted, CounterExact
    <2> QED BY <2>2, <2>3
  <1>3. ASSUME NEW t \in Threads, Claim(t) PROVE IInv'
    <2>1. n' = n + (IF "admitted" \in Counted THEN 1 ELSE 0)
                - (IF pc[t] \in Counted THEN 1 ELSE 0)
      BY <1>3, CountedMoves DEF Claim
    <2> QED BY <1>0, <1>3, <2>1 DEF Claim, Counted, CounterExact
  <1>4. ASSUME NEW t \in Threads, Admit(t) PROVE IInv'
    <2>1. n' = n + (IF "reading" \in Counted THEN 1 ELSE 0)
                - (IF pc[t] \in Counted THEN 1 ELSE 0)
      BY <1>4, CountedMoves DEF Admit
    <2> QED BY <1>0, <1>4, <2>1 DEF Admit, Counted, CounterExact
  <1>5. ASSUME NEW t \in Threads, Leave(t) PROVE IInv'
    <2>1. n' = n + (IF "uncounting" \in Counted THEN 1 ELSE 0)
                - (IF pc[t] \in Counted THEN 1 ELSE 0)
      BY <1>5, CountedMoves DEF Leave
    <2> QED BY <1>0, <1>5, <2>1 DEF Leave, Counted, CounterExact
  <1>6. ASSUME NEW t \in Threads, Uncount(t) PROVE IInv'
    <2> DEFINE label == IF readcnt' = 0 THEN "releasing" ELSE "left"
    <2>1. n' = n + (IF label \in Counted THEN 1 ELSE 0)
                - (IF pc[t] \in Counted THEN 1 ELSE 0)
      BY <1>6, CountedMoves DEF Uncount
    <2>2. CASE readcnt' = 0
      BY <1>0, <1>6, <2>1, <2>2 DEF Uncount, Counted, CounterExact
    <2>3. CASE ~(readcnt' = 0)
      <3>1. n' # 0
        BY <1>0, <1>6, <2>1, <2>3 DEF Uncount, Counted
      <3>2. PICK u \in Threads : pc'[u] \in Counted
        BY <3>1, ThreadsFinite, FS_EmptySet DEF At
      <3>3. pc'[u] = "reading"
        BY <1>6, <2>3, <3>2 DEF Uncount, Counted
      <3> QED BY <1>0, <1>6, <2>1, <2>3, <3>3 DEF Uncount, Counted, CounterExact
    <2> QED BY <2>2, <2>3
  <1>7. ASSUME NEW t \in Threads, Release(t) PROVE IInv'
    <2>1. n' = n + (IF "left" \in Counted THEN 1 ELSE 0)
                - (IF pc[t] \in Counted THEN 1 ELSE 0)
      BY <1>7, CountedMoves DEF Release
    <2> QED BY <1>0, <1>7, <2>1 DEF Release, Counted, CounterExact
  <1>8. ASSUME NEW t \in Threads, Depart(t) PROVE IInv'
    <2>1. n' = n + (IF "idle" \in Counted THEN 1 ELSE 0)
                - (IF pc[t] \in Counted THEN 1 ELSE 0)
      BY <1>8, CountedMoves DEF Depart
    <2> QED BY <1>0, <1>8, <2>1 DEF Depart, Counted, CounterExact
  <1>9. ASSUME NEW t \in Threads, BeginWrite(t) PROVE IInv'
    <2>1. n' = n + (IF "writing" \in Counted THEN 1 ELSE 0)
                - (IF pc[t] \in Counted THEN 1 ELSE 0)
      BY <1>9, CountedMoves DEF BeginWrite
    <2> QED BY <1>0, <1>9, <2>1 DEF BeginWrite, Counted, CounterExact
  <1>10. ASSUME NEW t \in Threads, EndWrite(t) PROVE IInv'
    <2>1. n' = n + (IF "idle" \in Counted THEN 1 ELSE 0)
                - (IF pc[t] \in Counted THEN 1 ELSE 0)
      BY <1>10, CountedMoves DEF EndWrite
    <2> QED BY <1>0, <1>10, <2>1 DEF EndWrite, Counted, CounterExact
  <1>11. CASE UNCHANGED vars
    BY <1>11 DEF vars, CounterExact
  <1> QED
    BY <1>1, <1>2, <1>3, <1>4, <1>5, <1>6, <1>7, <1>8, <1>9, <1>10, <1>11
       DEF Next, Reader, Writer

-----------------------------------------------------------------------------
\* The invariant holds of every behaviour, for every finite set of threads.
THEOREM Invariance == Spec => []IInv
  BY InitIInv, StepIInv, PTL DEF Spec

\* The semaphores of reader_writer.c and proxy.c are binary, the counter is
\* never negative and every thread is at a statement of reader() or writer().
THEOREM TypeCorrect == Spec => []TypeOK
  <1>1. IInv => TypeOK
    BY DEF IInv
  <1> QED BY <1>1, Invariance, PTL

\* No thread reads the shared data while another writes it, and no two write.
THEOREM MutualExclusion == Spec => []Exclusion
  <1>1. IInv => Exclusion
    BY DEF IInv, Exclusion, Group, At
  <1> QED BY <1>1, Invariance, PTL

\* A reader waiting for w is alone: readers never wait for one another there.
THEOREM ReadersShare == Spec => []ClaimOnlyAlone
  <1>1. IInv => ClaimOnlyAlone
    <2> SUFFICES ASSUME IInv, At({"claiming"}) # {}
                 PROVE  At({"reading", "uncounting"}) = {}
      BY DEF ClaimOnlyAlone
    <2>1. PICK t \in Threads : pc[t] = "claiming"
      BY DEF At
    <2>2. Cardinality(At(Counted)) = 1
      BY DEF IInv, CounterExact, Counted
    <2>3. IsFiniteSet(At(Counted))
      BY CountedIsNat
    <2>4. t \in At(Counted)
      BY <2>1 DEF At, Counted
    <2>5. At(Counted) = {t}
      BY <2>2, <2>3, <2>4, FS_Singleton
    <2> QED BY <2>1, <2>5 DEF At, Counted
  <1> QED BY <1>1, Invariance, PTL

\* Every step of the protocol is a step of the abstract lock or invisible to
\* it, so whatever the lock promises its users the semaphores keep.
THEOREM Refinement == Spec => ImplementsLock
  <1>1. Init => Lock!Init
    BY DEF Init, Lock!Init, At
  <1>2. IInv /\ [Next]_vars => [Lock!Next]_(Lock!vars)
    <2> SUFFICES ASSUME IInv, [Next]_vars
                 PROVE  [Lock!Next]_(Lock!vars)
      OBVIOUS
    <2> USE DEF At, Goto, IInv, TypeOK, Group
    <2>1. ASSUME NEW t \in Threads, Admit(t) PROVE Lock!BeginRead(t)
      BY <2>1 DEF Admit, Lock!BeginRead
    <2>2. ASSUME NEW t \in Threads, Leave(t) PROVE Lock!EndRead(t)
      BY <2>2 DEF Leave, Lock!EndRead
    <2>3. ASSUME NEW t \in Threads, BeginWrite(t) PROVE Lock!BeginWrite(t)
      BY <2>3 DEF BeginWrite, Lock!BeginWrite, P, WAccounted
    <2>4. ASSUME NEW t \in Threads, EndWrite(t) PROVE Lock!EndWrite(t)
      BY <2>4 DEF EndWrite, Lock!EndWrite
    <2>5. ASSUME NEW t \in Threads,
                 Arrive(t) \/ Count(t) \/ Claim(t) \/ Uncount(t)
                   \/ Release(t) \/ Depart(t)
          PROVE  UNCHANGED Lock!vars
      BY <2>5 DEF Arrive, Count, Claim, Uncount, Release, Depart, Lock!vars
    <2>6. CASE UNCHANGED vars
      BY <2>6 DEF vars, Lock!vars
    <2> QED
      BY <2>1, <2>2, <2>3, <2>4, <2>5, <2>6
         DEF Next, Reader, Writer, Lock!Next, Threads
  <1> QED
    BY <1>1, <1>2, Invariance, PTL DEF Spec, ImplementsLock, Lock!Spec
=============================================================================
