-------------------------- MODULE ProxyCacheProofs --------------------------
(***************************************************************************)
(* Proofs about ProxyCache for any finite set of connections: doit() takes *)
(* the lock's steps only, so that what is proved of ReaderWriter holds of  *)
(* the proxy, and therefore scans see whole entries; an entry is what some *)
(* connection fetched, and no store is lost; a hit serves what was fetched *)
(* for its host and path.                                                  *)
(***************************************************************************)
EXTENDS ProxyCache, SequenceTheorems, WellFoundedInduction, TLAPS

RWP == INSTANCE ReaderWriterProofs WITH Readers <- Conns, Writers <- Conns

\* Every step of the proxy is one of the lock or leaves the lock alone.
LEMMA LockSteps == Spec => RW!Spec
  <1>1. Init => RW!Init
    BY DEF Init
  <1>2. [Next]_vars => [RW!Next]_(RW!vars)
    <2> SUFFICES ASSUME [Next]_vars PROVE [RW!Next]_(RW!vars)
      OBVIOUS
    <2> USE DEF RW!vars, lockVars, Exit, GoLookUp
    <2>1. ASSUME NEW c \in Conns,
                 EnterReader(c) \/ LeaveReader(c) \/ ReturnFromReader(c)
          PROVE  RW!Reader(c)
      BY <2>1 DEF EnterReader, LeaveReader, ReturnFromReader, RW!Reader
    <2>2. ASSUME NEW c \in Conns, BeginStore(c) \/ EndStore(c)
          PROVE  RW!Writer(c)
      BY <2>2 DEF BeginStore, EndStore, RW!Writer
    <2>3. ASSUME NEW c \in Conns,
                 \/ ParseRequest(c) \/ Compare(c) \/ ServeHit(c) \/ Connect(c)
                 \/ ForwardLine(c) \/ EndOfReply(c) \/ StoreName(c)
                 \/ StoreOverrun(c) \/ StoreObject(c) \/ CountEntry(c)
                 \/ CloseConn(c)
          PROVE  UNCHANGED RW!vars
      BY <2>3 DEF ParseRequest, Compare, ServeHit, Connect, ForwardLine, EndOfReply,
                  StoreName, StoreOverrun, StoreObject, CountEntry, CloseConn
    <2>4. ASSUME NEW c \in Conns, Environment(c)
          PROVE  UNCHANGED RW!vars
      BY <2>4 DEF Environment, Accept, ParseNothing, ParseInvalid, AcceptFails, ConnectFails,
                  ClientGone
    <2>5. CASE UNCHANGED vars
      BY <2>5 DEF vars
    <2> QED
      BY <2>1, <2>2, <2>3, <2>4, <2>5 DEF Next, Thread, RW!Next, RW!Threads
  <1> QED
    BY <1>1, <1>2, PTL DEF Spec, RW!Spec

\* The instance of the protocol and that of its proofs are the same thing.
LEMMA SameProtocol ==
    /\ RW!Init => RWP!Init
    /\ [RW!Next]_(RW!vars) => [RWP!Next]_(RWP!vars)
  <1>1. RW!Init => RWP!Init
    BY DEF RW!Init, RWP!Init, RW!Threads, RWP!Threads
  <1>2. [RW!Next]_(RW!vars) => [RWP!Next]_(RWP!vars)
    BY DEF RW!Next, RWP!Next, RW!vars, RWP!vars, RW!Threads, RWP!Threads,
           RW!Reader, RWP!Reader, RW!Writer, RWP!Writer, RW!Goto, RWP!Goto,
           RW!P, RWP!P, RW!V, RWP!V,
           RW!Arrive, RWP!Arrive, RW!Count, RWP!Count, RW!Claim, RWP!Claim,
           RW!Admit, RWP!Admit, RW!Leave, RWP!Leave, RW!Uncount, RWP!Uncount,
           RW!Release, RWP!Release, RW!Depart, RWP!Depart,
           RW!BeginWrite, RWP!BeginWrite, RW!EndWrite, RWP!EndWrite
  <1> QED BY <1>1, <1>2

LEMMA LockInvariant == Spec => []RWP!IInv
  <1>1. RWP!IsFiniteSet(RWP!Threads)
    BY ConnsFinite DEF RWP!Threads, RWP!IsFiniteSet, IsFiniteSet
  <1>2. RWP!Spec => []RWP!IInv
    BY <1>1, RWP!Invariance, PTL
  <1> QED BY <1>2, LockSteps, SameProtocol, PTL DEF RW!Spec, RWP!Spec

-----------------------------------------------------------------------------
\* What the lock's invariant says of the readers and writers of the cache.
LEMMA OneWriter ==
    ASSUME RWP!IInv, NEW c \in Conns, pc[c] = "writing"
    PROVE  \A d \in Conns : pc[d] # "reading" /\ (pc[d] = "writing" => d = c)
  BY DEF RWP!IInv, RWP!At, RWP!Threads, RWP!Group

\* How the lock's actions move the program counter of the thread that steps.
LEMMA LockMoves ==
    ASSUME RWP!IInv, NEW c \in Conns
    PROVE  /\ \A d \in Conns \ {c} : RW!Reader(c) \/ RW!Writer(c) => pc'[d] = pc[d]
           /\ RW!Reader(c) => pc[c] # "writing" /\ pc'[c] # "writing"
           /\ RW!Arrive(c) => pc'[c] = "counting"
           /\ RW!Count(c) => pc'[c] \in {"claiming", "admitted"}
           /\ RW!Claim(c) => pc'[c] = "admitted"
           /\ RW!Admit(c) => pc[c] = "admitted" /\ pc'[c] = "reading"
           /\ RW!Leave(c) => pc'[c] = "uncounting"
           /\ RW!Uncount(c) => pc'[c] \in {"releasing", "left"}
           /\ RW!Release(c) => pc'[c] = "left"
           /\ RW!Depart(c) => pc[c] = "left" /\ pc'[c] = "idle"
           /\ RW!BeginWrite(c) => pc[c] = "idle" /\ pc'[c] = "writing"
           /\ RW!EndWrite(c) => pc[c] = "writing" /\ pc'[c] = "idle"
  BY DEF RWP!IInv, RWP!TypeOK, RWP!Threads, RW!Reader, RW!Writer, RW!Goto,
         RW!Arrive, RW!Count, RW!Claim, RW!Admit, RW!Leave, RW!Uncount,
         RW!Release, RW!Depart, RW!BeginWrite, RW!EndWrite

-----------------------------------------------------------------------------
\* Replies being at least a line long, whatever string is stored was fetched by
\* the connection that stores it.
LEMMA ObjectIsOwn ==
    ASSUME NEW c \in Conns, received[c] # <<>>, NEW o \in ObjectString(c)
    PROVE  o.of = uri[c]
  BY DEF ObjectString, Fetch

LEMMA InitCacheInv == Init => CacheInv
  <1> SUFFICES ASSUME Init PROVE CacheInv
    OBVIOUS
  <1>1. \A c \in Conns : pc[c] = "idle"
    BY DEF Init, RW!Init, RW!Threads
  <1> QED
    BY <1>1, SizesAreNat
       DEF Init, CacheInv, CacheTypes, AtMatchesLock, EntryInProgress,
           EntriesWholeOrBlank, EntryWhole, EntryBlank, StoreSteps

LEMMA StepCacheTypes == CacheTypes /\ [Next]_vars => CacheTypes'
  <1> SUFFICES ASSUME CacheTypes, [Next]_vars PROVE CacheTypes'
    OBVIOUS
  <1> USE DEF CacheTypes, StoreSteps, Move, lockVars, connVars, cacheVars, Exit,
              GoLookUp
  <1>1. ASSUME NEW c \in Conns, Accept(c) PROVE CacheTypes'
    BY <1>1 DEF Accept
  <1>2. ASSUME NEW c \in Conns, ParseRequest(c) PROVE CacheTypes'
    BY <1>2, RequestsOK DEF ParseRequest, RequestsTyped
  <1>3. ASSUME NEW c \in Conns, ParseNothing(c) PROVE CacheTypes'
    <2>1. /\ uri' \in [Conns -> URIs \cup {Blank}]
          /\ port' \in [Conns -> Ports \cup {Blank}]
      BY <1>3 DEF ParseNothing, StaleRequest
    <2> QED BY <1>3, <2>1 DEF ParseNothing
  <1>4. ASSUME NEW c \in Conns, ParseInvalid(c) \/ AcceptFails(c) PROVE CacheTypes'
    BY <1>4 DEF ParseInvalid, AcceptFails
  <1>5. ASSUME NEW c \in Conns, EnterReader(c) PROVE CacheTypes'
    BY <1>5 DEF EnterReader
  <1>6. ASSUME NEW c \in Conns, Compare(c) PROVE CacheTypes'
    <2>1. idx' = idx \/ idx' = [idx EXCEPT ![c] = @ + 1]
      BY <1>6 DEF Compare
    <2>2. idx[c] + 1 \in 0 .. Capacity
      BY <1>6, SizesAreNat DEF Compare
    <2>3. idx' \in [Conns -> 0 .. Capacity]
      BY <2>1, <2>2
    <2> QED BY <1>6, <2>3 DEF Compare
  <1>7. ASSUME NEW c \in Conns, ServeHit(c) PROVE CacheTypes'
    BY <1>7 DEF ServeHit
  <1>8. ASSUME NEW c \in Conns, LeaveReader(c) PROVE CacheTypes'
    BY <1>8 DEF LeaveReader
  <1>9. ASSUME NEW c \in Conns, ReturnFromReader(c) PROVE CacheTypes'
    BY <1>9 DEF ReturnFromReader
  <1>10. ASSUME NEW c \in Conns, Connect(c) PROVE CacheTypes'
    BY <1>10 DEF Connect
  <1>11. ASSUME NEW c \in Conns, ConnectFails(c) PROVE CacheTypes'
    BY <1>11 DEF ConnectFails
  <1>12. ASSUME NEW c \in Conns, ForwardLine(c) PROVE CacheTypes'
    BY <1>12 DEF ForwardLine
  <1>13. ASSUME NEW c \in Conns, EndOfReply(c) PROVE CacheTypes'
    BY <1>13 DEF EndOfReply
  <1>14. ASSUME NEW c \in Conns, ClientGone(c) PROVE CacheTypes'
    BY <1>14 DEF ClientGone
  <1>15. ASSUME NEW c \in Conns, BeginStore(c) PROVE CacheTypes'
    BY <1>15 DEF BeginStore
  <1>16. ASSUME NEW c \in Conns, StoreName(c) PROVE CacheTypes'
    BY <1>16 DEF StoreName
  <1>17. ASSUME NEW c \in Conns, StoreOverrun(c) PROVE CacheTypes'
    BY <1>17 DEF StoreOverrun
  <1>18. ASSUME NEW c \in Conns, StoreObject(c) PROVE CacheTypes'
    BY <1>18 DEF StoreObject
  <1>19. ASSUME NEW c \in Conns, CountEntry(c) PROVE CacheTypes'
    BY <1>19 DEF CountEntry
  <1>20. ASSUME NEW c \in Conns, EndStore(c) PROVE CacheTypes'
    BY <1>20 DEF EndStore
  <1>21. ASSUME NEW c \in Conns, CloseConn(c) PROVE CacheTypes'
    BY <1>21 DEF CloseConn
  <1>22. CASE UNCHANGED vars
    BY <1>22 DEF vars
  <1> QED
    BY <1>1, <1>2, <1>3, <1>4, <1>5, <1>6, <1>7, <1>8, <1>9, <1>10, <1>11, <1>12, <1>13, <1>14, <1>15, <1>16, <1>17, <1>18, <1>19, <1>20, <1>21, <1>22
       DEF Next, Thread, Environment

LEMMA StepAtMatchesLock ==
    RWP!IInv /\ CacheTypes /\ AtMatchesLock /\ [Next]_vars => AtMatchesLock'
  <1> SUFFICES ASSUME RWP!IInv, CacheTypes, AtMatchesLock, [Next]_vars PROVE AtMatchesLock'
    OBVIOUS
  <1> USE DEF CacheTypes, AtMatchesLock, StoreSteps, Move, lockVars, connVars, cacheVars, Exit,
              GoLookUp
  <1>1. ASSUME NEW c \in Conns, Accept(c) PROVE AtMatchesLock'
    BY <1>1 DEF Accept
  <1>2. ASSUME NEW c \in Conns, ParseRequest(c) PROVE AtMatchesLock'
    BY <1>2 DEF ParseRequest
  <1>3. ASSUME NEW c \in Conns, ParseNothing(c) PROVE AtMatchesLock'
    BY <1>3 DEF ParseNothing
  <1>4. ASSUME NEW c \in Conns, ParseInvalid(c) \/ AcceptFails(c) PROVE AtMatchesLock'
    BY <1>4 DEF ParseInvalid, AcceptFails
  <1>5. ASSUME NEW c \in Conns, EnterReader(c) PROVE AtMatchesLock'
    <2>1. RW!Reader(c)
      BY <1>5 DEF EnterReader, RW!Reader
    <2> QED BY <1>5, <2>1, LockMoves, ZenonT(40) DEF EnterReader
  <1>6. ASSUME NEW c \in Conns, Compare(c) PROVE AtMatchesLock'
    BY <1>6 DEF Compare
  <1>7. ASSUME NEW c \in Conns, ServeHit(c) PROVE AtMatchesLock'
    BY <1>7 DEF ServeHit
  <1>8. ASSUME NEW c \in Conns, LeaveReader(c) PROVE AtMatchesLock'
    <2>1. RW!Reader(c)
      BY <1>8 DEF LeaveReader, RW!Reader
    <2> QED BY <1>8, <2>1, LockMoves, ZenonT(40) DEF LeaveReader
  <1>9. ASSUME NEW c \in Conns, ReturnFromReader(c) PROVE AtMatchesLock'
    <2>1. RW!Reader(c)
      BY <1>9 DEF ReturnFromReader, RW!Reader
    <2> QED BY <1>9, <2>1, LockMoves, ZenonT(40) DEF ReturnFromReader
  <1>10. ASSUME NEW c \in Conns, Connect(c) PROVE AtMatchesLock'
    BY <1>10 DEF Connect
  <1>11. ASSUME NEW c \in Conns, ConnectFails(c) PROVE AtMatchesLock'
    BY <1>11 DEF ConnectFails
  <1>12. ASSUME NEW c \in Conns, ForwardLine(c) PROVE AtMatchesLock'
    BY <1>12 DEF ForwardLine
  <1>13. ASSUME NEW c \in Conns, EndOfReply(c) PROVE AtMatchesLock'
    BY <1>13 DEF EndOfReply
  <1>14. ASSUME NEW c \in Conns, ClientGone(c) PROVE AtMatchesLock'
    BY <1>14 DEF ClientGone
  <1>15. ASSUME NEW c \in Conns, BeginStore(c) PROVE AtMatchesLock'
    <2>1. RW!Writer(c)
      BY <1>15 DEF BeginStore, RW!Writer
    <2> QED BY <1>15, <2>1, LockMoves, ZenonT(40) DEF BeginStore
  <1>16. ASSUME NEW c \in Conns, StoreName(c) PROVE AtMatchesLock'
    BY <1>16 DEF StoreName
  <1>17. ASSUME NEW c \in Conns, StoreOverrun(c) PROVE AtMatchesLock'
    BY <1>17 DEF StoreOverrun
  <1>18. ASSUME NEW c \in Conns, StoreObject(c) PROVE AtMatchesLock'
    BY <1>18 DEF StoreObject
  <1>19. ASSUME NEW c \in Conns, CountEntry(c) PROVE AtMatchesLock'
    <2>1. \A d \in Conns \ {c} : at[d] \notin StoreSteps
      BY <1>19, OneWriter DEF CountEntry
    <2> QED BY <1>19, <2>1 DEF CountEntry
  <1>20. ASSUME NEW c \in Conns, EndStore(c) PROVE AtMatchesLock'
    <2>1. RW!Writer(c)
      BY <1>20 DEF EndStore, RW!Writer
    <2> QED BY <1>20, <2>1, LockMoves, ZenonT(40) DEF EndStore
  <1>21. ASSUME NEW c \in Conns, CloseConn(c) PROVE AtMatchesLock'
    BY <1>21 DEF CloseConn
  <1>22. CASE UNCHANGED vars
    BY <1>22 DEF vars
  <1> QED
    BY <1>1, <1>2, <1>3, <1>4, <1>5, <1>6, <1>7, <1>8, <1>9, <1>10, <1>11, <1>12, <1>13, <1>14, <1>15, <1>16, <1>17, <1>18, <1>19, <1>20, <1>21, <1>22
       DEF Next, Thread, Environment


LEMMA StepEntryInProgress ==
    ASSUME "empty" \notin Faults
    PROVE  RWP!IInv /\ CacheInv /\ [Next]_vars => EntryInProgress'
  <1> SUFFICES ASSUME RWP!IInv, CacheInv, [Next]_vars PROVE EntryInProgress'
    OBVIOUS
  <1> USE DEF CacheInv, CacheTypes, AtMatchesLock, EntryInProgress, EntryWhole, StoreSteps,
              Move, lockVars, connVars, cacheVars, Exit, GoLookUp
  <1>1. ASSUME NEW c \in Conns, Accept(c) PROVE EntryInProgress'
    BY <1>1 DEF Accept
  <1>2. ASSUME NEW c \in Conns, ParseRequest(c) PROVE EntryInProgress'
    BY <1>2 DEF ParseRequest
  <1>3. ASSUME NEW c \in Conns, ParseNothing(c) PROVE EntryInProgress'
    BY <1>3 DEF ParseNothing
  <1>4. ASSUME NEW c \in Conns, ParseInvalid(c) \/ AcceptFails(c) PROVE EntryInProgress'
    BY <1>4 DEF ParseInvalid, AcceptFails
  <1>5. ASSUME NEW c \in Conns, EnterReader(c) PROVE EntryInProgress'
    BY <1>5 DEF EnterReader
  <1>6. ASSUME NEW c \in Conns, Compare(c) PROVE EntryInProgress'
    BY <1>6 DEF Compare
  <1>7. ASSUME NEW c \in Conns, ServeHit(c) PROVE EntryInProgress'
    BY <1>7 DEF ServeHit
  <1>8. ASSUME NEW c \in Conns, LeaveReader(c) PROVE EntryInProgress'
    BY <1>8 DEF LeaveReader
  <1>9. ASSUME NEW c \in Conns, ReturnFromReader(c) PROVE EntryInProgress'
    BY <1>9 DEF ReturnFromReader
  <1>10. ASSUME NEW c \in Conns, Connect(c) PROVE EntryInProgress'
    BY <1>10 DEF Connect
  <1>11. ASSUME NEW c \in Conns, ConnectFails(c) PROVE EntryInProgress'
    BY <1>11 DEF ConnectFails
  <1>12. ASSUME NEW c \in Conns, ForwardLine(c) PROVE EntryInProgress'
    BY <1>12 DEF ForwardLine
  <1>13. ASSUME NEW c \in Conns, EndOfReply(c) PROVE EntryInProgress'
    BY <1>13 DEF EndOfReply
  <1>14. ASSUME NEW c \in Conns, ClientGone(c) PROVE EntryInProgress'
    BY <1>14 DEF ClientGone
  <1>15. ASSUME NEW c \in Conns, BeginStore(c) PROVE EntryInProgress'
    BY <1>15 DEF BeginStore
  <1>16. ASSUME NEW c \in Conns, StoreName(c) PROVE EntryInProgress'
    <2>1. \A d \in Conns \ {c} : at[d] \notin StoreSteps
      BY <1>16, OneWriter DEF StoreName
    <2>2. \A d \in Conns \ {c} : at'[d] = at[d]
      BY <1>16 DEF StoreName
    <2>4. at'[c] = "object" /\ used_cnt' = used_cnt /\ used_cnt < Capacity
      BY <1>16 DEF StoreName
    <2>5. objects'[used_cnt].name = uri[c]
      BY <1>16, SizesAreNat DEF StoreName
    <2> QED BY <1>16, <2>1, <2>2, <2>4, <2>5 DEF StoreName
  <1>17. ASSUME NEW c \in Conns, StoreOverrun(c) PROVE EntryInProgress'
    BY <1>17 DEF StoreOverrun
  <1>18. ASSUME NEW c \in Conns, StoreObject(c) PROVE EntryInProgress'
    <2>1. \A d \in Conns \ {c} : at[d] \notin StoreSteps
      BY <1>18, OneWriter DEF StoreObject
    <2>2. \A d \in Conns \ {c} : at'[d] = at[d]
      BY <1>18 DEF StoreObject
    <2>3. PICK o \in ObjectString(c) :
            objects' = [objects EXCEPT ![used_cnt] = [name |-> @.name, object |-> o]]
      BY <1>18 DEF StoreObject
    <2>4. at'[c] = "count" /\ used_cnt' = used_cnt /\ used_cnt < Capacity
      BY <1>18 DEF StoreObject
    <2>5. objects'[used_cnt].name = objects'[used_cnt].object.of
      BY <1>18, <2>3, ObjectIsOwn, SizesAreNat DEF StoreObject
    <2> QED BY <1>18, <2>1, <2>2, <2>4, <2>5 DEF StoreObject
  <1>19. ASSUME NEW c \in Conns, CountEntry(c) PROVE EntryInProgress'
    <2>1. \A d \in Conns \ {c} : at[d] \notin StoreSteps
      BY <1>19, OneWriter DEF CountEntry
    <2> QED BY <1>19, <2>1 DEF CountEntry
  <1>20. ASSUME NEW c \in Conns, EndStore(c) PROVE EntryInProgress'
    BY <1>20 DEF EndStore
  <1>21. ASSUME NEW c \in Conns, CloseConn(c) PROVE EntryInProgress'
    BY <1>21 DEF CloseConn
  <1>22. CASE UNCHANGED vars
    BY <1>22 DEF vars
  <1> QED
    BY <1>1, <1>2, <1>3, <1>4, <1>5, <1>6, <1>7, <1>8, <1>9, <1>10, <1>11, <1>12, <1>13, <1>14, <1>15, <1>16, <1>17, <1>18, <1>19, <1>20, <1>21, <1>22
       DEF Next, Thread, Environment


LEMMA StepEntriesWholeOrBlank ==
    RWP!IInv /\ CacheInv /\ [Next]_vars => EntriesWholeOrBlank'
  <1> SUFFICES ASSUME RWP!IInv, CacheInv, [Next]_vars PROVE EntriesWholeOrBlank'
    OBVIOUS
  <1> USE DEF CacheInv, CacheTypes, AtMatchesLock, EntryInProgress, EntriesWholeOrBlank,
              EntryWhole, EntryBlank, StoreSteps, Move, lockVars, connVars, cacheVars,
              Exit, GoLookUp
  <1>1. ASSUME NEW c \in Conns, Accept(c) PROVE EntriesWholeOrBlank'
    BY <1>1 DEF Accept
  <1>2. ASSUME NEW c \in Conns, ParseRequest(c) PROVE EntriesWholeOrBlank'
    BY <1>2 DEF ParseRequest
  <1>3. ASSUME NEW c \in Conns, ParseNothing(c) PROVE EntriesWholeOrBlank'
    BY <1>3 DEF ParseNothing
  <1>4. ASSUME NEW c \in Conns, ParseInvalid(c) \/ AcceptFails(c) PROVE EntriesWholeOrBlank'
    BY <1>4 DEF ParseInvalid, AcceptFails
  <1>5. ASSUME NEW c \in Conns, EnterReader(c) PROVE EntriesWholeOrBlank'
    BY <1>5 DEF EnterReader
  <1>6. ASSUME NEW c \in Conns, Compare(c) PROVE EntriesWholeOrBlank'
    BY <1>6 DEF Compare
  <1>7. ASSUME NEW c \in Conns, ServeHit(c) PROVE EntriesWholeOrBlank'
    BY <1>7 DEF ServeHit
  <1>8. ASSUME NEW c \in Conns, LeaveReader(c) PROVE EntriesWholeOrBlank'
    BY <1>8 DEF LeaveReader
  <1>9. ASSUME NEW c \in Conns, ReturnFromReader(c) PROVE EntriesWholeOrBlank'
    BY <1>9 DEF ReturnFromReader
  <1>10. ASSUME NEW c \in Conns, Connect(c) PROVE EntriesWholeOrBlank'
    BY <1>10 DEF Connect
  <1>11. ASSUME NEW c \in Conns, ConnectFails(c) PROVE EntriesWholeOrBlank'
    BY <1>11 DEF ConnectFails
  <1>12. ASSUME NEW c \in Conns, ForwardLine(c) PROVE EntriesWholeOrBlank'
    BY <1>12 DEF ForwardLine
  <1>13. ASSUME NEW c \in Conns, EndOfReply(c) PROVE EntriesWholeOrBlank'
    BY <1>13 DEF EndOfReply
  <1>14. ASSUME NEW c \in Conns, ClientGone(c) PROVE EntriesWholeOrBlank'
    BY <1>14 DEF ClientGone
  <1>15. ASSUME NEW c \in Conns, BeginStore(c) PROVE EntriesWholeOrBlank'
    BY <1>15 DEF BeginStore
  <1>16. ASSUME NEW c \in Conns, StoreName(c) PROVE EntriesWholeOrBlank'
    <2>1. at'[c] = "object" /\ used_cnt' = used_cnt
      BY <1>16 DEF StoreName
    <2>2. \A i \in 0 .. Capacity - 1 : i # used_cnt => objects'[i] = objects[i]
      BY <1>16 DEF StoreName
    <2> QED BY <2>1, <2>2
  <1>17. ASSUME NEW c \in Conns, StoreOverrun(c) PROVE EntriesWholeOrBlank'
    BY <1>17 DEF StoreOverrun
  <1>18. ASSUME NEW c \in Conns, StoreObject(c) PROVE EntriesWholeOrBlank'
    <2>1. at'[c] = "count" /\ used_cnt' = used_cnt
      BY <1>18 DEF StoreObject
    <2>2. \A i \in 0 .. Capacity - 1 : i # used_cnt => objects'[i] = objects[i]
      BY <1>18 DEF StoreObject
    <2> QED BY <2>1, <2>2
  <1>19. ASSUME NEW c \in Conns, CountEntry(c) PROVE EntriesWholeOrBlank'
    <2>1. \A d \in Conns \ {c} : at[d] \notin StoreSteps
      BY <1>19, OneWriter DEF CountEntry
    <2> QED BY <1>19, <2>1 DEF CountEntry
  <1>20. ASSUME NEW c \in Conns, EndStore(c) PROVE EntriesWholeOrBlank'
    BY <1>20 DEF EndStore
  <1>21. ASSUME NEW c \in Conns, CloseConn(c) PROVE EntriesWholeOrBlank'
    BY <1>21 DEF CloseConn
  <1>22. CASE UNCHANGED vars
    BY <1>22 DEF vars
  <1> QED
    BY <1>1, <1>2, <1>3, <1>4, <1>5, <1>6, <1>7, <1>8, <1>9, <1>10, <1>11, <1>12, <1>13, <1>14, <1>15, <1>16, <1>17, <1>18, <1>19, <1>20, <1>21, <1>22
       DEF Next, Thread, Environment

\* What one connection's step leaves alone keeps the others' scans sound.
LEMMA ScanFrame ==
    ASSUME ScanInv, NEW c \in Conns, ScanSound(c)', objects' = objects,
           \A d \in Conns \ {c} : /\ at'[d] = at[d] /\ pc'[d] = pc[d]
                                  /\ idx'[d] = idx[d] /\ uri'[d] = uri[d] /\ port'[d] = port[d]
    PROVE  ScanInv'
  BY DEF ScanInv, ScanSound, Scanning

LEMMA StepScanInv ==
    RWP!IInv /\ CacheTypes /\ AtMatchesLock /\ ScanInv /\ [Next]_vars => ScanInv'
  <1> SUFFICES ASSUME RWP!IInv, CacheTypes, AtMatchesLock, ScanInv, [Next]_vars
               PROVE  ScanInv'
    OBVIOUS
  <1> USE DEF CacheTypes, Move, lockVars, connVars, cacheVars
  <1>1. ASSUME NEW c \in Conns, Accept(c) PROVE ScanInv'
    <2>1. /\ objects' = objects
          /\ \A d \in Conns \ {c} : /\ at'[d] = at[d] /\ pc'[d] = pc[d]
                                     /\ idx'[d] = idx[d] /\ uri'[d] = uri[d] /\ port'[d] = port[d]
      BY <1>1 DEF Accept
    <2>2. ScanSound(c)'
      BY <1>1 DEF Accept, ScanInv, ScanSound, Scanning
    <2> QED BY <2>1, <2>2, ScanFrame
  <1>2. ASSUME NEW c \in Conns, ParseRequest(c) PROVE ScanInv'
    <2>1. /\ objects' = objects
          /\ \A d \in Conns \ {c} : /\ at'[d] = at[d] /\ pc'[d] = pc[d]
                                     /\ idx'[d] = idx[d] /\ uri'[d] = uri[d] /\ port'[d] = port[d]
      BY <1>2 DEF ParseRequest, GoLookUp
    <2>2. ScanSound(c)'
      <3>1. pc[c] = "idle" /\ idx[c] = 0
        BY <1>2 DEF ParseRequest, GoLookUp, AtMatchesLock, StoreSteps, ScanInv, ScanSound
      <3> QED BY <1>2, <3>1 DEF ParseRequest, GoLookUp, ScanSound, Scanning
    <2> QED BY <2>1, <2>2, ScanFrame
  <1>3. ASSUME NEW c \in Conns, ParseNothing(c) PROVE ScanInv'
    <2>1. /\ objects' = objects
          /\ \A d \in Conns \ {c} : /\ at'[d] = at[d] /\ pc'[d] = pc[d]
                                     /\ idx'[d] = idx[d] /\ uri'[d] = uri[d] /\ port'[d] = port[d]
      BY <1>3 DEF ParseNothing, GoLookUp
    <2>2. ScanSound(c)'
      <3>1. pc[c] = "idle" /\ idx[c] = 0
        BY <1>3 DEF ParseNothing, GoLookUp, AtMatchesLock, StoreSteps, ScanInv, ScanSound
      <3> QED BY <1>3, <3>1 DEF ParseNothing, GoLookUp, ScanSound, Scanning
    <2> QED BY <2>1, <2>2, ScanFrame
  <1>4. ASSUME NEW c \in Conns, ParseInvalid(c) \/ AcceptFails(c) PROVE ScanInv'
    BY <1>4 DEF ParseInvalid, AcceptFails, Exit, ScanInv, ScanSound, Scanning
  <1>5. ASSUME NEW c \in Conns, EnterReader(c) PROVE ScanInv'
    <2>1. RW!Reader(c)
      BY <1>5 DEF EnterReader, RW!Reader
    <2>2. /\ objects' = objects
          /\ \A d \in Conns \ {c} : /\ at'[d] = at[d] /\ pc'[d] = pc[d]
                                     /\ idx'[d] = idx[d] /\ uri'[d] = uri[d] /\ port'[d] = port[d]
      BY <1>5, <2>1, LockMoves DEF EnterReader
    <2>3. ScanSound(c)'
      <3>1. pc'[c] # "reading" \/ pc[c] = "admitted"
        BY <1>5, LockMoves DEF EnterReader
      <3>2. pc[c] \in {"idle", "counting", "claiming", "admitted"}
        BY <1>5 DEF EnterReader, RW!Arrive, RW!Count, RW!Claim, RW!Admit
      <3>3. idx[c] = 0
        BY <1>5, <3>2 DEF EnterReader, ScanInv, ScanSound
      <3> QED BY <1>5, <3>3 DEF EnterReader, ScanSound
    <2> QED BY <2>2, <2>3, ScanFrame
  <1>6. ASSUME NEW c \in Conns, Compare(c) PROVE ScanInv'
    <2>1. /\ objects' = objects
          /\ \A d \in Conns \ {c} : /\ at'[d] = at[d] /\ pc'[d] = pc[d]
                                     /\ idx'[d] = idx[d] /\ uri'[d] = uri[d] /\ port'[d] = port[d]
      BY <1>6 DEF Compare
    <2>2. ScanSound(c)'
      <3>1. idx'[c] = idx[c] \/ (idx'[c] = idx[c] + 1 /\ objects[idx[c]].name # uri[c])
        BY <1>6 DEF Compare
      <3>2. Scanning(c) /\ idx[c] \in Nat
        BY <1>6, SizesAreNat DEF Compare
      <3>3. ScanSound(c) /\ UNCHANGED <<pc, at, uri, objects>>
        BY <1>6 DEF Compare, ScanInv
      <3>4. \A i \in 0 .. idx'[c] - 1 :
              \/ i \in 0 .. idx[c] - 1
              \/ i = idx[c] /\ objects[i].name # uri[c]
        BY <3>1, <3>2
      <3>5. \A i \in 0 .. idx'[c] - 1 : objects[i].name # uri[c]
        BY <3>2, <3>3, <3>4 DEF ScanSound
      <3> QED BY <3>2, <3>3, <3>5 DEF ScanSound, Scanning
    <2> QED BY <2>1, <2>2, ScanFrame
  <1>7. ASSUME NEW c \in Conns, ServeHit(c) PROVE ScanInv'
    <2>1. /\ objects' = objects
          /\ \A d \in Conns \ {c} : /\ at'[d] = at[d] /\ pc'[d] = pc[d]
                                     /\ idx'[d] = idx[d] /\ uri'[d] = uri[d] /\ port'[d] = port[d]
      BY <1>7 DEF ServeHit
    <2>2. ScanSound(c)'
      BY <1>7 DEF ServeHit, ScanInv, ScanSound, Scanning
    <2> QED BY <2>1, <2>2, ScanFrame
  <1>8. ASSUME NEW c \in Conns, LeaveReader(c) PROVE ScanInv'
    <2>1. RW!Reader(c)
      BY <1>8 DEF LeaveReader, RW!Reader
    <2>2. /\ objects' = objects
          /\ \A d \in Conns \ {c} : /\ at'[d] = at[d] /\ pc'[d] = pc[d]
                                     /\ idx'[d] = idx[d] /\ uri'[d] = uri[d] /\ port'[d] = port[d]
      BY <1>8, <2>1, LockMoves DEF LeaveReader
    <2>3. ScanSound(c)'
      <3>1. pc'[c] \in {"uncounting", "releasing", "left"}
        BY <1>8, LockMoves DEF LeaveReader
      <3> QED BY <1>8, <3>1 DEF LeaveReader, ScanSound, Scanning
    <2> QED BY <2>2, <2>3, ScanFrame
  <1>9. ASSUME NEW c \in Conns, ReturnFromReader(c) PROVE ScanInv'
    <2>1. RW!Reader(c)
      BY <1>9 DEF ReturnFromReader, RW!Reader
    <2>2. /\ objects' = objects
          /\ \A d \in Conns \ {c} : /\ at'[d] = at[d] /\ pc'[d] = pc[d]
                                     /\ idx'[d] = idx[d] /\ uri'[d] = uri[d] /\ port'[d] = port[d]
      BY <1>9, <2>1, LockMoves DEF ReturnFromReader
    <2>3. ScanSound(c)'
      BY <1>9 DEF ReturnFromReader, ScanSound, Scanning
    <2> QED BY <2>2, <2>3, ScanFrame
  <1>10. ASSUME NEW c \in Conns, Connect(c) PROVE ScanInv'
    <2>1. /\ objects' = objects
          /\ \A d \in Conns \ {c} : /\ at'[d] = at[d] /\ pc'[d] = pc[d]
                                     /\ idx'[d] = idx[d] /\ uri'[d] = uri[d] /\ port'[d] = port[d]
      BY <1>10 DEF Connect
    <2>2. ScanSound(c)'
      BY <1>10 DEF Connect, ScanInv, ScanSound, Scanning
    <2> QED BY <2>1, <2>2, ScanFrame
  <1>11. ASSUME NEW c \in Conns, ConnectFails(c) PROVE ScanInv'
    BY <1>11 DEF ConnectFails, Exit, ScanInv, ScanSound, Scanning
  <1>12. ASSUME NEW c \in Conns, ForwardLine(c) PROVE ScanInv'
    <2>1. /\ objects' = objects
          /\ \A d \in Conns \ {c} : /\ at'[d] = at[d] /\ pc'[d] = pc[d]
                                     /\ idx'[d] = idx[d] /\ uri'[d] = uri[d] /\ port'[d] = port[d]
      BY <1>12 DEF ForwardLine
    <2>2. ScanSound(c)'
      BY <1>12 DEF ForwardLine, ScanInv, ScanSound, Scanning
    <2> QED BY <2>1, <2>2, ScanFrame
  <1>13. ASSUME NEW c \in Conns, EndOfReply(c) PROVE ScanInv'
    <2>1. /\ objects' = objects
          /\ \A d \in Conns \ {c} : /\ at'[d] = at[d] /\ pc'[d] = pc[d]
                                     /\ idx'[d] = idx[d] /\ uri'[d] = uri[d] /\ port'[d] = port[d]
      BY <1>13 DEF EndOfReply
    <2>2. ScanSound(c)'
      BY <1>13 DEF EndOfReply, ScanInv, ScanSound, Scanning
    <2> QED BY <2>1, <2>2, ScanFrame
  <1>14. ASSUME NEW c \in Conns, ClientGone(c) PROVE ScanInv'
    BY <1>14 DEF ClientGone, Exit, ScanInv, ScanSound, Scanning
  <1>15. ASSUME NEW c \in Conns, BeginStore(c) PROVE ScanInv'
    <2>1. RW!Writer(c)
      BY <1>15 DEF BeginStore, RW!Writer
    <2>2. /\ objects' = objects
          /\ \A d \in Conns \ {c} : /\ at'[d] = at[d] /\ pc'[d] = pc[d]
                                     /\ idx'[d] = idx[d] /\ uri'[d] = uri[d] /\ port'[d] = port[d]
      BY <1>15, <2>1, LockMoves DEF BeginStore
    <2>3. ScanSound(c)'
      BY <1>15 DEF BeginStore, ScanSound, Scanning
    <2> QED BY <2>2, <2>3, ScanFrame
  <1>16. ASSUME NEW c \in Conns, StoreName(c) PROVE ScanInv'
    <2>1. \A d \in Conns : pc[d] # "reading"
      BY <1>16, OneWriter DEF StoreName, AtMatchesLock, StoreSteps
    <2>2. UNCHANGED <<pc, idx>>
      BY <1>16 DEF StoreName
    <2>3. \A d \in Conns : at'[d] = at[d] \/ at'[d] \in StoreSteps
      BY <1>16 DEF StoreName, StoreSteps
    <2> QED
      BY <2>1, <2>2, <2>3 DEF ScanInv, ScanSound, Scanning, StoreSteps
  <1>17. ASSUME NEW c \in Conns, StoreOverrun(c) PROVE ScanInv'
    BY <1>17 DEF StoreOverrun, Exit, ScanInv, ScanSound, Scanning
  <1>18. ASSUME NEW c \in Conns, StoreObject(c) PROVE ScanInv'
    <2>1. \A d \in Conns : pc[d] # "reading"
      BY <1>18, OneWriter DEF StoreObject, AtMatchesLock, StoreSteps
    <2>2. UNCHANGED <<pc, idx>>
      BY <1>18 DEF StoreObject
    <2>3. \A d \in Conns : at'[d] = at[d] \/ at'[d] \in StoreSteps
      BY <1>18 DEF StoreObject, StoreSteps
    <2> QED
      BY <2>1, <2>2, <2>3 DEF ScanInv, ScanSound, Scanning, StoreSteps
  <1>19. ASSUME NEW c \in Conns, CountEntry(c) PROVE ScanInv'
    <2>1. /\ objects' = objects
          /\ \A d \in Conns \ {c} : /\ at'[d] = at[d] /\ pc'[d] = pc[d]
                                     /\ idx'[d] = idx[d] /\ uri'[d] = uri[d] /\ port'[d] = port[d]
      BY <1>19 DEF CountEntry
    <2>2. ScanSound(c)'
      BY <1>19 DEF CountEntry, ScanInv, ScanSound, Scanning
    <2> QED BY <2>1, <2>2, ScanFrame
  <1>20. ASSUME NEW c \in Conns, EndStore(c) PROVE ScanInv'
    <2>1. RW!Writer(c)
      BY <1>20 DEF EndStore, RW!Writer
    <2>2. /\ objects' = objects
          /\ \A d \in Conns \ {c} : /\ at'[d] = at[d] /\ pc'[d] = pc[d]
                                     /\ idx'[d] = idx[d] /\ uri'[d] = uri[d] /\ port'[d] = port[d]
      BY <1>20, <2>1, LockMoves DEF EndStore
    <2>3. ScanSound(c)'
      BY <1>20 DEF EndStore, ScanSound, Scanning
    <2> QED BY <2>2, <2>3, ScanFrame
  <1>21. ASSUME NEW c \in Conns, CloseConn(c) PROVE ScanInv'
    <2>1. /\ objects' = objects
          /\ \A d \in Conns \ {c} : /\ at'[d] = at[d] /\ pc'[d] = pc[d]
                                     /\ idx'[d] = idx[d] /\ uri'[d] = uri[d] /\ port'[d] = port[d]
      BY <1>21 DEF CloseConn
    <2>2. ScanSound(c)'
      BY <1>21 DEF CloseConn, ScanInv, ScanSound, Scanning
    <2> QED BY <2>1, <2>2, ScanFrame
  <1>22. CASE UNCHANGED vars
    BY <1>22 DEF vars, ScanInv, ScanSound, Scanning
  <1> QED
    BY <1>1, <1>2, <1>3, <1>4, <1>5, <1>6, <1>7, <1>8, <1>9, <1>10, <1>11, <1>12, <1>13, <1>14, <1>15, <1>16, <1>17, <1>18, <1>19, <1>20, <1>21, <1>22
       DEF Next, Thread, Environment

-----------------------------------------------------------------------------
LEMMA AtInvariant == Spec => [](CacheTypes /\ AtMatchesLock)
  <1>1. Init => CacheTypes /\ AtMatchesLock
    BY InitCacheInv DEF CacheInv
  <1> QED
    BY <1>1, StepCacheTypes, StepAtMatchesLock, LockInvariant, PTL DEF Spec

\* The cache changes in three steps of writer(), and below used_cnt in none.
LEMMA CacheStays ==
    ASSUME NEW c \in Conns, Thread(c) \/ Environment(c),
           ~StoreName(c), ~StoreObject(c), ~CountEntry(c)
    PROVE  UNCHANGED <<objects, used_cnt>>
  BY DEF Thread, Environment, Accept, ParseRequest, ParseNothing,
         ParseInvalid, AcceptFails, EnterReader, Compare, ServeHit, LeaveReader,
         ReturnFromReader, Connect, ConnectFails, ForwardLine, EndOfReply,
         ClientGone, BeginStore, StoreOverrun, EndStore, CloseConn, Exit,
         GoLookUp, cacheVars

BelowKept == /\ used_cnt' >= used_cnt
             /\ \A i \in 0 .. used_cnt - 1 : objects'[i] = objects[i]

LEMMA StepBelowKept ==
    CacheTypes /\ AtMatchesLock /\ [Next]_vars => BelowKept
  <1>1. ASSUME CacheTypes, AtMatchesLock, NEW c \in Conns,
               StoreName(c) \/ StoreObject(c)
        PROVE  BelowKept
    <2>1. used_cnt' = used_cnt /\ used_cnt < Capacity /\ used_cnt \in Nat
      BY <1>1 DEF StoreName, StoreObject, AtMatchesLock, Move, CacheTypes
    <2>2. PICK e : objects' = [objects EXCEPT ![used_cnt] = e]
      BY <1>1 DEF StoreName, StoreObject
    <2>3. \A i \in 0 .. used_cnt - 1 : i \in 0 .. Capacity - 1 /\ i # used_cnt
      BY <2>1, SizesAreNat
    <2>4. \A i \in 0 .. Capacity - 1 : i # used_cnt => objects'[i] = objects[i]
      BY <1>1, <2>2 DEF CacheTypes
    <2> QED BY <2>1, <2>3, <2>4 DEF BelowKept
  <1>2. ASSUME CacheTypes, NEW c \in Conns, CountEntry(c) PROVE BelowKept
    BY <1>2 DEF CountEntry, CacheTypes, BelowKept
  <1>3. ASSUME CacheTypes, NEW c \in Conns, Thread(c) \/ Environment(c),
               ~StoreName(c), ~StoreObject(c), ~CountEntry(c)
        PROVE  BelowKept
    <2>1. UNCHANGED <<objects, used_cnt>>
      BY <1>3, CacheStays
    <2> QED BY <1>3, <2>1 DEF CacheTypes, BelowKept
  <1>4. ASSUME CacheTypes, UNCHANGED vars PROVE BelowKept
    BY <1>4 DEF vars, cacheVars, CacheTypes, BelowKept
  <1> QED BY <1>1, <1>2, <1>3, <1>4 DEF Next

\* Entries below used_cnt are never written again, with any fault, however many
\* connections there are and whatever the origins send.
THEOREM WrittenOnce == Spec => EntriesWrittenOnce
  <1>1. CacheTypes /\ AtMatchesLock /\ [Next]_vars => [BelowKept]_vars
    BY StepBelowKept
  <1> QED
    BY <1>1, AtInvariant, PTL DEF Spec, EntriesWrittenOnce, BelowKept

\* A lookup that finds nothing is right when it returns, the entries it compared
\* first included: no store can slip in behind a scan.
THEOREM MissesAreRight == Spec => []MissIsRight
  <1>1. Init => ScanInv
    BY SizesAreNat DEF Init, RW!Init, RW!Threads, ScanInv, ScanSound, Scanning
  <1>2. Spec => []ScanInv
    BY <1>1, StepScanInv, AtInvariant, LockInvariant, PTL DEF Spec
  <1>3. ScanInv => MissIsRight
    BY DEF ScanInv, ScanSound, MissIsRight
  <1> QED BY <1>2, <1>3, PTL

\* doit() and writer() keep the cache as reader() needs it.
LEMMA CacheInvariant ==
    ASSUME "empty" \notin Faults
    PROVE  Spec => []CacheInv
  <1>1. CacheInv /\ RWP!IInv /\ [Next]_vars => CacheInv'
    BY StepCacheTypes, StepAtMatchesLock, StepEntryInProgress,
       StepEntriesWholeOrBlank DEF CacheInv
  <1> QED BY <1>1, InitCacheInv, LockInvariant, PTL DEF Spec

LEMMA ScansSound == CacheInv /\ RWP!IInv => ScansSeeWholeEntries
  <1> SUFFICES ASSUME CacheInv, RWP!IInv, NEW c \in Conns, Scanning(c),
                      NEW i \in 0 .. Capacity - 1
               PROVE  IF i < used_cnt THEN EntryWhole(i) ELSE EntryBlank(i)
    BY DEF ScansSeeWholeEntries
  <1>1. \A d \in Conns : at[d] \notin {"object", "count"}
    BY OneWriter DEF CacheInv, AtMatchesLock, StoreSteps, Scanning
  <1> QED
    BY <1>1, SizesAreNat DEF CacheInv, CacheTypes, EntriesWholeOrBlank

\* While origins reply with at least a line, no scan ever meets an entry that
\* another thread has half written.
THEOREM WholeEntries ==
    ASSUME "empty" \notin Faults
    PROVE  Spec => []ScansSeeWholeEntries
  BY CacheInvariant, ScansSound, LockInvariant, PTL

-----------------------------------------------------------------------------
(* What a connection does to its own variables                              *)

\* More types, and a hit is at an entry.
MoreTypes ==
    /\ proc \in {"up", "exited", "crashed"}
    /\ in_cache \in [Conns -> BOOLEAN]
    /\ served \in [Conns -> SUBSET Objects]
    /\ \A c \in Conns : Len(received[c]) <= MaxLines
    /\ \A i \in 0 .. Capacity - 1 :
           objects[i].name \in URIs \cup {Blank} /\ objects[i].object \in Objects
    /\ used_cnt \in 0 .. Capacity
    /\ \A c \in Conns : in_cache[c] => idx[c] < Capacity

\* A step of one connection changes no other's variables,
LEMMA OthersStay ==
    ASSUME CacheTypes, MoreTypes, NEW c \in Conns, Thread(c) \/ Environment(c),
           NEW d \in Conns \ {c}
    PROVE  /\ at'[d] = at[d] /\ uri'[d] = uri[d] /\ port'[d] = port[d] /\ received'[d] = received[d]
           /\ idx'[d] = idx[d] /\ in_cache'[d] = in_cache[d] /\ served'[d] = served[d]
  <1> USE DEF CacheTypes, MoreTypes, Move, lockVars, connVars, cacheVars, Exit, GoLookUp
  <1>1. CASE Accept(c) \/ ParseRequest(c) \/ ParseNothing(c) \/ ParseInvalid(c) \/ AcceptFails(c)
    BY <1>1 DEF Accept, ParseRequest, ParseNothing, ParseInvalid, AcceptFails
  <1>2. CASE EnterReader(c) \/ Compare(c) \/ ServeHit(c) \/ LeaveReader(c) \/ ReturnFromReader(c)
    BY <1>2 DEF EnterReader, Compare, ServeHit, LeaveReader, ReturnFromReader
  <1>3. CASE Connect(c) \/ ConnectFails(c) \/ ForwardLine(c) \/ EndOfReply(c) \/ ClientGone(c)
    BY <1>3 DEF Connect, ConnectFails, ForwardLine, EndOfReply, ClientGone
  <1>4. CASE \/ BeginStore(c) \/ StoreName(c) \/ StoreOverrun(c) \/ StoreObject(c)
             \/ CountEntry(c) \/ EndStore(c) \/ CloseConn(c)
    BY <1>4 DEF BeginStore, StoreName, StoreOverrun, StoreObject, CountEntry, EndStore, CloseConn
  <1> QED BY <1>1, <1>2, <1>3, <1>4, Zenon DEF Thread, Environment

\* and takes the connection one place on, where it stays or not: its uri is set
\* once, and its reply grows only while it is fetched.
LEMMA Path ==
    ASSUME CacheTypes, NEW c \in Conns, Thread(c) \/ Environment(c)
    PROVE  \/ at[c] \in {"lookup", "fetch"} /\ at'[c] = at[c] /\ uri'[c] = uri[c] /\ port'[c] = port[c]
              /\ (at[c] = "lookup" => received'[c] = received[c])
           \/ UNCHANGED <<at, uri, port, received>>
           \/ at[c] = "none" /\ at'[c] = "parse" /\ UNCHANGED <<uri, port, received>>
           \/ at[c] = "parse" /\ at'[c] = "lookup" /\ UNCHANGED received
           \/ at[c] = "lookup" /\ at'[c] \in {"connect", "close"} /\ UNCHANGED <<uri, port, received>>
           \/ at[c] = "connect" /\ at'[c] = "fetch" /\ UNCHANGED <<uri, port, received>>
           \/ at[c] = "fetch" /\ at'[c] = "store" /\ UNCHANGED <<uri, port, received>>
           \/ /\ at[c] = "fetch" /\ at'[c] = "close" /\ ~(Len(received[c]) < MaxObject)
              /\ UNCHANGED <<uri, port, received>>
           \/ BeginStore(c) /\ at[c] = "store" /\ at'[c] = "name" /\ UNCHANGED <<uri, port, received>>
           \/ StoreName(c) /\ at[c] = "name" /\ at'[c] = "object" /\ UNCHANGED <<uri, port, received>>
           \/ StoreObject(c) /\ at[c] = "object" /\ at'[c] = "count" /\ UNCHANGED <<uri, port, received>>
           \/ CountEntry(c) /\ at[c] = "count" /\ at'[c] = "release" /\ UNCHANGED <<uri, port, received>>
           \/ EndStore(c) /\ at[c] = "release" /\ at'[c] = "close" /\ UNCHANGED <<uri, port, received>>
           \/ CloseConn(c) /\ at[c] = "close" /\ at'[c] = "closed" /\ UNCHANGED <<uri, port, received>>
  <1> USE DEF CacheTypes, Move, connVars, cacheVars, Exit, GoLookUp
  <1>1. CASE Accept(c) \/ ParseRequest(c) \/ ParseNothing(c) \/ ParseInvalid(c) \/ AcceptFails(c)
    BY <1>1 DEF Accept, ParseRequest, ParseNothing, ParseInvalid, AcceptFails
  <1>2. CASE EnterReader(c) \/ Compare(c) \/ ServeHit(c) \/ LeaveReader(c)
    BY <1>2 DEF EnterReader, Compare, ServeHit, LeaveReader, Scanning
  <1>3. CASE ReturnFromReader(c) \/ Connect(c) \/ ConnectFails(c) \/ ForwardLine(c)
    BY <1>3 DEF ReturnFromReader, Connect, ConnectFails, ForwardLine
  <1>4. CASE EndOfReply(c) \/ ClientGone(c)
    BY <1>4 DEF EndOfReply, ClientGone
  <1>5. CASE StoreOverrun(c)
    BY <1>5 DEF StoreOverrun
  <1>6. CASE \/ BeginStore(c) \/ StoreName(c) \/ StoreObject(c)
             \/ CountEntry(c) \/ EndStore(c) \/ CloseConn(c)
    BY <1>6 DEF BeginStore, StoreName, StoreObject, CountEntry, EndStore, CloseConn
  <1> QED BY <1>1, <1>2, <1>3, <1>4, <1>5, <1>6, Zenon DEF Thread, Environment

\* A set of natural numbers that is not empty has a least member.
LEMMA LeastExists ==
    ASSUME NEW S, S \subseteq Nat, S # {}
    PROVE  \E x \in S : \A y \in S : x <= y
  <1> DEFINE Below == {ss \in Nat \X Nat : ss[1] < ss[2]}
  <1>1. PICK x \in S : \A y \in S : <<y, x>> \notin Below
    <2>1. IsWellFoundedOn(Below, Nat)
      BY NatLessThanWellFounded DEF OpToRel
    <2> HIDE DEF Below
    <2> QED BY <2>1, WFMin
  <1>2. \A y \in S : <<y, x>> \notin Below => x <= y
    <2> TAKE y \in S
    <2>1. <<y, x>> \in Nat \X Nat /\ <<y, x>>[1] = y /\ <<y, x>>[2] = x
      OBVIOUS
    <2> QED BY <2>1
  <1> QED BY <1>1, <1>2

\* What a C string function sees of a reply is no longer than it.
LEMMA CStringIs ==
    ASSUME NEW s \in Seq(Lines)
    PROVE  /\ CString(s) \in Seq({"text", "nul", "part"})
           /\ Len(CString(s)) <= Len(s)
  <1> DEFINE I == {i \in 1 .. Len(s) : s[i] = "nul"}
             first == SelectInSeq(s, LAMBDA l : l = "nul")
  <1>1. /\ Len(s) \in Nat /\ s \in Seq({"text", "nul", "part"})
        /\ \A i \in 1 .. Len(s) : s[i] \in Lines
    <2>1. Lines \subseteq {"text", "nul", "part"}
      BY LinesOK
    <2> QED BY <2>1, SeqMonotonic, LenProperties, ElementOfSeq
  <1>2. first = IF I # {} THEN CHOOSE x \in I : \A y \in I : x <= y ELSE 0
    BY DEF SelectInSeq, Min
  <1>5. CString(s) = IF first = 0 THEN s ELSE SubSeq(s, 1, first - 1) \o <<"part">>
    BY DEF CString
  <1>3. CASE I = {}
    <2>1. first = 0
      BY <1>2, <1>3
    <2> HIDE DEF first, I
    <2>2. CString(s) = s
      BY <1>5, <2>1
    <2> QED BY <1>1, <2>2
  <1>4. CASE I # {}
    <2>1. first \in I
      <3>1. I \subseteq Nat
        OBVIOUS
      <3> HIDE DEF I, first
      <3>2. \E x \in I : \A y \in I : x <= y
        BY <1>4, <3>1, LeastExists
      <3> QED BY <1>2, <1>4, <3>2
    <2>2. first \in 1 .. Len(s) /\ "nul" \in Lines
      <3> HIDE DEF first
      <3>1. first \in 1 .. Len(s) /\ s[first] = "nul"
        BY <2>1
      <3> QED BY <1>1, <3>1
    <2> HIDE DEF first, I
    <2>3. CString(s) = SubSeq(s, 1, first - 1) \o <<"part">>
      <3>1. first # 0
        BY <1>1, <2>2
      <3> QED BY <1>5, <3>1
    <2>4. /\ SubSeq(s, 1, first - 1) \in Seq({"text", "nul", "part"})
          /\ Len(SubSeq(s, 1, first - 1)) = first - 1
      <3>1. \A i \in 1 .. first - 1 : s[i] \in {"text", "nul", "part"}
        <4> TAKE i \in 1 .. first - 1
        <4>1. i \in 1 .. Len(s)
          BY <1>1, <2>2
        <4> QED BY <1>1, <4>1, ElementOfSeq
      <3>2. first - 1 \in Int /\ (IF 1 <= first - 1 THEN (first - 1) - 1 + 1 ELSE 0) = first - 1
        BY <1>1, <2>2
      <3> QED BY <3>1, <3>2, SubSeqProperties
    <2>5. <<"part">> \in Seq({"text", "nul", "part"}) /\ Len(<<"part">>) = 1
      OBVIOUS
    <2>6. CString(s) \in Seq({"text", "nul", "part"}) /\ Len(CString(s)) = (first - 1) + 1
      BY <2>3, <2>4, <2>5, ConcatProperties
    <2> QED BY <1>1, <2>2, <2>6
  <1> QED BY <1>3, <1>4

LEMMA ObjectTyped ==
    ASSUME NEW u \in URIs \cup {Blank}, NEW p \in Ports \cup {Blank},
           NEW s \in Seq(Lines), Len(s) <= MaxLines
    PROVE  [of |-> u, from |-> p, lines |-> CString(s)] \in Objects
  <1>1. CString(s) \in Seq({"text", "nul", "part"}) /\ Len(CString(s)) <= MaxLines
    <2>1. Len(CString(s)) \in Int /\ Len(s) \in Int /\ MaxLines \in Int
      BY CStringIs, LenProperties, SizesAreNat
    <2> QED BY <2>1, CStringIs
  <1>2. /\ Len(CString(s)) \in 0 .. MaxLines
        /\ CString(s) \in [1 .. Len(CString(s)) -> {"text", "nul", "part"}]
    BY <1>1, LenProperties, SizesAreNat
  <1> QED BY <1>2 DEF Objects

LEMMA BlankTyped == BlankObject \in Objects
  <1>1. <<>> \in [1 .. 0 -> {"text", "nul", "part"}] /\ 0 \in 0 .. MaxLines
    BY SizesAreNat
  <1> QED BY <1>1 DEF BlankObject, Objects

LEMMA InitMoreTypes == Init => MoreTypes
  <1> SUFFICES ASSUME Init PROVE MoreTypes
    OBVIOUS
  <1>1. \A i \in 0 .. Capacity - 1 :
            objects[i].name \in URIs \cup {Blank} /\ objects[i].object \in Objects
    BY BlankTyped DEF Init
  <1> QED BY <1>1, SizesAreNat, EmptySeq DEF Init, MoreTypes

LEMMA StepMoreTypes == CacheTypes /\ AtMatchesLock /\ MoreTypes /\ [Next]_vars => MoreTypes'
  <1> SUFFICES ASSUME CacheTypes, AtMatchesLock, MoreTypes, [Next]_vars PROVE MoreTypes'
    OBVIOUS
  <1> USE DEF MoreTypes, Move, connVars, cacheVars, Exit, GoLookUp
  <1>1. ASSUME NEW c \in Conns, ParseRequest(c) \/ ParseNothing(c) \/ ParseInvalid(c) \/ AcceptFails(c) \/ Accept(c)
        PROVE  MoreTypes'
    BY <1>1 DEF Accept, ParseRequest, ParseNothing, ParseInvalid, AcceptFails
  <1>2. ASSUME NEW c \in Conns, EnterReader(c) \/ LeaveReader(c) \/ ReturnFromReader(c)
        PROVE  MoreTypes'
    BY <1>2 DEF EnterReader, LeaveReader, ReturnFromReader
  <1>3. ASSUME NEW c \in Conns, Compare(c) PROVE MoreTypes'
    <2>1. \A d \in Conns : in_cache'[d] => idx'[d] < Capacity
      BY <1>3 DEF Compare, CacheTypes
    <2>2. in_cache' \in [Conns -> BOOLEAN]
      BY <1>3 DEF Compare
    <2> QED BY <1>3, <2>1, <2>2 DEF Compare
  <1>4. ASSUME NEW c \in Conns, ServeHit(c) PROVE MoreTypes'
    <2>1. idx[c] \in 0 .. Capacity - 1
      BY <1>4, SizesAreNat DEF ServeHit, CacheTypes
    <2>2. {objects[idx[c]].object} \in SUBSET Objects
      BY <2>1
    <2>3. served' \in [Conns -> SUBSET Objects]
      BY <1>4, <2>2 DEF ServeHit
    <2> QED BY <1>4, <2>3 DEF ServeHit
  <1>5. ASSUME NEW c \in Conns, Connect(c) \/ ConnectFails(c) \/ EndOfReply(c) \/ ClientGone(c)
        PROVE  MoreTypes'
    BY <1>5 DEF Connect, ConnectFails, EndOfReply, ClientGone
  <1>6. ASSUME NEW c \in Conns, ForwardLine(c) PROVE MoreTypes'
    <2>1. PICK l \in Lines : received' = [received EXCEPT ![c] = Append(@, l)]
      BY <1>6 DEF ForwardLine
    <2>2. \A d \in Conns : Len(received'[d]) <= MaxLines
      <3> TAKE d \in Conns
      <3>1. received[d] \in Seq(Lines) /\ Len(received[d]) \in Nat
        BY LenProperties DEF CacheTypes
      <3>2. CASE d = c
        <4>1. Len(Append(received[c], l)) = Len(received[c]) + 1
          BY <3>1, <3>2, AppendProperties
        <4> QED BY <1>6, <2>1, <3>1, <3>2, <4>1, SizesAreNat DEF ForwardLine, CacheTypes
      <3>3. CASE d # c
        BY <2>1, <3>3 DEF CacheTypes
      <3> QED BY <3>2, <3>3
    <2>3. proc' \in {"up", "crashed"}
      BY <1>6 DEF ForwardLine
    <2> QED BY <1>6, <2>2, <2>3 DEF ForwardLine
  <1>7. ASSUME NEW c \in Conns, BeginStore(c) \/ StoreOverrun(c) \/ EndStore(c) \/ CloseConn(c)
        PROVE  MoreTypes'
    BY <1>7 DEF BeginStore, StoreOverrun, EndStore, CloseConn
  <1>8. ASSUME NEW c \in Conns, StoreName(c) PROVE MoreTypes'
    <2>1. \A i \in 0 .. Capacity - 1 :
              objects'[i].name \in URIs \cup {Blank} /\ objects'[i].object \in Objects
      BY <1>8 DEF StoreName, CacheTypes
    <2> QED BY <1>8, <2>1 DEF StoreName
  <1>9. ASSUME NEW c \in Conns, StoreObject(c) PROVE MoreTypes'
    <2>1. PICK o \in ObjectString(c) :
              objects' = [objects EXCEPT ![used_cnt] = [name |-> @.name, object |-> o]]
      BY <1>9 DEF StoreObject
    <2>2. o \in Objects
      <3>1. \A d \in Conns : Fetch(d) \in Objects
        BY ObjectTyped DEF CacheTypes, Fetch
      <3> QED BY <2>1, <3>1, BlankTyped DEF ObjectString
    <2>3. \A i \in 0 .. Capacity - 1 :
              objects'[i].name \in URIs \cup {Blank} /\ objects'[i].object \in Objects
      BY <2>1, <2>2 DEF CacheTypes
    <2> QED BY <1>9, <2>3 DEF StoreObject
  <1>10. ASSUME NEW c \in Conns, CountEntry(c) PROVE MoreTypes'
    <2>1. used_cnt' \in 0 .. Capacity
      BY <1>10, SizesAreNat DEF CountEntry, AtMatchesLock
    <2> QED BY <1>10, <2>1 DEF CountEntry
  <1>11. CASE UNCHANGED vars
    BY <1>11 DEF vars
  <1> QED
    BY <1>1, <1>2, <1>3, <1>4, <1>5, <1>6, <1>7, <1>8, <1>9, <1>10, <1>11
       DEF Next, Thread, Environment

-----------------------------------------------------------------------------
(* The stores and the hits                                                  *)

Entry(c) == [name |-> uri[c], object |-> Fetch(c)]

Fetched(c) == received[c] # <<>> /\ at[c] \in {"release", "close", "closed"}

\* A connection has a reply only once it fetches one; what it stores is its entry; its entry
\* is in the cache when it leaves writer(), and the cache holds nothing else.
StoreInv ==
    /\ \A c \in Conns :
           /\ at[c] \in {"none", "parse", "lookup", "connect"} => received[c] = <<>>
           /\ at[c] = "count" => objects[used_cnt] = Entry(c) /\ received[c] # <<>>
           /\ at[c] = "release" => \E i \in 0 .. used_cnt - 1 : objects[i] = Entry(c)
    /\ \A i \in 0 .. used_cnt - 1 : \E d \in Conns : Fetched(d) /\ objects[i] = Entry(d)
    /\ NoStoreLost

LEMMA InitStoreInv == Init => StoreInv
  BY DEF Init, StoreInv, NoStoreLost

\* A connection past the request keeps its entry while others step.
LEMMA EntryStays ==
    ASSUME NEW d \in Conns, uri'[d] = uri[d], port'[d] = port[d], received'[d] = received[d]
    PROVE  Entry(d)' = Entry(d)
  BY DEF Entry, Fetch, CString, SelectInSeq, Min

LEMMA LongerInterval ==
    ASSUME NEW m \in Nat, NEW n \in Nat, n >= m
    PROVE  \A j \in 0 .. m - 1 : j \in 0 .. n - 1
  OBVIOUS

LEMMA FetchStays ==
    ASSUME NEW d \in Conns, uri'[d] = uri[d], port'[d] = port[d], received'[d] = received[d]
    PROVE  Fetch(d)' = Fetch(d)
  BY DEF Fetch, CString, SelectInSeq, Min

\* The one writer at work is the only thread in writer().
LEMMA WriterAlone ==
    ASSUME RWP!IInv, AtMatchesLock, NEW c \in Conns, at[c] \in StoreSteps
    PROVE  \A d \in Conns \ {c} : at[d] \notin StoreSteps /\ pc[d] # "reading"
  BY OneWriter DEF AtMatchesLock

\* What StoreObject writes is the entry of the thread that steps.
LEMMA EntryStored ==
    ASSUME CacheInv, NEW c \in Conns, StoreObject(c)
    PROVE  /\ objects'[used_cnt] = Entry(c) /\ used_cnt' = used_cnt /\ received[c] # <<>>
           /\ UNCHANGED <<uri, port, received>>
  <1>1. /\ at[c] = "object" /\ received[c] # <<>> /\ objects[used_cnt].name = uri[c]
        /\ used_cnt \in 0 .. Capacity - 1 /\ objects = [i \in 0 .. Capacity - 1 |-> objects[i]]
    BY SizesAreNat
       DEF StoreObject, Move, CacheInv, CacheTypes, EntryInProgress, AtMatchesLock
  <1>2. PICK o \in ObjectString(c) :
            objects' = [objects EXCEPT ![used_cnt] = [name |-> @.name, object |-> o]]
    BY DEF StoreObject
  <1>3. o = Fetch(c)
    BY <1>1, <1>2 DEF ObjectString
  <1>4. objects'[used_cnt] = [name |-> objects[used_cnt].name, object |-> o]
    BY <1>1, <1>2
  <1> QED BY <1>1, <1>3, <1>4 DEF Entry, StoreObject, connVars

LEMMA StepStoreInv ==
    RWP!IInv /\ CacheInv /\ MoreTypes /\ StoreInv /\ [Next]_vars => StoreInv'
  <1> SUFFICES ASSUME RWP!IInv, CacheInv, MoreTypes, StoreInv, [Next]_vars PROVE StoreInv'
    OBVIOUS
  <1>1. CacheTypes /\ AtMatchesLock /\ used_cnt \in Nat
    BY DEF CacheInv, CacheTypes
  <1>2. CASE UNCHANGED vars
    <2>1. UNCHANGED <<at, uri, port, received, objects, used_cnt>>
      BY <1>2 DEF vars, connVars, cacheVars
    <2>2. \A d \in Conns : Entry(d)' = Entry(d) /\ Fetched(d)' = Fetched(d)
      BY <2>1, EntryStays DEF Fetched
    <2>3. NoStoreLost'
      BY <2>1, <2>2 DEF StoreInv, NoStoreLost, Entry
    <2> QED BY <2>1, <2>2, <2>3 DEF StoreInv
  <1>3. ASSUME NEW c \in Conns, Thread(c) \/ Environment(c) PROVE StoreInv'
    <2>1. /\ used_cnt' \in Nat /\ used_cnt' >= used_cnt
          /\ \A i \in 0 .. used_cnt - 1 : i \in 0 .. used_cnt' - 1 /\ objects'[i] = objects[i]
      <3>1. BelowKept
        BY <1>1, <1>3, StepBelowKept DEF Next
      <3>2. used_cnt' \in Nat
        BY <1>1, <1>3, StepCacheTypes DEF Next, CacheTypes
      <3>3. used_cnt \in Nat /\ used_cnt' >= used_cnt
        BY <1>1, <3>1 DEF BelowKept
      <3>4. \A j \in 0 .. used_cnt - 1 : j \in 0 .. used_cnt' - 1
        BY <3>2, <3>3, LongerInterval
      <3> QED BY <3>1, <3>2, <3>3, <3>4 DEF BelowKept
    <2>2. \A d \in Conns \ {c} : /\ at'[d] = at[d] /\ uri'[d] = uri[d] /\ port'[d] = port[d] /\ received'[d] = received[d]
                                 /\ Entry(d)' = Entry(d) /\ Fetched(d)' = Fetched(d)
      BY <1>1, <1>3, OthersStay, EntryStays DEF Fetched
    <2>3. at[c] \notin {"lookup", "fetch", "parse"} => Entry(c)' = Entry(c) /\ received'[c] = received[c]
      BY <1>1, <1>3, Path, EntryStays
    <2>4. \A d \in Conns : Fetched(d) => Fetched(d)' /\ Entry(d)' = Entry(d)
      <3>1. Fetched(c) => Fetched(c)' /\ Entry(c)' = Entry(c)
        BY <1>1, <1>3, <2>3, Path DEF Fetched
      <3> QED BY <2>2, <3>1
    <2>5. ASSUME NEW d \in Conns, at'[d] \in {"none", "parse", "lookup", "connect"}
          PROVE  received'[d] = <<>>
      <3>1. CASE d # c
        BY <2>2, <2>5, <3>1 DEF StoreInv
      <3>2. CASE d = c
        BY <1>1, <1>3, <2>5, <3>2, Path DEF StoreInv
      <3> QED BY <3>1, <3>2
    <2>6. ASSUME NEW d \in Conns, at'[d] = "count" PROVE objects'[used_cnt'] = Entry(d)' /\ received'[d] # <<>>
      <3>1. CASE d # c
        <4>1. at[d] = "count" /\ objects[used_cnt] = Entry(d) /\ Entry(d)' = Entry(d)
          BY <2>2, <2>6, <3>1 DEF StoreInv
        <4>4. received'[d] # <<>>
          BY <2>2, <2>6, <3>1 DEF StoreInv
        <4>2. at[c] \notin StoreSteps
          BY <1>1, <3>1, <4>1, WriterAlone DEF StoreSteps
        <4>3. UNCHANGED <<objects, used_cnt>>
          BY <1>3, <4>2, CacheStays DEF StoreName, StoreObject, CountEntry, Move, StoreSteps
        <4> QED BY <4>1, <4>3, <4>4
      <3>2. CASE d = c /\ StoreObject(c)
        <4>1. Entry(c)' = Entry(c)
          BY <3>2, EntryStored, EntryStays
        <4> QED BY <3>2, <4>1, EntryStored
      <3>3. CASE d = c /\ ~StoreObject(c)
        <4>1. at[c] = "count" /\ ~CountEntry(c) /\ ~StoreName(c)
          BY <1>1, <1>3, <2>6, <3>3, Path DEF CountEntry, StoreName, Move, CacheTypes
        <4>2. UNCHANGED <<objects, used_cnt>>
          BY <1>3, <3>3, <4>1, CacheStays
        <4> QED BY <2>3, <3>3, <4>1, <4>2 DEF StoreInv
      <3> QED BY <3>1, <3>2, <3>3
    <2>7. ASSUME NEW d \in Conns,
                 \/ at'[d] = "release"
                 \/ /\ at'[d] \in {"close", "closed"} /\ received'[d] # <<>>
                    /\ Len(received'[d]) < MaxObject
          PROVE  \E i \in 0 .. used_cnt' - 1 : objects'[i] = Entry(d)'
      <3>1. CASE /\ \E i \in 0 .. used_cnt - 1 : objects[i] = Entry(d)
                 /\ Entry(d)' = Entry(d)
        BY <2>1, <3>1
      <3>2. CASE d # c
        <4>2. \/ at[d] = "release"
              \/ /\ at[d] \in {"close", "closed"} /\ received[d] # <<>>
                 /\ Len(received[d]) < MaxObject
          BY <2>2, <2>7, <3>2
        <4>1. \E i \in 0 .. used_cnt - 1 : objects[i] = Entry(d)
          <5>1. CASE at[d] = "release"
            BY <5>1 DEF StoreInv
          <5>2. CASE at[d] # "release"
            BY <4>2, <5>2 DEF StoreInv, NoStoreLost, Entry
          <5> QED BY <5>1, <5>2
        <4> QED BY <2>2, <3>1, <3>2, <4>1
      <3>3. CASE d = c /\ CountEntry(c)
        <4>1. at[c] = "count" /\ used_cnt' = used_cnt + 1 /\ objects' = objects /\ Entry(c)' = Entry(c)
          BY <1>1, <2>3, <3>3 DEF CountEntry, Move
        <4>2. used_cnt \in 0 .. used_cnt' - 1 /\ objects[used_cnt] = Entry(c)
          BY <1>1, <4>1 DEF StoreInv
        <4> QED BY <3>3, <4>1, <4>2
      <3>4. CASE d = c /\ ~CountEntry(c)
        <4>1. at[c] \in {"release", "close", "closed"} /\ received'[c] = received[c]
          <5>1. at[c] \in {"lookup", "parse", "none", "connect"} => received[c] = <<>>
            BY DEF StoreInv
          <5> QED BY <1>1, <1>3, <2>7, <3>4, <5>1, Path
        <4>2. \E i \in 0 .. used_cnt - 1 : objects[i] = Entry(c)
          <5>1. CASE at[c] = "release"
            BY <5>1 DEF StoreInv
          <5>2. CASE at[c] \in {"close", "closed"}
            <6>1. at'[c] # "release"
              BY <1>1, <1>3, <5>2, Path
            <6> QED BY <2>7, <3>4, <4>1, <5>2, <6>1 DEF StoreInv, NoStoreLost, Entry
          <5> QED BY <4>1, <5>1, <5>2
        <4> QED BY <2>3, <3>1, <3>4, <4>1, <4>2
      <3> QED BY <3>2, <3>3, <3>4
    <2>8. ASSUME NEW i \in 0 .. used_cnt' - 1
          PROVE  \E d \in Conns : Fetched(d)' /\ objects'[i] = Entry(d)'
      <3>1. CASE i \in 0 .. used_cnt - 1
        <4>1. PICK d \in Conns : Fetched(d) /\ objects[i] = Entry(d)
          BY <3>1 DEF StoreInv
        <4> QED BY <2>1, <2>4, <3>1, <4>1
      <3>2. CASE i \notin 0 .. used_cnt - 1
        <4>1. CountEntry(c)
          <5>1. used_cnt' # used_cnt
            BY <3>2
          <5>2. ~StoreName(c) /\ ~StoreObject(c)
            BY <5>1 DEF StoreName, StoreObject
          <5> QED BY <1>3, <5>1, <5>2, CacheStays
        <4>2. /\ at[c] = "count" /\ at'[c] = "release" /\ used_cnt' = used_cnt + 1
              /\ objects' = objects /\ UNCHANGED received
          BY <1>1, <4>1 DEF CountEntry, Move, CacheTypes, connVars
        <4>3. i = used_cnt
          BY <1>1, <3>2, <4>2
        <4>4. objects'[i] = Entry(c)'
          BY <2>3, <4>2, <4>3 DEF StoreInv
        <4>5. received[c] # <<>>
          BY <4>2 DEF StoreInv
        <4> QED BY <4>2, <4>4, <4>5 DEF Fetched
      <3> QED BY <3>1, <3>2
    <2>9. NoStoreLost'
      BY <2>7 DEF NoStoreLost, Entry
    <2> QED BY <2>5, <2>6, <2>7, <2>8, <2>9 DEF StoreInv
  <1> QED BY <1>2, <1>3 DEF Next

\* A step of one connection leaves the others where they are in the lock.
LEMMA PcStays ==
    ASSUME RWP!IInv, NEW c \in Conns, Thread(c) \/ Environment(c), NEW d \in Conns \ {c}
    PROVE  pc'[d] = pc[d]
  <1>1. CASE RW!Reader(c) \/ RW!Writer(c)
    BY <1>1, LockMoves
  <1>2. CASE ~(RW!Reader(c) \/ RW!Writer(c))
    <2> USE DEF lockVars, Exit, GoLookUp
    <2>1. ~EnterReader(c) /\ ~LeaveReader(c) /\ ~ReturnFromReader(c)
      BY <1>2 DEF EnterReader, LeaveReader, ReturnFromReader, RW!Reader
    <2>2. ~BeginStore(c) /\ ~EndStore(c)
      BY <1>2 DEF BeginStore, EndStore, RW!Writer
    <2>3. CASE \/ Accept(c) \/ ParseRequest(c) \/ ParseNothing(c) \/ ParseInvalid(c) \/ AcceptFails(c)
               \/ Compare(c) \/ ServeHit(c) \/ Connect(c) \/ ConnectFails(c)
      BY <2>3 DEF Accept, ParseRequest, ParseNothing, ParseInvalid, AcceptFails, Compare, ServeHit,
                  Connect, ConnectFails
    <2>4. CASE \/ ForwardLine(c) \/ EndOfReply(c) \/ ClientGone(c) \/ StoreName(c)
               \/ StoreOverrun(c) \/ StoreObject(c) \/ CountEntry(c) \/ CloseConn(c)
      BY <2>4 DEF ForwardLine, EndOfReply, ClientGone, StoreName, StoreOverrun,
                  StoreObject, CountEntry, CloseConn
    <2> QED BY <2>1, <2>2, <2>3, <2>4, Zenon DEF Thread, Environment
  <1> QED BY <1>1, <1>2

\* A connection that has fetched and stored has its reply for good.
LEMMA FetchedStays ==
    ASSUME CacheTypes, MoreTypes, NEW c \in Conns, Thread(c) \/ Environment(c),
           NEW d \in Conns, Fetched(d)
    PROVE  /\ received'[d] # <<>> /\ at'[d] \in {"release", "close", "closed"}
           /\ uri'[d] = uri[d] /\ port'[d] = port[d] /\ received'[d] = received[d]
  <1>1. CASE d # c
    BY <1>1, OthersStay DEF Fetched
  <1>2. CASE d = c
    BY <1>2, Path DEF Fetched
  <1> QED BY <1>1, <1>2

\* A connection has in_cache set only while it is at the entry with its uri and
\* from then on; what it has served was fetched by another.
HitSound(c) ==
    /\ \/ at[c] \in {"none", "parse"}
       \/ at[c] = "lookup" /\ pc[c] \in {"idle", "counting", "claiming", "admitted"}
       => ~in_cache[c]
    /\ Scanning(c) /\ in_cache[c] => objects[idx[c]].name = uri[c]
    /\ served[c] # {} =>
           /\ in_cache[c] /\ received[c] = <<>> /\ at[c] \in {"lookup", "close", "closed"}

ServedBy(c, d) ==
    /\ uri[d] = uri[c] /\ Fetched(d)
    /\ served[c] = {Fetch(d)}

HitInv ==
    \A c \in Conns :
        /\ HitSound(c)
        /\ served[c] # {} /\ uri[c] # Blank => \E d \in Conns \ {c} : ServedBy(c, d)

LEMMA InitHitInv == Init => HitInv
  BY DEF Init, RW!Init, RW!Threads, HitInv, HitSound, Scanning

LEMMA HitInvServes == HitInv => HitServesReply
  BY DEF HitInv, HitServesReply, ServedBy, Fetched

\* What is read of an entry under the lock is another connection's reply.
LEMMA HitIsReply ==
    ASSUME RWP!IInv, CacheInv, MoreTypes, StoreInv, HitInv,
           NEW c \in Conns, ServeHit(c), uri[c] # Blank
    PROVE  \E d \in Conns \ {c} : ServedBy(c, d)'
  <1>1. /\ Scanning(c) /\ in_cache[c] /\ objects[idx[c]].name = uri[c]
        /\ idx[c] \in 0 .. Capacity - 1 /\ used_cnt \in Nat /\ received[c] = <<>>
    <2>1. Scanning(c) /\ in_cache[c]
      BY DEF ServeHit
    <2>2. objects[idx[c]].name = uri[c]
      BY <2>1 DEF HitInv, HitSound
    <2>3. idx[c] \in 0 .. Capacity - 1 /\ used_cnt \in Nat
      BY <2>1, SizesAreNat DEF MoreTypes, CacheInv, CacheTypes
    <2>4. received[c] = <<>>
      BY <2>1 DEF StoreInv, Scanning
    <2> QED BY <2>1, <2>2, <2>3, <2>4
  <1>2. IF idx[c] < used_cnt THEN EntryWhole(idx[c]) ELSE EntryBlank(idx[c])
    BY <1>1, ScansSound DEF ScansSeeWholeEntries
  <1>3. idx[c] \in 0 .. used_cnt - 1
    BY <1>1, <1>2, SizesAreNat DEF EntryBlank
  <1>4. PICK d \in Conns : Fetched(d) /\ objects[idx[c]] = Entry(d)
    BY <1>3 DEF StoreInv
  <1>6. d # c /\ uri[d] = uri[c]
    BY <1>1, <1>4 DEF Fetched, Entry
  <1>7. served'[c] = {Fetch(d)}
    BY <1>4 DEF ServeHit, MoreTypes, Entry
  <1>8. UNCHANGED <<at, uri, port, received>>
    BY DEF ServeHit
  <1>9. Fetch(d)' = Fetch(d)
    BY <1>8, FetchStays
  <1> QED BY <1>4, <1>6, <1>7, <1>8, <1>9 DEF ServedBy, Fetched

LEMMA StepHitInv ==
    RWP!IInv /\ CacheInv /\ MoreTypes /\ StoreInv /\ HitInv /\ [Next]_vars => HitInv'
  <1> SUFFICES ASSUME RWP!IInv, CacheInv, MoreTypes, StoreInv, HitInv, [Next]_vars
               PROVE  HitInv'
    OBVIOUS
  <1>1. CacheTypes /\ AtMatchesLock
    BY DEF CacheInv
  <1>2. CASE UNCHANGED vars
    <2>1. UNCHANGED <<at, uri, port, received, objects, pc, in_cache, served, idx>>
      BY <1>2 DEF vars, connVars, cacheVars, lockVars
    <2>2. \A d \in Conns : Fetch(d)' = Fetch(d)
      BY <2>1, FetchStays
    <2> QED BY <2>1, <2>2 DEF HitInv, HitSound, Scanning, ServedBy, Fetched
  <1>3. ASSUME NEW c \in Conns, Thread(c) \/ Environment(c) PROVE HitInv'
    <2>1. ASSUME NEW d \in Conns, NEW e \in Conns, ServedBy(d, e),
                 served'[d] = served[d], uri'[d] = uri[d], port'[d] = port[d]
          PROVE  ServedBy(d, e)'
      <3>1. /\ received'[e] # <<>> /\ at'[e] \in {"release", "close", "closed"}
            /\ uri'[e] = uri[e] /\ port'[e] = port[e] /\ received'[e] = received[e]
        BY <1>1, <1>3, <2>1, FetchedStays DEF ServedBy
      <3>2. Fetch(e)' = Fetch(e)
        BY <3>1, FetchStays
      <3> QED BY <2>1, <3>1, <3>2 DEF ServedBy, Fetched
    <2>2. ASSUME NEW d \in Conns \ {c}
          PROVE  /\ HitSound(d)'
                 /\ served'[d] # {} /\ uri'[d] # Blank =>
                        \E e \in Conns \ {d} : ServedBy(d, e)'
      <3>1. /\ at'[d] = at[d] /\ uri'[d] = uri[d] /\ port'[d] = port[d] /\ received'[d] = received[d]
            /\ idx'[d] = idx[d] /\ in_cache'[d] = in_cache[d] /\ served'[d] = served[d]
            /\ pc'[d] = pc[d]
        BY <1>1, <1>3, OthersStay, PcStays
      <3>2. Scanning(d) => objects' = objects
        <4>1. CASE StoreName(c) \/ StoreObject(c) \/ CountEntry(c)
          <5>1. at[c] \in StoreSteps
            BY <4>1 DEF StoreName, StoreObject, CountEntry, Move, StoreSteps
          <5> QED BY <1>1, <5>1, WriterAlone DEF Scanning
        <4>2. CASE ~(StoreName(c) \/ StoreObject(c) \/ CountEntry(c))
          BY <1>3, <4>2, CacheStays
        <4> QED BY <4>1, <4>2
      <3>3. HitSound(d)'
        BY <3>1, <3>2 DEF HitInv, HitSound, Scanning
      <3>4. served[d] # {} /\ uri[d] # Blank => \E e \in Conns \ {d} : ServedBy(d, e)
        BY DEF HitInv
      <3> QED BY <2>1, <3>1, <3>3, <3>4
    <2>3. HitSound(c)'
      <3> USE DEF CacheTypes, HitInv, HitSound, Scanning, Move, lockVars, connVars,
                  cacheVars, Exit, GoLookUp
      <3>1. CASE Accept(c) \/ ParseRequest(c) \/ ParseNothing(c) \/ ParseInvalid(c) \/ AcceptFails(c)
        BY <1>1, <3>1 DEF Accept, ParseRequest, ParseNothing, ParseInvalid, AcceptFails, AtMatchesLock,
                          StoreSteps
      <3>2. CASE EnterReader(c)
        <4>1. pc[c] \in {"idle", "counting", "claiming", "admitted"}
          BY <3>2 DEF EnterReader, RW!Arrive, RW!Count, RW!Claim, RW!Admit
        <4> QED BY <1>1, <3>2, <4>1 DEF EnterReader
      <3>3. CASE Compare(c)
        BY <1>1, <3>3 DEF Compare, MoreTypes
      <3>4. CASE ServeHit(c)
        BY <1>1, <3>4 DEF ServeHit, StoreInv
      <3>5. CASE LeaveReader(c)
        <4>1. pc'[c] \in {"uncounting", "releasing", "left"}
          BY <3>5, LockMoves DEF LeaveReader
        <4> QED BY <1>1, <3>5, <4>1 DEF LeaveReader
      <3>6. CASE ReturnFromReader(c)
        BY <1>1, <3>6 DEF ReturnFromReader
      <3>7. CASE Connect(c) \/ ConnectFails(c) \/ EndOfReply(c) \/ ClientGone(c)
        BY <1>1, <3>7 DEF Connect, ConnectFails, EndOfReply, ClientGone
      <3>8. CASE ForwardLine(c)
        BY <1>1, <3>8 DEF ForwardLine
      <3>9. CASE \/ BeginStore(c) \/ StoreName(c) \/ StoreOverrun(c) \/ StoreObject(c)
                 \/ CountEntry(c) \/ EndStore(c) \/ CloseConn(c)
        BY <1>1, <3>9 DEF BeginStore, StoreName, StoreOverrun, StoreObject, CountEntry,
                          EndStore, CloseConn
      <3> QED BY <1>3, <3>1, <3>2, <3>3, <3>4, <3>5, <3>6, <3>7, <3>8, <3>9, Zenon
                 DEF Thread, Environment
    <2>4. served'[c] # {} /\ uri'[c] # Blank => \E e \in Conns \ {c} : ServedBy(c, e)'
      <3>1. CASE ServeHit(c)
        <4>1. uri'[c] = uri[c] /\ port'[c] = port[c]
          BY <3>1 DEF ServeHit
        <4> QED BY <3>1, <4>1, HitIsReply
      <3>2. CASE ~ServeHit(c)
        <4>1. served'[c] = served[c]
          BY <1>3, <3>2 DEF Thread, Environment, Accept, ParseRequest, ParseNothing,
             ParseInvalid, AcceptFails, EnterReader, Compare, LeaveReader, ReturnFromReader, Connect,
             ConnectFails, ForwardLine, EndOfReply, ClientGone, BeginStore, StoreName,
             StoreOverrun, StoreObject, CountEntry, EndStore, CloseConn, Exit, GoLookUp,
             connVars
        <4>2. served[c] # {} => uri'[c] = uri[c] /\ port'[c] = port[c]
          <5>1. served[c] # {} => at[c] \in {"lookup", "close", "closed"}
            BY DEF HitInv, HitSound
          <5> QED BY <1>1, <1>3, <5>1, Path
        <4>3. served[c] # {} /\ uri[c] # Blank => \E e \in Conns \ {c} : ServedBy(c, e)
          BY DEF HitInv
        <4> QED BY <2>1, <4>1, <4>2, <4>3
      <3> QED BY <3>1, <3>2
    <2> QED BY <2>2, <2>3, <2>4 DEF HitInv
  <1> QED BY <1>2, <1>3 DEF Next

-----------------------------------------------------------------------------
LEMMA StoreInvariant ==
    ASSUME "empty" \notin Faults
    PROVE  Spec => [](MoreTypes /\ StoreInv)
  <1>1. Init => MoreTypes /\ StoreInv
    BY InitMoreTypes, InitStoreInv
  <1>2. RWP!IInv /\ CacheInv /\ MoreTypes /\ StoreInv /\ [Next]_vars => (MoreTypes /\ StoreInv)'
    BY StepMoreTypes, StepStoreInv DEF CacheInv
  <1> QED BY <1>1, <1>2, CacheInvariant, LockInvariant, PTL DEF Spec

\* While origins reply with at least a line, the cache is what reader() relies
\* on: its variables have their types, the entry at used_cnt is as far as the
\* one thread in writer(), the others are whole or blank, and whoever has left
\* writer() has its entry in the cache: no store is lost to another.
THEOREM CacheIsKept ==
    ASSUME "empty" \notin Faults
    PROVE  Spec => []Inv
  <1>1. RWP!IInv => RW!TypeOK
    BY DEF RWP!IInv, RWP!TypeOK, RW!TypeOK, RWP!Threads, RW!Threads, RWP!Labels, RW!Labels,
           RWP!InMutex, RW!InMutex
  <1>2. RWP!IInv /\ CacheInv /\ MoreTypes => TypeOK
    BY <1>1 DEF TypeOK, CacheInv, CacheTypes, MoreTypes, StoreSteps
  <1>3. RWP!IInv /\ CacheInv /\ MoreTypes /\ StoreInv => Inv
    BY <1>2 DEF Inv, StoreInv
  <1> QED BY <1>3, StoreInvariant, CacheInvariant, LockInvariant, PTL

\* While origins reply with at least a line, a hit sends the client what one other
\* connection fetched for the same host and path, as far as strcpy has kept it.
THEOREM HitsServeReplies ==
    ASSUME "empty" \notin Faults
    PROVE  Spec => []HitServesReply
  <1>1. RWP!IInv /\ CacheInv /\ MoreTypes /\ StoreInv /\ HitInv /\ [Next]_vars => HitInv'
    BY StepHitInv
  <1>2. Spec => []HitInv
    BY <1>1, InitHitInv, StoreInvariant, CacheInvariant, LockInvariant, PTL DEF Spec
  <1> QED BY <1>2, HitInvServes, PTL
=============================================================================
