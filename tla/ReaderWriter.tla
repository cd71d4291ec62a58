---------------------------- MODULE ReaderWriter ----------------------------
(***************************************************************************)
(* The readers-writers protocol of thread/reader_writer.c, which           *)
(* labs/proxylab-handout/proxy.c uses around its cache: a counter of       *)
(* readers under the semaphore mutex, and the semaphore w that the first   *)
(* reader of a group takes and the last one gives back.                    *)
(*                                                                         *)
(* One action per semaphore call and one per access to the counter.  The   *)
(* increment of the counter and the test that follows it are one step: no  *)
(* other thread touches the counter in between (CounterExclusion).         *)
(***************************************************************************)
EXTENDS Semaphores, FiniteSets

CONSTANTS Readers, Writers     \* a thread may be both, as those of proxy.c are

Threads == Readers \cup Writers

ASSUME ThreadsFinite == IsFiniteSet(Threads)

VARIABLES
    mutex,      \* guards the counter
    w,          \* held by the writer, or by the readers as a group
    readcnt,
    pc          \* where each thread stands in reader() or writer()

vars == <<mutex, w, readcnt, pc>>

\* The statements of reader() executed between P(&mutex) and V(&mutex).
InMutex == {"counting", "claiming", "admitted", "uncounting", "releasing", "left"}

Labels == InMutex \cup {"idle", "reading", "writing"}

At(S) == {t \in Threads : pc[t] \in S}

Goto(t, label) == pc' = [pc EXCEPT ![t] = label]

Init ==
    /\ mutex = 1
    /\ w = 1
    /\ readcnt = 0
    /\ pc = [t \in Threads |-> "idle"]

-----------------------------------------------------------------------------
(* reader()                                                                *)

Arrive(t) ==                    \* P(&mutex)
    /\ t \in Readers
    /\ pc[t] = "idle"
    /\ P(mutex)
    /\ Goto(t, "counting")
    /\ UNCHANGED <<w, readcnt>>

\* Mutant of Count: every reader takes w, not only the first.
CountAll(t) ==
    /\ pc[t] = "counting" /\ readcnt' = readcnt + 1 /\ Goto(t, "claiming")
    /\ UNCHANGED <<mutex, w>>

Count(t) ==                     \* readcnt++; if (readcnt == 1)
    /\ pc[t] = "counting"
    /\ readcnt' = readcnt + 1
    /\ Goto(t, IF readcnt' = 1 THEN "claiming" ELSE "admitted")
    /\ UNCHANGED <<mutex, w>>

\* Mutant of Claim: the first reader does not wait for w.
ClaimAtOnce(t) == pc[t] = "claiming" /\ Goto(t, "admitted") /\ UNCHANGED <<mutex, w, readcnt>>

Claim(t) ==                     \* P(&w), the mutex still held
    /\ pc[t] = "claiming"
    /\ P(w)
    /\ Goto(t, "admitted")
    /\ UNCHANGED <<mutex, readcnt>>

\* Mutant of Admit: the reader keeps the mutex while it reads.
AdmitAlone(t) == pc[t] = "admitted" /\ Goto(t, "reading") /\ UNCHANGED <<mutex, w, readcnt>>

Admit(t) ==                     \* V(&mutex): the shared section begins
    /\ pc[t] = "admitted"
    /\ V(mutex)
    /\ Goto(t, "reading")
    /\ UNCHANGED <<w, readcnt>>

Leave(t) ==                     \* P(&mutex): the shared section is over
    /\ pc[t] = "reading"
    /\ P(mutex)
    /\ Goto(t, "uncounting")
    /\ UNCHANGED <<w, readcnt>>

\* Mutant of Uncount: a leaving reader is not counted out.
UncountForgotten(t) == pc[t] = "uncounting" /\ Goto(t, "left") /\ UNCHANGED <<mutex, w, readcnt>>

Uncount(t) ==                   \* readcnt--; if (readcnt == 0)
    /\ pc[t] = "uncounting"
    /\ readcnt' = readcnt - 1
    /\ Goto(t, IF readcnt' = 0 THEN "releasing" ELSE "left")
    /\ UNCHANGED <<mutex, w>>

\* Mutant of Release: the last reader keeps w.
ReleaseForgotten(t) == pc[t] = "releasing" /\ Goto(t, "left") /\ UNCHANGED <<mutex, w, readcnt>>

Release(t) ==                   \* V(&w)
    /\ pc[t] = "releasing"
    /\ V(w)
    /\ Goto(t, "left")
    /\ UNCHANGED <<mutex, readcnt>>

Depart(t) ==                    \* V(&mutex)
    /\ pc[t] = "left"
    /\ V(mutex)
    /\ Goto(t, "idle")
    /\ UNCHANGED <<w, readcnt>>

Reader(t) ==
    \/ Arrive(t) \/ Count(t) \/ Claim(t) \/ Admit(t)
    \/ Leave(t) \/ Uncount(t) \/ Release(t) \/ Depart(t)

-----------------------------------------------------------------------------
(* writer()                                                                *)

BeginWrite(t) ==                \* P(&w)
    /\ t \in Writers
    /\ pc[t] = "idle"
    /\ P(w)
    /\ Goto(t, "writing")
    /\ UNCHANGED <<mutex, readcnt>>

EndWrite(t) ==                  \* V(&w)
    /\ pc[t] = "writing"
    /\ V(w)
    /\ Goto(t, "idle")
    /\ UNCHANGED <<mutex, readcnt>>

Writer(t) == BeginWrite(t) \/ EndWrite(t)

-----------------------------------------------------------------------------
Next == \E t \in Threads : Reader(t) \/ Writer(t)

Spec == Init /\ [][Next]_vars

\* Both functions of reader_writer.c loop for ever and the operating system
\* runs every thread that can run; it does not promise a thread waiting at a
\* semaphore that it will be the one to get it.
Fairness == \A t \in Threads : WF_vars(Reader(t)) /\ WF_vars(Writer(t))

FairSpec == Spec /\ Fairness

-----------------------------------------------------------------------------
(* Properties                                                              *)

TypeOK ==
    /\ mutex \in {0, 1}
    /\ w \in {0, 1}
    /\ readcnt \in Nat
    /\ pc \in [Threads -> Labels]

\* The counter is touched by one thread at a time (lines 12-18 and 22-26 of
\* reader_writer.c): at most one thread is between P(&mutex) and V(&mutex).
CounterExclusion == \A t, u \in At(InMutex) : t = u

\* The counter counts: readcnt is the number of threads that have entered and
\* not yet left, so that "== 1" means first and "== 0" means last.
CounterExact ==
    readcnt = Cardinality(At({"claiming", "admitted", "reading", "uncounting"}))

\* Nobody reads while a thread writes, and two threads do not write together.
\* A reader reads from V(&mutex) to the P(&mutex) that ends its section.
Exclusion ==
    /\ At({"writing"}) # {} => At({"reading"}) = {}
    /\ \A t, u \in At({"writing"}) : t = u

\* Readers share: a reader waits for w only while nobody else reads, so the
\* mutex it holds meanwhile never delays a reader that wants to leave.
ClaimOnlyAlone == At({"claiming"}) # {} => At({"reading", "uncounting"}) = {}

\* The threads on whose behalf the readers as a group hold w.
Group == {"admitted", "reading", "uncounting", "releasing"}

\* The semaphore w is free exactly when no writer and no group of readers
\* holds it: no V(&w) is ever forgotten or done twice.
WAccounted == w = 1 <=> At(Group \cup {"writing"}) = {}

\* The inductive invariant: what each semaphore's value says of the threads,
\* and what the counter says of a thread that has just tested it.
IInv ==
    /\ TypeOK
    /\ mutex = 1 <=> At(InMutex) = {}
    /\ CounterExclusion
    /\ CounterExact
    /\ WAccounted
    /\ At({"writing"}) # {} => At(Group) = {}
    /\ \A t, u \in At({"writing"}) : t = u
    /\ At({"claiming"}) # {} => readcnt = 1
    /\ At({"releasing"}) # {} => readcnt = 0

\* The protocol never stops admitting: there is always a later moment at
\* which some thread is inside.
Progress == []<>(At({"reading", "writing"}) # {})

\* The semaphores implement the lock.
Lock == INSTANCE RWLock WITH readers <- At({"reading"}), writers <- At({"writing"})

ImplementsLock == Lock!Spec
=============================================================================
