------------------------------- MODULE RWLock -------------------------------
(***************************************************************************)
(* What a readers-writers lock promises, whatever it is made of: any       *)
(* number of threads read together, a thread writes alone.                 *)
(***************************************************************************)
CONSTANT Threads

VARIABLES readers, writers

vars == <<readers, writers>>

Init == readers = {} /\ writers = {}

BeginRead(t) ==
    /\ t \notin readers
    /\ writers = {}
    /\ readers' = readers \cup {t}
    /\ UNCHANGED writers

EndRead(t) ==
    /\ t \in readers
    /\ readers' = readers \ {t}
    /\ UNCHANGED writers

BeginWrite(t) ==
    /\ readers = {}
    /\ writers = {}
    /\ writers' = {t}
    /\ UNCHANGED readers

EndWrite(t) ==
    /\ t \in writers
    /\ writers' = writers \ {t}
    /\ UNCHANGED readers

Next == \E t \in Threads :
            BeginRead(t) \/ EndRead(t) \/ BeginWrite(t) \/ EndWrite(t)

Spec == Init /\ [][Next]_vars
=============================================================================
