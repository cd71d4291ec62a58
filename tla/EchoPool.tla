------------------------------ MODULE EchoPool ------------------------------
(***************************************************************************)
(* The event-driven echo server of server/multi_conecho_server.c: one      *)
(* thread, a pool of clients, and select().  Each turn of the loop accepts *)
(* at most one connection and echoes at most one line of every client that *)
(* select() found readable.                                                *)
(*                                                                         *)
(* Of what a client has sent and the server not read, the model keeps the  *)
(* number of whole lines and whether part of a line follows them.          *)
(***************************************************************************)
EXTENDS Integers, FiniteSets, FiniteSetsExt

CONSTANTS
    listenfd,
    FDs,            \* the descriptors accept() may return
    FDSetSize,      \* FD_SETSIZE, the number of slots in the pool
    LISTENQ,        \* connections that wait to be accepted, at most
    MaxLines,       \* bound: whole lines a client has waiting to be read
    Faults          \* "reset": a client resets its connection

VARIABLES
    clientfd, read_set, ready_set, nready, maxi, maxfd,     \* the pool
    at,         \* where main() is in its loop
    i,          \* the loop variable of check_clients()
    open,       \* the descriptors of accepted connections
    backlog,    \* connections waiting to be accepted
    lines, part, eof,   \* what each client has sent and the server not read
    up

pool == <<clientfd, read_set, ready_set, nready, maxi, maxfd>>
net == <<open, backlog, lines, part, eof>>
vars == <<pool, at, i, net, up>>

Slots == 0 .. FDSetSize - 1

Init ==                         \* init_pool
    /\ clientfd = [k \in Slots |-> -1]
    /\ read_set = {listenfd}
    /\ ready_set = {}
    /\ nready = 0
    /\ maxi = -1
    /\ maxfd = listenfd
    /\ at = "select"
    /\ i = 0
    /\ open = {} /\ backlog = 0
    /\ lines = [d \in FDs |-> 0]
    /\ part = [d \in FDs |-> FALSE]
    /\ eof = [d \in FDs |-> FALSE]
    /\ up = TRUE

-----------------------------------------------------------------------------
(* main()                                                                  *)

Readable(d) ==
    IF d = listenfd THEN backlog > 0 ELSE lines[d] > 0 \/ part[d] \/ eof[d]

Select ==
    LET Ready == {d \in read_set : d <= maxfd /\ Readable(d)}
    IN  /\ at = "select"
        /\ Ready # {}
        /\ ready_set' = Ready
        /\ nready' = Cardinality(Ready)
        /\ at' = IF listenfd \in Ready THEN "accept" ELSE "check"
        /\ i' = 0
        /\ UNCHANGED <<clientfd, read_set, maxi, maxfd, net, up>>

\* A mutant of AddClient: maxi is left as it was.
AddClientUnseen(d) ==
    LET k == Min({s \in Slots : clientfd[s] < 0})
    IN  /\ nready' = nready - 1
        /\ clientfd' = [clientfd EXCEPT ![k] = d]
        /\ read_set' = read_set \cup {d}
        /\ maxfd' = Max({maxfd, d})
        /\ maxi' = IF maxi < 0 THEN k ELSE maxi

\* A full pool would leave the connection open and in no slot, the test at the
\* end of the loop body being for a value the loop variable never has there.
AddClient(d) ==                 \* add_client
    LET Free == {s \in Slots : clientfd[s] < 0}
    IN  /\ nready' = nready - 1
        /\ IF Free = {} THEN UNCHANGED <<clientfd, read_set, maxfd, maxi>>
           ELSE /\ clientfd' = [clientfd EXCEPT ![Min(Free)] = d]
                /\ read_set' = read_set \cup {d}
                /\ maxfd' = Max({maxfd, d})
                /\ maxi' = Max({maxi, Min(Free)})

AcceptClient ==
    /\ at = "accept"
    /\ FDs \ open # {}
    /\ open' = open \cup {Min(FDs \ open)}
    /\ backlog' = backlog - 1
    /\ AddClient(Min(FDs \ open))
    /\ at' = "check"
    /\ UNCHANGED <<ready_set, i, lines, part, eof, up>>

AcceptFails ==                  \* no descriptor left: unix_error ends the process
    /\ at = "accept"
    /\ FDs \ open = {}
    /\ up' = FALSE
    /\ UNCHANGED <<pool, at, i, net>>

-----------------------------------------------------------------------------
(* check_clients()                                                         *)

InLoop == at = "check" /\ i <= maxi /\ nready > 0

SlotReady == clientfd[i] > 0 /\ clientfd[i] \in ready_set

Pass ==                         \* nothing to do for this slot
    /\ InLoop /\ ~SlotReady
    /\ i' = i + 1
    /\ UNCHANGED <<pool, at, net, up>>

\* read() fills the buffer of a copy of the client's rio_t with all there is,
\* one line of it is echoed, and the copy is dropped with the rest.
EchoLine(d) ==
    /\ InLoop /\ SlotReady /\ d = clientfd[i]
    /\ lines[d] > 0 \/ (part[d] /\ eof[d])
    /\ nready' = nready - 1
    /\ i' = i + 1
    /\ lines' = [lines EXCEPT ![d] = 0]
    /\ part' = [part EXCEPT ![d] = FALSE]
    /\ UNCHANGED <<clientfd, read_set, ready_set, maxi, maxfd, at, open, backlog,
                   eof, up>>

\* A mutant of CloseClient: the slot is not freed.
CloseClientKept(d) ==
    /\ InLoop /\ SlotReady /\ d = clientfd[i]
    /\ lines[d] = 0 /\ ~part[d] /\ eof[d]
    /\ nready' = nready - 1
    /\ i' = i + 1
    /\ open' = open \ {d}
    /\ eof' = [eof EXCEPT ![d] = FALSE]
    /\ read_set' = read_set \ {d}
    /\ UNCHANGED <<clientfd, ready_set, maxi, maxfd, at, backlog, lines, part, up>>

CloseClient(d) ==
    /\ InLoop /\ SlotReady /\ d = clientfd[i]
    /\ lines[d] = 0 /\ ~part[d] /\ eof[d]
    /\ nready' = nready - 1
    /\ i' = i + 1
    /\ open' = open \ {d}
    /\ eof' = [eof EXCEPT ![d] = FALSE]     \* the descriptor's next connection
    /\ read_set' = read_set \ {d}
    /\ clientfd' = [clientfd EXCEPT ![i] = -1]
    /\ UNCHANGED <<ready_set, maxi, maxfd, at, backlog, lines, part, up>>

\* Rio_readlineb waits for the end of a line of which only a part has come, and
\* with it the whole server: no action of the server is enabled.
Hangs ==
    /\ InLoop /\ SlotReady
    /\ lines[clientfd[i]] = 0 /\ part[clientfd[i]] /\ ~eof[clientfd[i]]

EndCheck ==
    /\ at = "check" /\ ~InLoop
    /\ at' = "select"
    /\ UNCHANGED <<pool, i, net, up>>

\* An error of read or write ends the process.
ClientResets ==
    /\ "reset" \in Faults
    /\ InLoop /\ SlotReady
    /\ up' = FALSE
    /\ UNCHANGED <<pool, at, i, net>>

Server ==
    /\ up
    /\ \/ Select \/ AcceptClient \/ AcceptFails
       \/ Pass \/ EndCheck
       \/ \E d \in FDs : EchoLine(d) \/ CloseClient(d)

-----------------------------------------------------------------------------
(* The clients                                                             *)

Connect ==
    /\ backlog < LISTENQ
    /\ backlog' = backlog + 1
    /\ UNCHANGED <<pool, at, i, open, lines, part, eof, up>>

SendLine(d) ==                  \* or the rest of one
    /\ d \in open /\ ~eof[d]
    /\ lines[d] < MaxLines
    /\ lines' = [lines EXCEPT ![d] = @ + 1]
    /\ part' = [part EXCEPT ![d] = FALSE]
    /\ UNCHANGED <<pool, at, i, open, backlog, eof, up>>

SendPart(d) ==
    /\ d \in open /\ ~eof[d] /\ ~part[d]
    /\ part' = [part EXCEPT ![d] = TRUE]
    /\ UNCHANGED <<pool, at, i, open, backlog, lines, eof, up>>

Finish(d) ==
    /\ d \in open /\ ~eof[d]
    /\ eof' = [eof EXCEPT ![d] = TRUE]
    /\ UNCHANGED <<pool, at, i, open, backlog, lines, part, up>>

Clients ==
    /\ up
    /\ \/ Connect \/ ClientResets
       \/ \E d \in FDs : SendLine(d) \/ SendPart(d) \/ Finish(d)

Next == Server \/ Clients

-----------------------------------------------------------------------------
(* Properties                                                              *)

TypeOK ==
    /\ clientfd \in [Slots -> FDs \cup {-1}]
    /\ read_set \subseteq FDs \cup {listenfd}
    /\ ready_set \subseteq FDs \cup {listenfd}
    /\ nready \in 0 .. Cardinality(FDs) + 1
    /\ maxi \in Slots \cup {-1}
    /\ maxfd \in FDs \cup {listenfd}
    /\ at \in {"select", "accept", "check"}
    /\ i \in 0 .. FDSetSize
    /\ open \subseteq FDs
    /\ backlog \in 0 .. LISTENQ
    /\ lines \in [FDs -> 0 .. MaxLines]
    /\ part \in [FDs -> BOOLEAN]
    /\ eof \in [FDs -> BOOLEAN]
    /\ up \in BOOLEAN

\* The pool knows every connection: each open descriptor is in exactly one slot
\* and in read_set, no closed one is in either, and the bounds that select()
\* and the loop go by cover them all.
Used == {k \in Slots : clientfd[k] >= 0}

PoolConsistent ==
    /\ {clientfd[k] : k \in Used} = open
    /\ \A j, k \in Used : clientfd[j] = clientfd[k] => j = k
    /\ read_set = open \cup {listenfd}
    /\ \A k \in Used : k <= maxi
    /\ \A d \in read_set : d <= maxfd

\* nready counts the ready clients still to come, so the loop stops early only
\* when it is done with all of them: a client accepted in the same turn, in
\* whatever slot and under whatever descriptor, is not taken for one of them.
NreadyExact ==
    at = "check" =>
        nready = Cardinality({k \in i .. FDSetSize - 1 :
                                 clientfd[k] > 0 /\ clientfd[k] \in ready_set})

\* The pool as select() and the scan go by it.
PoolInv == TypeOK /\ PoolConsistent /\ NreadyExact

\* What a client has sent is read in the end, whatever the others do, unless the
\* process ends or stays for ever with a client that has sent part of a line.
EveryClientHeard ==
    <>(~up) \/ <>[]Hangs \/ \A d \in FDs : lines[d] > 0 ~> lines[d] = 0
=============================================================================
