----------------------------- MODULE ForkServer -----------------------------
(***************************************************************************)
(* The echo server of server/process_conecho_server.c: one child process   *)
(* for every connection, reaped by a handler of SIGCHLD.  A connection is  *)
(* closed when the last process that holds its descriptor has closed it;   *)
(* signals of one kind are not counted, only pending or not.               *)
(***************************************************************************)
EXTENDS Naturals, FiniteSets

CONSTANTS
    Conns,      \* connections, each made at most once
    Pids,       \* process ids, reused when a child has been reaped
    main        \* the server's first process

VARIABLES
    at,         \* where main() is: "accept", "fork", "close", or "exited"
    connfd,     \* main's variable, a connection; kept after it is closed
    child,      \* what each child does: see States
    serves,     \* the value of connfd in each child
    held,       \* the descriptors each process has open
    pending,    \* SIGCHLD is pending for main
    handling,   \* main is inside sigchld_handler
    queue,      \* connections waiting to be accepted
    met,        \* connections accepted so far
    eof         \* connections whose client has finished

vars == <<at, connfd, child, serves, held, pending, handling, queue, met, eof>>
clients == <<queue, met, eof>>

listen == "listenfd"
States == {"none", "close listenfd", "echo", "close connfd", "exit", "zombie"}
Zombies == {p \in Pids : child[p] = "zombie"}

Init ==
    /\ at = "accept" /\ connfd = {}
    /\ child = [p \in Pids |-> "none"]
    /\ serves = [p \in Pids |-> {}]
    /\ held = [p \in Pids \cup {main} |-> IF p = main THEN {listen} ELSE {}]
    /\ pending = FALSE /\ handling = FALSE
    /\ queue = {} /\ met = {} /\ eof = {}

-----------------------------------------------------------------------------
(* main(), where the handler does not interrupt it.  SIGCHLD arriving in     *)
(* accept() restarts the call, for Signal() asks for SA_RESTART.             *)

Running(s) == at = s /\ ~pending /\ ~handling

AcceptConn(c) ==
    /\ Running("accept") /\ c \in queue
    /\ at' = "fork"
    /\ connfd' = {c}
    /\ held' = [held EXCEPT ![main] = @ \cup {c}]
    /\ queue' = queue \ {c} /\ met' = met \cup {c}
    /\ UNCHANGED <<child, serves, pending, handling, eof>>

Fork(p) ==
    /\ Running("fork") /\ child[p] = "none"
    /\ child' = [child EXCEPT ![p] = "close listenfd"]
    /\ serves' = [serves EXCEPT ![p] = connfd]
    /\ held' = [held EXCEPT ![p] = held[main]]
    /\ at' = "close"
    /\ UNCHANGED <<connfd, pending, handling, clients>>

\* No process left, zombies counted: unix_error ends the server, its children
\* go on, and the system reaps those that have ended or will.
ForkFails ==
    /\ Running("fork") /\ \A p \in Pids : child[p] # "none"
    /\ at' = "exited"
    /\ held' = [held EXCEPT ![main] = {}]
    /\ child' = [p \in Pids |-> IF p \in Zombies THEN "none" ELSE child[p]]
    /\ UNCHANGED <<connfd, serves, pending, handling, clients>>

\* A mutant: the server keeps its own descriptor of the connection.
CloseKept ==
    /\ Running("close")
    /\ at' = "accept"
    /\ UNCHANGED <<held, connfd, child, serves, pending, handling, clients>>

Close ==
    /\ Running("close")
    /\ held' = [held EXCEPT ![main] = @ \ connfd]
    /\ at' = "accept"
    /\ UNCHANGED <<connfd, child, serves, pending, handling, clients>>

-----------------------------------------------------------------------------
(* sigchld_handler()                                                        *)

Deliver ==
    /\ at # "exited" /\ pending /\ ~handling
    /\ pending' = FALSE /\ handling' = TRUE
    /\ UNCHANGED <<at, connfd, child, serves, held, clients>>

\* A mutant: one call of waitpid() for each signal.
ReapOne ==
    /\ at # "exited" /\ handling
    /\ IF Zombies = {} THEN UNCHANGED child
       ELSE \E p \in Zombies : child' = [child EXCEPT ![p] = "none"]
    /\ handling' = FALSE
    /\ UNCHANGED <<at, connfd, serves, held, pending, clients>>

Reap ==                         \* waitpid(-1, 0, WNOHANG) > 0
    /\ at # "exited" /\ handling
    /\ IF Zombies = {}
       THEN handling' = FALSE /\ UNCHANGED child
       ELSE \E p \in Zombies : child' = [child EXCEPT ![p] = "none"] /\ UNCHANGED handling
    /\ UNCHANGED <<at, connfd, serves, held, pending, clients>>

-----------------------------------------------------------------------------
(* A child.  echo() is the loop of module Rio: it returns at the end of the *)
(* client's stream, or an error of it ends the process.                     *)

ChildStep(p, from, to, closes) ==
    /\ child[p] = from
    /\ child' = [child EXCEPT ![p] = to]
    /\ held' = [held EXCEPT ![p] = @ \ closes]
    /\ UNCHANGED <<at, connfd, serves, pending, handling, clients>>

EchoEnds(p) == serves[p] \subseteq eof /\ ChildStep(p, "echo", "close connfd", {})

EchoFails(p) == ChildStep(p, "echo", "exit", {})

Exit(p) ==                      \* the kernel closes what is open and signals main
    /\ child[p] = "exit"
    /\ held' = [held EXCEPT ![p] = {}]
    /\ child' = [child EXCEPT ![p] = IF at = "exited" THEN "none" ELSE "zombie"]
    /\ pending' = (pending \/ at # "exited")
    /\ UNCHANGED <<at, connfd, serves, handling, clients>>

Child(p) ==
    \/ ChildStep(p, "close listenfd", "echo", {listen})
    \/ EchoEnds(p)
    \/ ChildStep(p, "close connfd", "exit", serves[p])
    \/ Exit(p)

Connect(c) ==
    /\ c \notin queue \cup met
    /\ queue' = queue \cup {c}
    /\ UNCHANGED <<at, connfd, child, serves, held, pending, handling, met, eof>>

Finish(c) ==
    /\ c \in (queue \cup met) \ eof
    /\ eof' = eof \cup {c}
    /\ UNCHANGED <<at, connfd, child, serves, held, pending, handling, queue, met>>

Server ==
    \/ \E c \in Conns : AcceptConn(c)
    \/ \E p \in Pids : Fork(p)
    \/ ForkFails \/ Close \/ Deliver \/ Reap

Next ==
    \/ Server
    \/ \E p \in Pids : Child(p) \/ EchoFails(p)
    \/ \E c \in Conns : Connect(c) \/ Finish(c)

Spec == Init /\ [][Next]_vars

-----------------------------------------------------------------------------
(* Properties                                                               *)

\* No death of a child goes unnoticed although signals merge: while the server
\* runs, a child that has ended and was not reaped is one that the signal
\* pending, or the handler's loop now running, will reap.
NoZombieForgotten == Zombies # {} => pending \/ handling

\* A connection is held by the server's process only on its way from accept() to
\* close(), and otherwise by one child, which holds nothing else once it echoes.
OneHolder ==
    /\ held[main] \subseteq {listen} \cup IF at \in {"fork", "close"} THEN connfd ELSE {}
    /\ \A p \in Pids :
          /\ held[p] \subseteq serves[p] \cup {listen}
          /\ child[p] \in {"echo", "close connfd"} => held[p] = serves[p]
          /\ \A q \in Pids \ {p} : held[p] \cap held[q] \subseteq {listen}

\* The client sees the end of the connection after it has ended its own side:
\* some time later no process holds a descriptor of it, also when children end
\* on errors or the server does for want of a process.
EveryConnectionClosed ==
    \A c \in Conns : c \in eof \cap met ~> \A p \in DOMAIN held : c \notin held[p]
=============================================================================
