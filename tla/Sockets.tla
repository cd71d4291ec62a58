------------------------------- MODULE Sockets ------------------------------
(***************************************************************************)
(* One call of Open_clientfd or Open_listenfd, in the two versions of      *)
(* csapp.c in the repository: that of server/, thread/ and tiny/, whose    *)
(* helper calls wrappers that end the process, and the later one of        *)
(* proxylab, whose helper returns an error.  No program calls the helpers  *)
(* but through these two wrappers, which end the process in both versions. *)
(* Any system call may fail at any address.                                *)
(***************************************************************************)
EXTENDS Integers

CONSTANTS FDs,                  \* descriptors that are free before the call
          MaxAddrs              \* bound: addresses of a host

VARIABLES
    helper,         \* fn: the function called; old: of server/csapp.c
    step,           \* the system call that is next
    addrs, addr,    \* the length of the list, and the place of p in it
    listed,         \* whether the list is allocated
    socket,         \* clientfd, listenfd
    sockets         \* what each descriptor is

vars == <<helper, step, addrs, addr, listed, socket, sockets>>

None == [d \in FDs |-> "closed"]

Init ==
    /\ helper \in [fn : {"open_clientfd", "open_listenfd"}, old : BOOLEAN]
    /\ step = "getaddrinfo"
    /\ addrs = 0 /\ addr = 0 /\ listed = FALSE
    /\ socket = 0 /\ sockets = None

Goto(s) == step' = s /\ UNCHANGED helper

\* unix_error() and gai_error() end the process, and the system closes what it held.
Exit == Goto("ended") /\ sockets' = None /\ listed' = FALSE

\* A failing call: server/csapp.c's wrapper ends the process, proxylab's helper returns < 0.
Fails == IF helper.old THEN Exit ELSE Goto("failed") /\ UNCHANGED <<sockets, listed>>

Getaddrinfo ==
    /\ step = "getaddrinfo"
    /\ \/ Goto("socket") /\ listed' = TRUE /\ addrs' \in 1 .. MaxAddrs /\ addr' = 1
              /\ UNCHANGED <<socket, sockets>>
       \/ Fails /\ UNCHANGED <<addrs, addr, socket>>

Socket ==
    /\ step = "socket" /\ addr <= addrs
    /\ \/ \E d \in FDs :
              /\ sockets[d] = "closed"
              /\ socket' = d /\ sockets' = [sockets EXCEPT ![d] = "new"]
              /\ Goto(IF helper.fn = "open_listenfd" THEN "setsockopt" ELSE "connect")
              /\ UNCHANGED addr
       \/ addr' = addr + 1 /\ Goto("socket") /\ UNCHANGED <<socket, sockets>>
    /\ UNCHANGED <<addrs, listed>>

Setsockopt ==                   \* proxylab's version does not ask whether it failed
    /\ step = "setsockopt"
    /\ \/ Goto("connect") /\ UNCHANGED <<sockets, listed>>
       \/ helper.old /\ Exit
    /\ UNCHANGED <<addrs, addr, socket>>

Connect ==                      \* or bind()
    /\ step = "connect"
    /\ \/ sockets' = [sockets EXCEPT ![socket] = "connected"] /\ Goto("freeaddrinfo")
       \/ UNCHANGED sockets /\ Goto("close")
    /\ UNCHANGED <<addrs, addr, listed, socket>>

\* A mutant of Close: the next address is tried and the refused socket forgotten.
Close_forgotten ==
    /\ step = "close"
    /\ addr' = addr + 1 /\ Goto("socket")
    /\ UNCHANGED <<addrs, socket, sockets, listed>>

Close ==                        \* a close() that fails may leave the descriptor open
    /\ step = "close"
    /\ \/ sockets' = [sockets EXCEPT ![socket] = "closed"] /\ addr' = addr + 1
              /\ Goto("socket") /\ UNCHANGED listed
       \/ Fails /\ UNCHANGED addr
    /\ UNCHANGED <<addrs, socket>>

NoneLeft ==                     \* p is the end of the list
    /\ step = "socket" /\ addr > addrs
    /\ Goto("freeaddrinfo")
    /\ UNCHANGED <<addrs, addr, listed, socket, sockets>>

Freeaddrinfo ==
    /\ step = "freeaddrinfo"
    /\ listed' = FALSE
    /\ Goto(IF addr > addrs THEN "failed"
            ELSE IF helper.fn = "open_listenfd" THEN "listen" ELSE "returned")
    /\ UNCHANGED <<addrs, addr, socket, sockets>>

Listen ==                       \* server/csapp.c does not close a socket that cannot listen
    /\ step = "listen"
    /\ \/ sockets' = [sockets EXCEPT ![socket] = "listening"] /\ Goto("returned")
       \/ UNCHANGED sockets /\ Goto("failed")
       \/ ~helper.old /\ sockets' = [sockets EXCEPT ![socket] = "closed"] /\ Goto("failed")
    /\ UNCHANGED <<addrs, addr, listed, socket>>

Wrapper ==                      \* rc < 0
    /\ step = "failed"
    /\ Exit
    /\ UNCHANGED <<addrs, addr, socket>>

Next == Getaddrinfo \/ Socket \/ Setsockopt \/ Connect \/ Close \/ NoneLeft
            \/ Freeaddrinfo \/ Listen \/ Wrapper

Spec == Init /\ [][Next]_vars

-----------------------------------------------------------------------------
\* Whatever fails on the way, no socket of an address that did not work is open when the next
\* one is tried, and the caller goes on with one socket more, connected or listening as it
\* asked for, and with no list.
NothingLeft ==
    /\ step = "socket" => sockets = None
    /\ step = "returned" =>
           /\ ~listed
           /\ \A d \in FDs : sockets[d] =
                  IF d # socket THEN "closed"
                  ELSE IF helper.fn = "open_clientfd" THEN "connected" ELSE "listening"
=============================================================================
