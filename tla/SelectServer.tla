---------------------------- MODULE SelectServer ----------------------------
(***************************************************************************)
(* The echo server of server/multi_echo_server.c: select() on standard     *)
(* input and on the listening socket, and one client at a time, served to  *)
(* the end of its stream before the next turn.                             *)
(***************************************************************************)
EXTENDS Naturals

CONSTANTS MaxConnects, MaxLines     \* bounds: connections and lines that come

VARIABLES
    at,         \* where main() is, or "exited"
    ready,      \* what select() found readable and main() has not yet handled
    waiting, arrived,     \* connections: waiting to be accepted, come so far
    finished,   \* the client that is served has ended its stream
    typed, lines,       \* lines of stdin: not yet read, come so far
    kept,       \* lines read() returned with an earlier one, in stdin's buffer
    stdinEof

stdinVars == <<typed, lines, kept, stdinEof>>
vars == <<at, ready, waiting, arrived, finished, stdinVars>>

Init ==
    /\ at = "select" /\ ready = {}
    /\ waiting = 0 /\ arrived = 0 /\ finished = FALSE
    /\ typed = 0 /\ lines = 0 /\ kept = 0 /\ stdinEof = FALSE

Readable == {f \in {"stdin", "listen"} :
                IF f = "stdin" THEN typed > 0 \/ stdinEof ELSE waiting > 0}

\* A mutant: the first argument of select() is listenfd, not listenfd + 1.
SelectShort ==
    /\ at = "select" /\ "stdin" \in Readable
    /\ ready' = {"stdin"} /\ at' = "command"
    /\ UNCHANGED <<waiting, arrived, finished, stdinVars>>

Select ==                       \* kept lines do not make stdin readable
    /\ at = "select" /\ Readable # {}
    /\ ready' = Readable
    /\ at' = IF "stdin" \in Readable THEN "command" ELSE "accept"
    /\ UNCHANGED <<waiting, arrived, finished, stdinVars>>

\* Fgets: a line of stdin's buffer, or read() fills that with one line, as from a
\* terminal, or with more, as from a pipe; at the end of the input, exit.
Command ==
    /\ at = "command"
    /\ ready' = ready \ {"stdin"}
    /\ \/ /\ kept > 0
          /\ kept' = kept - 1 /\ UNCHANGED typed
       \/ /\ kept = 0
          /\ \E n \in 1 .. typed : kept' = n - 1 /\ typed' = typed - n
       \/ kept = 0 /\ typed = 0 /\ UNCHANGED <<kept, typed>>
    /\ at' = IF kept = 0 /\ typed = 0 THEN "exited"
             ELSE IF "listen" \in ready THEN "accept" ELSE "select"
    /\ UNCHANGED <<waiting, arrived, finished, lines, stdinEof>>

Accept ==
    /\ at = "accept"
    /\ waiting' = waiting - 1 /\ finished' = FALSE
    /\ at' = "echo"
    /\ UNCHANGED <<ready, arrived, stdinVars>>

EchoEnds ==                     \* Rio_readlineb returns 0; Close(connfd)
    /\ at = "echo" /\ finished
    /\ at' = "select" /\ ready' = {}
    /\ UNCHANGED <<waiting, arrived, finished, stdinVars>>

EchoFails == at = "echo" /\ at' = "exited" /\ UNCHANGED <<ready, waiting, arrived, finished, stdinVars>>

Server == Select \/ Command \/ Accept \/ EchoEnds

Connect ==
    /\ arrived < MaxConnects
    /\ arrived' = arrived + 1 /\ waiting' = waiting + 1
    /\ UNCHANGED <<at, ready, finished, stdinVars>>

ClientFinishes == at = "echo" /\ finished' = TRUE /\ UNCHANGED <<at, ready, waiting, arrived, stdinVars>>

TypeLine ==
    /\ lines < MaxLines /\ ~stdinEof
    /\ lines' = lines + 1 /\ typed' = typed + 1
    /\ UNCHANGED <<at, ready, waiting, arrived, finished, kept, stdinEof>>

EndStdin == stdinEof' = TRUE /\ UNCHANGED <<at, ready, waiting, arrived, finished, typed, lines, kept>>

Next ==
    /\ at # "exited"
    /\ Server \/ EchoFails \/ Connect \/ ClientFinishes \/ TypeLine \/ EndStdin

Spec == Init /\ [][Next]_vars

\* The clients are served one after the other: unless the process ends or is for
\* ever with a client that does not end its stream, it comes back to having nobody
\* waiting, so that no connection waits for ever, whatever is typed meanwhile.
QueueDrains ==
    \/ <>[](at = "echo" /\ ~finished)
    \/ []<>(waiting = 0 \/ at = "exited")
=============================================================================
