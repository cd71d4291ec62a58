---------------------------- MODULE ShellDriver -----------------------------
(***************************************************************************)
(* sdriver.pl: it plays a trace to the shell tsh over a pair of pipes,     *)
(* command lines and signals, and prints what the shell has written when   *)
(* the trace is over.  A pipe holds PipeSize lines.                        *)
(***************************************************************************)
EXTENDS Naturals, Sequences, SequencesExt, FiniteSets

CONSTANTS PipeSize,
          MaxCommands       \* bound: lines of the trace

VARIABLES at,       \* "trace", "echo", "done"; "killed" by SIGPIPE
          todo,     \* the lines of INFILE, and how many of them are done
          i,
          prompt,   \* whether -p is not among the shell's arguments
          shell,    \* "starting", "flush", "read", "exiting", "stopped", "zombie", "reaped"
          buf,      \* lines in the shell's stdout buffer
          writer,   \* the driver's end of the shell's stdin is open
          input, output,        \* lines in the pipes
          printed

vars == <<at, todo, i, prompt, shell, buf, writer, input, output, printed>>
trace == <<todo, prompt>>

Signals == {"TSTP", "INT", "QUIT", "KILL"}
Dead == {"zombie", "reaped"}

Init ==
    /\ at = "trace" /\ i = 0
    /\ todo \in SeqOf(Signals \cup {"CLOSE", "WAIT", "line"}, MaxCommands)
    /\ prompt \in BOOLEAN
    /\ shell = "starting" /\ buf = 0 /\ writer = TRUE
    /\ input = 0 /\ output = 0 /\ printed = 0

-----------------------------------------------------------------------------
(* tsh.c                                                                    *)

Prompt == /\ shell' = IF prompt THEN "flush" ELSE "read"
          /\ buf' = IF prompt THEN buf + 1 ELSE buf

Flushed == output + buf <= PipeSize /\ output' = output + buf /\ buf' = 0

Main ==
    /\ \/ /\ shell = "starting" /\ Prompt               \* the handlers are installed
          /\ UNCHANGED <<input, output>>
       \/ /\ shell = "flush" /\ Flushed /\ shell' = "read"
          /\ UNCHANGED input
       \/ /\ shell = "read" /\ input > 0 /\ input' = input - 1 /\ Prompt
          /\ UNCHANGED output
       \/ /\ shell = "read" /\ input = 0 /\ ~writer /\ shell' = "exiting"       \* ctrl-d
          /\ UNCHANGED <<input, output, buf>>
       \/ /\ shell = "exiting" /\ Flushed /\ shell' = "zombie"                  \* exit()
          /\ UNCHANGED input
    /\ UNCHANGED <<trace, at, i, writer, printed>>

\* sigint_handler(), sigtstp_handler(), sigquit_handler(): each prints a line and calls
\* exit(); a signal that comes while one does may or may not add its own. Before they are
\* installed a signal does what it does by default; a stopped process sees SIGKILL only.
Handle(sig) ==
    \/ /\ sig = "KILL" /\ shell \notin Dead
       /\ shell' = "zombie" /\ buf' = 0
    \/ /\ sig # "KILL" /\ shell = "starting"
       /\ shell' = IF sig = "TSTP" THEN "stopped" ELSE "zombie"
       /\ UNCHANGED buf
    \/ /\ sig # "KILL" /\ shell \in {"flush", "read", "exiting"}
       /\ shell' = "exiting"
       /\ buf' \in IF shell = "exiting" THEN {buf, buf + 1} ELSE {buf + 1}
    \/ /\ shell \in Dead \/ (shell = "stopped" /\ sig # "KILL")
       /\ UNCHANGED <<shell, buf>>

-----------------------------------------------------------------------------
(* sdriver.pl                                                               *)

\* wait: for the only child; it fails at once when there is none.
Wait == shell \in Dead /\ shell' = "reaped"

Command ==
    /\ at = "trace" /\ i < Len(todo) /\ i' = i + 1
    /\ \/ /\ todo[i + 1] \in Signals /\ Handle(todo[i + 1])
          /\ UNCHANGED <<at, writer, input>>
       \/ /\ todo[i + 1] = "CLOSE" /\ writer' = FALSE
          /\ UNCHANGED <<at, shell, buf, input>>
       \/ /\ todo[i + 1] = "WAIT" /\ Wait
          /\ UNCHANGED <<at, buf, writer, input>>
       \/ /\ todo[i + 1] = "line" /\ writer /\ shell \notin Dead
          /\ input < PipeSize /\ input' = input + 1
          /\ UNCHANGED <<at, shell, buf, writer>>
       \/ /\ todo[i + 1] = "line" /\ writer /\ shell \in Dead    \* nobody reads
          /\ at' = "killed"
          /\ UNCHANGED <<shell, buf, writer, input>>
       \/ /\ todo[i + 1] = "line" /\ ~writer                     \* print fails, unnoticed
          /\ UNCHANGED <<at, shell, buf, writer, input>>
    /\ UNCHANGED <<trace, output, printed>>

\* A mutant: the shell's stdin stays open.
EndOfTraceOpen ==
    /\ at = "trace" /\ i = Len(todo) /\ at' = "echo"
    /\ UNCHANGED <<trace, i, shell, buf, writer, input, output, printed>>

EndOfTrace ==
    /\ at = "trace" /\ i = Len(todo) /\ at' = "echo" /\ writer' = FALSE
    /\ UNCHANGED <<trace, i, shell, buf, input, output, printed>>

Echo ==
    /\ at = "echo"
    /\ \/ /\ output > 0
          /\ printed' = printed + output /\ output' = 0
          /\ UNCHANGED <<at, shell>>
       \/ /\ output = 0 /\ Wait /\ at' = "done"
          /\ UNCHANGED <<output, printed>>
    /\ UNCHANGED <<trace, i, buf, writer, input>>

Next == Main \/ Command \/ EndOfTrace \/ Echo

-----------------------------------------------------------------------------
(* Properties                                                               *)

Before(n) == {todo[j] : j \in 1 .. n - 1}
Sent == {j \in DOMAIN todo : todo[j] = "line" /\ "CLOSE" \notin Before(j)}

\* Neither has anything to do: the driver waits for the shell, and the shell for the driver.
Waits == /\ \/ at = "echo" /\ output = 0
            \/ /\ at = "trace" /\ i < Len(todo)
               /\ \/ todo[i + 1] = "WAIT"
                  \/ todo[i + 1] = "line" /\ writer /\ input = PipeSize
         /\ \/ shell = "stopped"
            \/ shell = "read" /\ input = 0 /\ writer
            \/ shell \in {"flush", "exiting"} /\ output + buf > PipeSize

\* The driver comes to its end but for a signal that stops the shell before its handlers
\* are there, a WAIT for a shell that has been told nothing, and a trace that fills the
\* pipes; it is killed only by a line that follows a signal; and when it ends, the shell is
\* reaped, and without signals all that it wrote in answer to the lines sent is printed.
TracePlayed ==
    /\ Waits =>
          \/ shell = "stopped" /\ "TSTP" \in Before(i + 1)
          \/ \E j \in DOMAIN todo : todo[j] = "WAIT" /\ Before(j) \cap (Signals \cup {"CLOSE"}) = {}
          \/ Cardinality(Sent) + Cardinality({j \in 1 .. i : todo[j] \in Signals}) >= PipeSize
    /\ at = "killed" => Before(i) \cap Signals # {}
    /\ at = "done" =>
          /\ shell = "reaped"
          /\ Before(Len(todo) + 1) \cap Signals = {} =>
                 printed = IF prompt THEN Cardinality(Sent) + 1 ELSE 0
=============================================================================
