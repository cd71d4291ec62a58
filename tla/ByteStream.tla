----------------------------- MODULE ByteStream -----------------------------
(***************************************************************************)
(* What the reading functions of csapp.c promise their caller: the bytes   *)
(* of a stream in order, each once, a line or a number of them at a time,  *)
(* fewer only where the stream ends.  How the kernel cuts the stream into  *)
(* the results of read() does not show.                                    *)
(*                                                                         *)
(* A byte is its place in the stream, 1 .. N.                              *)
(***************************************************************************)
EXTENDS Integers, Sequences, FiniteSetsExt

CONSTANTS
    N,          \* length of the stream
    MaxLine,    \* the caller's buffer for a line, with its final NUL
    ReadSizes   \* how many bytes a caller asks for

VARIABLES
    newlines,   \* the bytes that end a line
    next,       \* the first byte not yet returned
    got         \* what each call returned

vars == <<newlines, next, got>>

Bytes(a, b) == [k \in 1 .. b - a + 1 |-> a + k - 1]

LineEnd == Min({b \in next .. N : b \in newlines \/ b = next + MaxLine - 2} \cup {N})

Init == newlines \in SUBSET (1 .. N) /\ next = 1 /\ got = <<>>

Return(b) ==
    /\ got' = Append(got, Bytes(next, b))
    /\ next' = b + 1
    /\ UNCHANGED newlines

ReadLine == Return(LineEnd)

Read(n) == Return(Min({next + n - 1, N}))

Next == ReadLine \/ \E n \in ReadSizes : Read(n)

Spec == Init /\ [][Next]_vars
=============================================================================
