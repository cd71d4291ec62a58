-------------------------------- MODULE Rio ---------------------------------
(***************************************************************************)
(* The robust I/O functions of csapp.c, under a caller that reads from a   *)
(* connection and writes back what it read, as echo() of the servers does  *)
(* with rio_readlineb.  read() and write() move any part of what they are  *)
(* asked for, a signal handler may interrupt them, and the peer may reset  *)
(* the connection; the wrappers Rio_* end the process on an error.         *)
(*                                                                         *)
(* A byte is its place in the stream the peer sends, 1 .. N; 0 stands for  *)
(* what was in rio_buf before.                                             *)
(***************************************************************************)
EXTENDS Integers, Sequences, FiniteSetsExt

CONSTANTS
    N,              \* bytes the peer sends before it ends its side
    MaxLine,        \* MAXLINE, the size of the caller's buffer
    ReadSizes,      \* sizes asked of rio_readnb and rio_readn
    BufSize,        \* RIO_BUFSIZE
    Callers,        \* each the set of functions one caller mixes
    MaxInterrupts,  \* bound: signals that interrupt a read or a write
    Faults          \* "reset"

ASSUME Sizes ==
    /\ N \in Nat /\ MaxLine \in Nat \ {0, 1} /\ BufSize \in Nat \ {0}
    /\ ReadSizes \subseteq Nat \ {0} /\ MaxInterrupts \in Nat

\* No caller in the repository reads past rio_buf with rio_readn.
ASSUME CallersOK ==
    \A c \in Callers : "readn" \in c => c \cap {"readlineb", "readnb"} = {}

VARIABLES
    newlines,   \* the bytes that end a line
    caller,     \* the functions the caller uses
    at,         \* the function it is in; "write"; "done", at the end of the stream
    rio_cnt, rio_bufptr, rio_buf,
    pos,        \* the bytes read() has delivered
    usr,        \* what the call has put in the caller's buffer
    nleft,      \* bytes a call has still to read or to write
    got,        \* what each call returned
    sent,       \* what the peer has been sent
    interrupts,
    up

rio == <<rio_cnt, rio_bufptr, rio_buf, pos>>
vars == <<newlines, caller, at, rio, usr, nleft, got, sent, interrupts, up>>

Init ==                             \* rio_readinitb
    /\ newlines \in SUBSET (1 .. N)
    /\ caller \in Callers
    /\ at = "idle"
    /\ rio_cnt = 0 /\ rio_bufptr = 0
    /\ rio_buf = [k \in 0 .. BufSize - 1 |-> 0]
    /\ pos = 0
    /\ usr = <<>> /\ nleft = 0 /\ got = <<>> /\ sent = <<>>
    /\ interrupts = 0
    /\ up = TRUE

-----------------------------------------------------------------------------
(* The caller                                                              *)

Call(f, n) ==
    /\ at = "idle" /\ f \in caller
    /\ at' = f
    /\ usr' = <<>>
    /\ nleft' = n
    /\ UNCHANGED <<newlines, caller, rio, got, sent, interrupts, up>>

CallLine == Call("readlineb", MaxLine - 1)

CallRead(n) == Call("readnb", n) \/ Call("readn", n)

\* The caller stops when it gets nothing, and else writes what it got.
Return(result) ==
    /\ got' = Append(got, result)
    /\ usr' = result
    /\ at' = IF result = <<>> THEN "done" ELSE "write"
    /\ nleft' = Len(result)

-----------------------------------------------------------------------------
(* rio_read(), the refill                                                  *)

Buffered == at \in {"readlineb", "readnb"}

\* A mutant of Refill: the buffer pointer is left where it was.
RefillOnly(k) ==
    /\ Buffered /\ rio_cnt <= 0
    /\ k <= BufSize /\ pos + k <= N
    /\ rio_cnt' = k
    /\ rio_buf' = [b \in DOMAIN rio_buf |-> IF b < k THEN pos + b + 1 ELSE rio_buf[b]]
    /\ pos' = pos + k
    /\ UNCHANGED <<newlines, caller, at, rio_bufptr, usr, nleft, got, sent, interrupts, up>>

Refill(k) ==
    /\ Buffered /\ rio_cnt <= 0
    /\ k <= BufSize /\ pos + k <= N
    /\ rio_cnt' = k
    /\ rio_bufptr' = 0
    /\ rio_buf' = [b \in DOMAIN rio_buf |-> IF b < k THEN pos + b + 1 ELSE rio_buf[b]]
    /\ pos' = pos + k
    /\ UNCHANGED <<newlines, caller, at, usr, nleft, got, sent, interrupts, up>>

RefillInterrupted ==
    /\ Buffered /\ rio_cnt <= 0
    /\ interrupts < MaxInterrupts
    /\ interrupts' = interrupts + 1
    /\ rio_cnt' = -1
    /\ UNCHANGED <<newlines, caller, at, rio_bufptr, rio_buf, pos, usr, nleft, got, sent, up>>

\* A mutant of RefillEOF: a last line without a newline is taken for no line.
RefillEOFNothing ==
    /\ Buffered /\ rio_cnt <= 0 /\ pos = N
    /\ rio_cnt' = 0
    /\ Return(IF at = "readlineb" THEN <<>> ELSE usr)
    /\ UNCHANGED <<newlines, caller, rio_bufptr, rio_buf, pos, sent, interrupts, up>>

\* The end of the stream ends either loop with what there is.
RefillEOF ==
    /\ Buffered /\ rio_cnt <= 0 /\ pos = N
    /\ rio_cnt' = 0
    /\ Return(usr)
    /\ UNCHANGED <<newlines, caller, rio_bufptr, rio_buf, pos, sent, interrupts, up>>

-----------------------------------------------------------------------------
(* rio_read(), the copy, with one turn of its caller's loop                *)

Taken(cnt) == [k \in 1 .. cnt |-> rio_buf[rio_bufptr + k - 1]]

Consume(cnt) ==
    /\ rio_bufptr' = rio_bufptr + cnt
    /\ rio_cnt' = rio_cnt - cnt
    /\ UNCHANGED <<rio_buf, pos>>

KeepReading(result, left) ==
    /\ usr' = result
    /\ nleft' = left
    /\ UNCHANGED <<at, got>>

\* A mutant of CopyByte: the buffer is filled up to the place of its NUL.
CopyByteMore ==
    /\ at = "readlineb" /\ rio_cnt > 0
    /\ Consume(1)
    /\ LET c == rio_buf[rio_bufptr]
       IN  IF c \in newlines \/ nleft = 0 THEN Return(Append(usr, c))
           ELSE KeepReading(Append(usr, c), nleft - 1)
    /\ UNCHANGED <<newlines, caller, sent, interrupts, up>>

CopyByte ==                         \* rio_readlineb
    /\ at = "readlineb" /\ rio_cnt > 0
    /\ Consume(1)
    /\ LET c == rio_buf[rio_bufptr]
       IN  IF c \in newlines \/ nleft = 1 THEN Return(Append(usr, c))
           ELSE KeepReading(Append(usr, c), nleft - 1)
    /\ UNCHANGED <<newlines, caller, sent, interrupts, up>>

CopyBlock ==                        \* rio_readnb
    /\ at = "readnb" /\ rio_cnt > 0
    /\ LET cnt == Min({nleft, rio_cnt})
       IN  /\ Consume(cnt)
           /\ IF cnt = nleft THEN Return(usr \o Taken(cnt))
              ELSE KeepReading(usr \o Taken(cnt), nleft - cnt)
    /\ UNCHANGED <<newlines, caller, sent, interrupts, up>>

-----------------------------------------------------------------------------
(* rio_readn()                                                             *)

ReadInto(k) ==
    /\ at = "readn"
    /\ k <= nleft /\ pos + k <= N
    /\ pos' = pos + k
    /\ LET result == usr \o [b \in 1 .. k |-> pos + b]
       IN  IF k = nleft THEN Return(result) ELSE KeepReading(result, nleft - k)
    /\ UNCHANGED <<newlines, caller, rio_cnt, rio_bufptr, rio_buf, sent, interrupts, up>>

ReadIntoEOF ==
    /\ at = "readn" /\ pos = N
    /\ Return(usr)
    /\ UNCHANGED <<newlines, caller, rio, sent, interrupts, up>>

-----------------------------------------------------------------------------
(* rio_writen()                                                            *)

Write(k) ==
    /\ at = "write" /\ k <= nleft
    /\ LET bufp == Len(usr) - nleft
       IN  sent' = sent \o SubSeq(usr, bufp + 1, bufp + k)
    /\ nleft' = nleft - k
    /\ at' = IF k = nleft THEN "idle" ELSE "write"
    /\ UNCHANGED <<newlines, caller, rio, usr, got, interrupts, up>>

Interrupted ==                      \* nread = 0, nwritten = 0: the loop goes on
    /\ at \in {"readn", "write"}
    /\ interrupts < MaxInterrupts
    /\ interrupts' = interrupts + 1
    /\ UNCHANGED <<newlines, caller, at, rio, usr, nleft, got, sent, up>>

-----------------------------------------------------------------------------

Progress ==
    /\ up
    /\ \/ CallLine
       \/ \E n \in ReadSizes : CallRead(n)
       \/ \E k \in 1 .. N : Refill(k) \/ ReadInto(k) \/ Write(k)
       \/ RefillEOF \/ ReadIntoEOF
       \/ CopyByte \/ CopyBlock

\* unix_error in the wrappers Rio_*.
Reset ==
    /\ up /\ "reset" \in Faults
    /\ at \in {"readn", "write"} \/ (Buffered /\ rio_cnt <= 0)
    /\ up' = FALSE
    /\ UNCHANGED <<newlines, caller, at, rio, usr, nleft, got, sent, interrupts>>

Signal == up /\ (RefillInterrupted \/ Interrupted)

Next == Progress \/ Signal \/ Reset

Spec == Init /\ [][Next]_vars

\* The peer sends all of its bytes and reads what it is sent, and the process
\* runs whenever it can.
FairSpec == Spec /\ WF_vars(Progress)

-----------------------------------------------------------------------------
(* Properties                                                              *)

Reading == Buffered \/ at = "readn"

\* The first byte that no call has returned yet.
NextByte == pos - Max({rio_cnt, 0}) - (IF Reading THEN Len(usr) ELSE 0) + 1

Abstract == INSTANCE ByteStream WITH next <- NextByte

TypeOK ==
    /\ newlines \subseteq 1 .. N
    /\ caller \in Callers
    /\ at \in {"idle", "readlineb", "readnb", "readn", "write", "done"}
    /\ rio_cnt \in -1 .. BufSize
    /\ rio_bufptr \in 0 .. BufSize
    /\ rio_buf \in [0 .. BufSize - 1 -> 0 .. N]
    /\ pos \in 0 .. N
    /\ usr \in Seq(1 .. N) /\ sent \in Seq(1 .. N) /\ got \in Seq(Seq(1 .. N))
    /\ nleft \in Nat
    /\ interrupts \in 0 .. MaxInterrupts
    /\ up \in BOOLEAN

\* Whatever read() and write() made of the stream, rio_buf holds the bytes just
\* before the kernel's, the caller's buffer those before them, and the peer has
\* been sent those before the ones still to be written: none is lost, repeated
\* or out of its place, across short counts, interruptions and calls.
BytesInPlace ==
    LET cnt == Max({rio_cnt, 0})
        unsent == IF at = "write" THEN nleft ELSE 0
    IN  /\ cnt > 0 => rio_bufptr + cnt <= BufSize /\ Taken(cnt) = Abstract!Bytes(pos - cnt + 1, pos)
        /\ Reading => usr = Abstract!Bytes(NextByte, pos - cnt)
        /\ sent = Abstract!Bytes(1, NextByte - 1 - unsent)

\* The bytes, and the counters that say where they are.
ReadInv == TypeOK /\ BytesInPlace

\* Each call returns what it would if the stream came in one piece: a whole line,
\* the number of bytes asked for, or the rest of the stream.
ImplementsStream == Abstract!Spec

\* Every byte comes back to the peer, a last line without a newline too.
EveryByteEchoed == <>(~up \/ (at = "done" /\ Len(sent) = N))
=============================================================================
