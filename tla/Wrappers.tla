------------------------------ MODULE Wrappers ------------------------------
(***************************************************************************)
(* The wrappers of csapp.c: a program calls one after the other, in place  *)
(* of the functions they are named after, and goes on only while these do  *)
(* not fail.  errno stays from call to call.  Also the signal-safe output  *)
(* of a number.                                                            *)
(***************************************************************************)
EXTENDS Integers, Sequences

CONSTANT Longs      \* the numbers that are printed

VARIABLES at,       \* "running" or "exited"
          errno,
          status,   \* of the exit
          call      \* the last one: [f, test, failed] or [f, v, s]

vars == <<at, errno, status, call>>

EINTR == 4
EINVAL == 22        \* stands for all others

Init == at = "running" /\ errno = 0 /\ status = 0 /\ call = <<>>

-----------------------------------------------------------------------------
(* What each group of wrappers takes for a failure                          *)

Tested(names, test) == names \X {test}

ProcessControl ==
    Tested({"Fork", "Execve", "Wait", "Waitpid", "Kill", "Setpgid"}, "negative")
        \cup Tested({"Pause", "Alarm", "Getpgrp"}, "none") \cup {<<"Sleep", "unsigned">>}

Signals ==
    Tested({"Signal", "Sigprocmask", "Sigemptyset", "Sigfillset", "Sigaddset", "Sigdelset",
            "Sigismember"}, "negative")
        \cup {<<"Sigsuspend", "errno">>}

UnixIO == Tested({"Open", "Read", "Write", "Lseek", "Close", "Select", "Dup2", "Stat", "Fstat"},
                 "negative")

Storage ==
    {<<"Opendir", "null">>, <<"Readdir", "null_and_errno">>, <<"Closedir", "negative">>,
     <<"Mmap", "map_failed">>, <<"Munmap", "negative">>, <<"Free", "none">>}
        \cup Tested({"Malloc", "Realloc", "Calloc"}, "null")

StandardIO ==
    Tested({"Fdopen", "Fopen"}, "null")
        \cup {<<"Fclose", "nonzero">>, <<"Fgets", "null_and_ferror">>, <<"Fputs", "negative">>, \* EOF
              <<"Fread", "short_and_ferror">>, <<"Fwrite", "short">>}

SocketCalls ==
    Tested({"Socket", "Setsockopt", "Bind", "Listen", "Accept", "Connect"}, "negative")
        \cup Tested({"Getaddrinfo", "Getnameinfo"}, "nonzero")
        \cup {<<"Freeaddrinfo", "none">>, <<"Inet_ntop", "null">>, <<"Inet_pton", "not_positive">>}

Names == Tested({"Gethostbyname", "Gethostbyaddr"}, "null")

Threads ==
    Tested({"Pthread_create", "Pthread_cancel", "Pthread_join", "Pthread_detach"}, "nonzero")
        \cup Tested({"Pthread_exit", "Pthread_self", "Pthread_once"}, "none")
        \cup Tested({"Sem_init", "P", "V"}, "negative")

Wrapped == ProcessControl \cup Signals \cup UnixIO \cup Storage \cup StandardIO \cup SocketCalls
               \cup Names \cup Threads

\* -2 stands for NULL, -3 for MAP_FAILED, -4 for a count short of what was asked for.
NULL == -2
MAP_FAILED == -3
SHORT == -4

Cleared(test) == IF test = "null_and_errno" THEN 0 ELSE errno

\* e is errno after the call, and bad what ferror() says.
Fails(test, ret, e, bad) ==
    \/ test = "negative" /\ ret = -1
    \/ test = "nonzero" /\ ret # 0
    \/ test = "not_positive" /\ ret \in {0, -1}
    \/ test = "null" /\ ret = NULL
    \/ test = "null_and_errno" /\ ret = NULL /\ e # 0
    \/ test = "null_and_ferror" /\ ret = NULL /\ bad
    \/ test = "map_failed" /\ ret = MAP_FAILED
    \/ test = "short" /\ ret = SHORT
    \/ test = "short_and_ferror" /\ ret = SHORT /\ bad
    \/ test = "errno" /\ e # EINTR

-----------------------------------------------------------------------------
(* What the functions do, by their manual pages                             *)

PointerTo == {"Opendir", "Malloc", "Realloc", "Calloc", "Fdopen", "Fopen",
              "Inet_ntop", "Gethostbyname", "Gethostbyaddr"}
ErrorCode == {"Pthread_create", "Pthread_cancel", "Pthread_join", "Pthread_detach", "Pthread_once",
              "Getaddrinfo", "Getnameinfo"}
NoError == {"Alarm", "Getpgrp", "Free", "Freeaddrinfo", "Pthread_exit", "Pthread_self", "Sleep"}

Outcome(ret, failed) == [ret |-> ret, failed |-> failed]

\* A directory, a line or a count may also come to its end, without a failure.
Outcomes(f) ==
    CASE f \in PointerTo -> {Outcome(1, FALSE), Outcome(NULL, TRUE)}
      [] f \in {"Readdir", "Fgets"} -> {Outcome(1, FALSE)} \cup {Outcome(NULL, failed) : failed \in BOOLEAN}
      [] f = "Fread" -> {Outcome(1, FALSE)} \cup {Outcome(SHORT, failed) : failed \in BOOLEAN}
      [] f = "Fwrite" -> {Outcome(1, FALSE), Outcome(SHORT, TRUE)}
      [] f = "Mmap" -> {Outcome(1, FALSE), Outcome(MAP_FAILED, TRUE)}
      [] f \in ErrorCode -> {Outcome(0, FALSE), Outcome(EINVAL, TRUE)}
      [] f \in NoError -> {Outcome(0, FALSE), Outcome(7, FALSE)}
      [] f = "Pause" -> {Outcome(-1, FALSE)}
      [] f = "Sigsuspend" -> {Outcome(-1, failed) : failed \in BOOLEAN}
      [] f = "Fclose" -> {Outcome(0, FALSE), Outcome(-1, TRUE)}
      [] f = "Inet_pton" -> {Outcome(1, FALSE), Outcome(0, TRUE), Outcome(-1, TRUE)}
      [] OTHER -> {Outcome(0, FALSE), Outcome(1, FALSE), Outcome(-1, TRUE)}

\* A call that succeeds may change errno too, but for readdir; a signal ends sigsuspend and pause.
ErrnoAfter(f, failed, before) ==
    CASE f \in {"Sigsuspend", "Pause"} /\ ~failed -> {EINTR}
      [] f \in {"Sigsuspend", "Readdir"} /\ failed -> {EINVAL}
      [] f = "Readdir" /\ ~failed -> {before}
      [] f \notin {"Sigsuspend", "Pause", "Readdir"} ->
             IF failed THEN {EINTR, EINVAL} ELSE {before, EINVAL}

-----------------------------------------------------------------------------
\* unix_error, posix_error, gai_error, app_error and dns_error end the program alike.
Call(f, test) ==
    /\ at = "running"
    /\ \E o \in Outcomes(f) :
        /\ errno' \in ErrnoAfter(f, o.failed, Cleared(test))
        /\ call' = [f |-> f, test |-> test, failed |-> o.failed]
        /\ at' = IF Fails(test, o.ret, errno', o.failed) THEN "exited" ELSE at
    /\ status' = 0

\* sio_ltoa(): the chars of v, the last digit first, by division as long as the quotient is
\* positive; then they are turned round.  C's remainder has the sign of v.
Rem(v) == IF v < 0 THEN -((-v) % 10) ELSE v % 10
Quotient(v) == IF v < 0 THEN -((-v) \div 10) ELSE v \div 10
Zero == 48

sio_reverse(s) == [j \in DOMAIN s |-> s[Len(s) + 1 - j]]

sio_ltoa(v) ==
    LET digits[n \in 0 .. 20] ==       \* a long has no more
            IF n = 0 THEN [v |-> Quotient(v), s |-> <<Zero + Rem(v)>>]
            ELSE LET d == digits[n - 1]
                 IN  IF d.v > 0 THEN [v |-> Quotient(d.v), s |-> Append(d.s, Zero + Rem(d.v))] ELSE d
    IN  sio_reverse(digits[20].s)

\* Sio_putl(): a write that fails ends the program with a status of its own.
Sio_putl(v, ret) ==
    /\ at = "running"
    /\ call' = [f |-> "Sio_putl", v |-> v, s |-> sio_ltoa(v)]
    /\ IF ret < 0 THEN at' = "exited" /\ status' = 1 /\ errno' \in {EINTR, EINVAL}
       ELSE UNCHANGED <<at, errno, status>>

Next ==
    \/ \E w \in Wrapped : Call(w[1], w[2])
    \/ \E v \in Longs, ret \in {-1, 1} : Sio_putl(v, ret)

-----------------------------------------------------------------------------
\* A wrapper that tests for a failure ends the program when its function has failed, and only
\* then: whatever the function uses to tell, and whatever calls before it have left in errno.
FailuresEnd == call # <<>> /\ call.f # "Sio_putl" =>
    /\ at = "exited" => call.failed
    /\ call.test # "none" /\ call.failed => at = "exited"

\* A number that is not negative can be read back from what is printed of it. Of a negative
\* one, a single char is printed, which is a digit for a multiple of ten only.
Digits == Zero .. Zero + 9
Value(s) == LET value[n \in 0 .. Len(s)] == IF n = 0 THEN 0 ELSE 10 * value[n - 1] + (s[n] - Zero)
            IN  value[Len(s)]

Printed == call # <<>> /\ call.f = "Sio_putl" =>
    IF call.v >= 0
    THEN /\ \A n \in DOMAIN call.s : call.s[n] \in Digits
         /\ Value(call.s) = call.v /\ (Len(call.s) > 1 => call.s[1] # Zero)
    ELSE Len(call.s) = 1 /\ (call.s[1] \in Digits <=> call.v % 10 = 0)

=============================================================================
