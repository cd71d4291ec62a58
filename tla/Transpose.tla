----------------------------- MODULE Transpose ------------------------------
(***************************************************************************)
(* The transpose functions of trans.c and the program that marks them,     *)
(* test-trans.c: tracegen runs and validates each, and a simulated cache   *)
(* counts the misses of the accesses it has made.                          *)
(*                                                                         *)
(* A matrix is a function of byte offsets in its array, as in memory; A    *)
(* holds its own offsets.                                                  *)
(***************************************************************************)
EXTENDS CacheLines, SequencesExt

CONSTANTS Sizes,        \* <<M, N>>: of the command line
          AddrA, AddrB, \* of the arrays of tracegen.c
          Statics       \* <<...>>: what else is read or written in the low memory

VARIABLES at, M, N,
    i,          \* the function of func_list that is tried
    n,          \* the strips of it that have been run
    B, sim,     \* the result so far, and the cache that sees the accesses
    exit,       \* tracegen's status for the last function
    results     \* [funcid, correct, misses]

vars == <<at, M, N, i, n, B, sim, exit, results>>

INT_MAX == 2147483647
MAXN == 256

Init ==
    /\ at = "eval_perf"
    /\ \E size \in Sizes : M = size[1] /\ N = size[2]
    /\ M \in 1 .. MAXN /\ N \in 1 .. MAXN
    /\ i = 0 /\ n = 0 /\ B = <<>> /\ sim = <<>> /\ exit = 0
    /\ results = [funcid |-> -1, correct |-> 0, misses |-> INT_MAX]

-----------------------------------------------------------------------------
(* trans.c: a function is a number of strips, and the t-th of them, counting *)
(* from 0: A[k][j .. j+w-1] is read into locals, which are then written to   *)
(* B[j .. j+w-1][k]                                                          *)

Strip(k, j, w) == [k |-> k, j |-> j, w |-> w]

\* A mutant: place by place, without blocks.
SquareUnblocked(side) ==
    [count |-> M * N, at |-> [t \in 0 .. M * N |-> Strip(t \div M, t % M, 1)]]

\* Blocks as wide as their locals, block row by block row; M strips in each.
Square(side) ==
    [count |-> (M * N) \div side,
     at |-> [t \in 0 .. M * N |->
        Strip(side * (t \div M) + (t % side), side * ((t % M) \div side), side)]]

\* The blocks of 16 by 16 with i + 16 < N and j + 16 < M.
Blocks61x67 == [across |-> (M - 1) \div 16, down |-> (N - 1) \div 16]

\* The blocks, each row of one in two halves; then what is left of the rows below them,
\* and of the columns beyond them.
Size61x67 ==
    LET blocks == Blocks61x67.across * Blocks61x67.down * 32
        below == M * (N - 16 * Blocks61x67.down)
        beyond == M - 16 * Blocks61x67.across
        Block(t) == t \div 32
    IN  [count |-> blocks + below + beyond * 16 * Blocks61x67.down,
         at |-> [t \in 0 .. M * N |->
            CASE t < blocks ->
                     Strip(16 * (Block(t) \div Blocks61x67.across) + (t % 32) \div 2,
                           16 * (Block(t) % Blocks61x67.across) + 8 * (t % 2), 8)
              [] t >= blocks /\ t < blocks + below ->
                     LET r == t - blocks IN Strip(16 * Blocks61x67.down + r \div M, r % M, 1)
              [] OTHER ->
                     LET r == t - blocks - below
                     IN  Strip(r \div beyond, 16 * Blocks61x67.across + (r % beyond), 1)]]

transpose_submit ==
    CASE M = 32 /\ N = 32 -> Square(8)
      [] M = 64 /\ N = 64 -> Square(4)
      [] M = 61 /\ N = 67 -> Size61x67
      [] OTHER -> [count |-> 0, at |-> <<>>]

trans == [count |-> M * N, at |-> [t \in 0 .. M * N |-> Strip(t \div M, t % M, 1)]]

func_list == <<transpose_submit, trans>>        \* registerFunctions()

-----------------------------------------------------------------------------
(* tracegen.c, test-trans.c                                                 *)

OffA(k, j) == 4 * (k * M + j)
OffB(j, k) == 4 * (j * N + k)

Locals(s) == [d \in 1 .. s.w |-> s.j + d - 1]

\* A strip's writes, and its accesses: all its reads come first.
Write(s, b) == FoldLeft(LAMBDA c, j : [c EXCEPT ![OffB(j, s.k)] = OffA(s.k, j)], b, Locals(s))
Accesses(s) == [d \in 1 .. s.w |-> AddrA + OffA(s.k, Locals(s)[d])]
                   \o [d \in 1 .. s.w |-> AddrB + OffB(Locals(s)[d], s.k)]

Geometry == [s |-> 5, E |-> 1, b |-> 5]
Simulate(addresses, c) == FoldLeft(LAMBDA d, a : process(Geometry, d, a), c, addresses)

\* tracegen starts: B holds random numbers.
Start ==
    /\ at = "eval_perf" /\ i < Len(func_list)
    /\ at' = "tracegen" /\ n' = 0
    /\ B' = [c \in {4 * d : d \in 0 .. M * N - 1} |-> -1]
    /\ sim' = init_cache(Geometry)
    /\ UNCHANGED <<M, N, i, exit, results>>

Copy ==
    LET f == func_list[i + 1]
    IN  /\ at = "tracegen" /\ n < f.count
        /\ n' = n + 1
        /\ B' = Write(f.at[n], B)
        /\ sim' = Simulate((IF n = 0 THEN Statics ELSE <<>>) \o Accesses(f.at[n]), sim)
        /\ UNCHANGED <<at, M, N, i, exit, results>>

\* is_transpose() and validate(): B[j][k] = A[k][j] everywhere.
validate == \A k \in 0 .. N - 1, j \in 0 .. M - 1 : B[OffB(j, k)] = OffA(k, j)

\* The rest of eval_perf()'s round: a function that fails the validation is passed
\* over; that of the submission is remembered.
Evaluate ==
    /\ at = "tracegen" /\ n = func_list[i + 1].count
    /\ at' = "eval_perf" /\ i' = i + 1 /\ B' = <<>>
    /\ exit' = IF validate THEN 0 ELSE i + 1
    /\ results' = CASE i > 0 -> results
                    [] i = 0 /\ ~validate -> [results EXCEPT !.funcid = i]
                    [] i = 0 /\ validate -> [funcid |-> i, correct |-> 1, misses |-> sim.misses]
    /\ UNCHANGED <<M, N, n, sim>>

Report ==
    /\ at = "eval_perf" /\ i = Len(func_list)
    /\ at' = "TEST_TRANS_RESULTS"
    /\ UNCHANGED <<M, N, i, n, B, sim, exit, results>>

\* sigalrm_handler(), after two minutes.
Alarm ==
    /\ at # "TEST_TRANS_RESULTS"
    /\ at' = "TEST_TRANS_RESULTS" /\ results' = [funcid |-> -1, correct |-> 0, misses |-> 0]
    /\ i' = 0 /\ n' = 0 /\ B' = <<>> /\ sim' = <<>> /\ exit' = 0
    /\ UNCHANGED <<M, N>>

Next == Start \/ Copy \/ Evaluate \/ Report \/ Alarm

\* The submission is a transpose for the three sizes it is marked for, and misses the
\* cache less often than driver.py wants for all points (32 x 32 and 61 x 67), or for
\* any (64 x 64); for every other size, and when the time is up, it is reported as wrong.
TransResults == (at = "TEST_TRANS_RESULTS" /\ results # [funcid |-> -1, correct |-> 0, misses |-> 0]) =>
    /\ results.funcid = 0 /\ exit = 0
    /\ IF <<M, N>> \in {<<32, 32>>, <<64, 64>>, <<61, 67>>}
       THEN results.correct = 1 /\ results.misses < (IF M = 32 THEN 300 ELSE 2000)
       ELSE results.correct = 0 /\ results.misses = INT_MAX
=============================================================================
