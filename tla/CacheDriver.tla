---------------------------- MODULE CacheDriver -----------------------------
(***************************************************************************)
(* driver.py, which marks the cache lab: it runs test-csim, and test-trans *)
(* for the three sizes, and makes points of the numbers in their lines of  *)
(* results.  A program may print no such line.  Points are counted in      *)
(* tenths.                                                                 *)
(***************************************************************************)
EXTENDS Integers, Sequences

CONSTANTS CsimPoints,       \* that test-csim may print
          Misses            \* of a correct function

VARIABLES at,       \* "run", "crash" or "summary"
          got,      \* the numbers found so far, a sequence for each program
          total

vars == <<at, got, total>>

INT_MAX == 2147483647
Tests == <<"32", "64", "61">>

Bounds == [m \in {"32", "64", "61"} |->
    CASE m = "32" -> [lower |-> 300, upper |-> 600, maxscore |-> 8]
      [] m = "64" -> [lower |-> 1300, upper |-> 2000, maxscore |-> 8]
      [] m = "61" -> [lower |-> 2000, upper |-> 3000, maxscore |-> 10]]

\* Rounded to a tenth.
computeMissScore(miss, lower, upper, full_score) ==
    CASE miss <= lower -> 10 * full_score
      [] miss > lower /\ miss >= upper -> 0
      [] OTHER -> (20 * full_score * (upper - miss) + (upper - lower)) \div (2 * (upper - lower))

Init == at = "run" /\ got = <<>> /\ total = 0

\* test-csim: its points come first; test-trans: correct or not, the misses (as many as an
\* int can count when the function is wrong, none when it was stopped by a signal).
Output ==
    IF got = <<>> THEN {<<pts>> : pts \in CsimPoints} \cup {<<>>}
    ELSE ({1} \X Misses) \cup {<<0, INT_MAX>>, <<0, 0>>, <<>>}

Run ==
    /\ at = "run" /\ Len(got) < 4
    /\ \E numbers \in Output : got' = Append(got, numbers)
    /\ UNCHANGED <<at, total>>

Result(n) == got[n + 1]

\* A mutant: as if every function were correct.
ScoreUnchecked(n) ==
    LET b == Bounds[Tests[n]] IN computeMissScore(Result(n)[2], b.lower, b.upper, b.maxscore)

Score(n) ==
    LET b == Bounds[Tests[n]]
    IN  computeMissScore(Result(n)[2], b.lower, b.upper, b.maxscore) * Result(n)[1]

\* resultsim, or a number that is missing, is only seen to be so here.
Summarize ==
    /\ at = "run" /\ Len(got) = 4
    /\ IF \E n \in 1 .. 4 : got[n] = <<>>
       THEN at' = "crash" /\ UNCHANGED total
       ELSE /\ at' = "summary"
            /\ total' = 10 * got[1][1] + Score(1) + Score(2) + Score(3)
    /\ UNCHANGED got

Next == Run \/ Summarize

\* A function that is wrong or was stopped adds nothing, though it may have no misses; a
\* correct one adds the more the fewer misses it has, all within the points there are; a
\* program without a line of results leaves no summary at all.
CacheMarks ==
    /\ at = "crash" <=> (total = 0 /\ at # "run" /\ \E n \in 1 .. 4 : got[n] = <<>>)
    /\ at = "summary" =>
           /\ total <= 10 * (got[1][1] + 8 + 8 + 10)
           /\ (\A n \in 1 .. 3 : Result(n)[1] = 0) => total = 10 * got[1][1]
           /\ \A n \in 1 .. 3 : Result(n)[1] = 1 =>
                  LET b == Bounds[Tests[n]]
                  IN  /\ Result(n)[2] <= b.lower => total >= 10 * (got[1][1] + b.maxscore)
                      /\ \A m \in Misses : m >= Result(n)[2] =>
                             computeMissScore(m, b.lower, b.upper, b.maxscore) <= Score(n)
=============================================================================
