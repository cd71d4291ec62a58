------------------------------ MODULE Puzzles -------------------------------
(***************************************************************************)
(* The bit puzzles of bits.c, and btest.c, which runs each on chosen       *)
(* arguments against the reference of tests.c until one fails or the time  *)
(* is up.  A word is the set of the places of its ones.                    *)
(***************************************************************************)
EXTENDS Integers, Sequences, FiniteSets, FiniteSetsExt, SequencesExt

CONSTANTS TEST_RANGE,       \* values on either side of a boundary
          Randoms,          \* ints that rand() may hit on
          Probes,           \* ints that btest does not try
          Garbage,          \* words that an uninitialised local may hold
          MaxTimeouts       \* bound: tests that run out of time

VARIABLES at,       \* "run_tests", "done" or "undefined"
          i,        \* the puzzles of test_set that have been tested
          random, garbage,      \* of this run: rand() is not seeded
          armed,    \* the alarm of the last one is still to go off
          failed,   \* the puzzles with an error
          timedOut  \* some of them because their time was up

vars == <<at, i, random, garbage, armed, failed, timedOut>>
seed == <<random, garbage>>

-----------------------------------------------------------------------------
(* The machine's words                                                      *)

Places == 0 .. 31
TMax == 2147483647
TMin == -TMax - 1

Word(n) == {p \in 0 .. 30 : (n \div 2^p) % 2 = 1} \cup (IF n < 0 THEN {31} ELSE {})
Signed(x) == LET low == MapThenSumSet(LAMBDA p : 2^p, x \ {31})
          IN  IF 31 \in x THEN low + TMin ELSE low
Bool(p) == IF p THEN {0} ELSE {}

Not(x) == Places \ x
Xor(x, y) == (x \cup y) \ (x \cap y)
Shl(x, n) == {p + n : p \in x} \cap Places
Sar(x, n) == {p \in Places : Min({p + n, 31}) \in x}
Add(x, y) ==
    LET carry[p \in Places] ==
            p > 0 /\ (p - 1 \in x \cap y \/ (p - 1 \in x \cup y /\ carry[p - 1]))
    IN  {p \in Places : (p \in Xor(x, y)) # carry[p]}

Magnitude(x) == IF 31 \in x THEN Add(Not(x), {0}) ELSE x

\* A magnitude as a float holds it: 24 places, rounded to the nearest, or to even.
Rounded(m) ==
    LET d == IF m = {} THEN 0 ELSE Max({Max(m) - 23, 0})
        kept == {p \in m : p >= d}
        rest == m \ kept
    IN  IF d - 1 \in rest /\ (rest # {d - 1} \/ d \in kept) THEN Add(kept, {d}) ELSE kept

Exponent == 23 .. 30
NaN(uf) == Exponent \subseteq uf /\ \E p \in 0 .. 22 : p \in uf

-----------------------------------------------------------------------------
(* bits.c: from words to words                                              *)

bitAnd(x, y) == Not(Not(x) \cup Not(y))

getByte(x, n) == Sar(x, Signed(Shl(n, 3))) \cap Word(255)

logicalShift(x, n) == Sar(x, Signed(n)) \cap Not(Shl(Sar({31}, Signed(n)), 1))

bitCount(x) ==
    LET ones == {p \in Places : p % 4 = 0}
        nibbles == Add(Add(Add(x \cap ones, Sar(x, 1) \cap ones), Sar(x, 2) \cap ones),
                       Sar(x, 3) \cap ones)
        halves == Add(nibbles \cap 0 .. 15, Sar(nibbles, 16))
        low == {p \in 0 .. 15 : p % 8 < 4}
        bytes == Add(Sar(halves, 4) \cap low, halves \cap low)
    IN  Add(Sar(bytes, 8), bytes \cap 0 .. 7)

bang(x) == Sar(Not(x \cup Add(x, Not({31}))), 31) \cap {0}

tmin == {31}

fitsBits(x, n) == LET high == Sar(x, Signed(Add(Add(n, Not({0})), {0})))
                  IN  Bool(high = {} \/ Not(high) = {})

divpwr2(x, n) ==
    LET mask == Sar({31} \cap x, 31)
        bias == Add(Add(Shl({0}, Signed(n)), Not({0})), {0}) \cap mask
    IN  Sar(Add(bias, x), Signed(n))

negate(x) == Add(Not(x), {0})

isPositive(x) == Bool(x \cap {31} = {} /\ x # {})

isLessOrEqual(x, y) ==
    LET sub == Add(Add(Not(x), {0}), y)
    IN  Bool(\/ 31 \in x /\ 31 \notin y
             \/ 31 \notin sub /\ (31 \in x) = (31 \in y))

\* result is not initialised.
ilog2(x, result) ==
    FoldLeft(LAMBDA r, n : IF Sar(r.x, n) # {} THEN [x |-> Sar(r.x, n), result |-> Add(r.result, Word(n))]
                           ELSE r,
             [x |-> x, result |-> result], <<16, 8, 4, 2, 1>>).result

\* A mutant: of the NaNs, only the one that btest tries is returned as it is.
float_neg_quiet(uf) == IF uf \ {31} = Word(2143289344) THEN uf ELSE Xor(uf, {31})

float_neg(uf) == IF Shl(uf, 9) # {} /\ Not(Sar(uf \cup {31}, 23)) = {} THEN uf ELSE Xor(uf, {31})

\* The float's value as an unsigned, not its bits (of a negative one, as the x86 does it).
float_i2f(x) == IF 31 \in x THEN negate(Rounded(Magnitude(x))) ELSE Rounded(x)

float_twice(uf) == uf

-----------------------------------------------------------------------------
(* tests.c                                                                  *)

test_i2f(x) ==
    LET r == Rounded(Magnitude(x))
        e == Max(r)
    IN  IF x = {} THEN {}
        ELSE (x \cap {31}) \cup Shl(Word(127 + e), 23) \cup {p + 23 - e : p \in {p \in r : p < e /\ p + 23 >= e}}

test_twice(uf) ==
    CASE Exponent \subseteq uf -> uf                                    \* infinite, or no number
      [] Exponent \cap uf = {} -> (uf \cap {31}) \cup Shl(uf, 1)        \* denormalised
      [] Exponent \cap uf = Exponent \ {23} -> (uf \cap {31}) \cup Exponent
      [] OTHER -> Add(uf, {23})

Truncated(n, d) == IF n < 0 /\ n % d # 0 THEN n \div d + 1 ELSE n \div d

Solution(name, x, y) ==
    CASE name = "bitAnd" -> bitAnd(x, y)
      [] name = "getByte" -> getByte(x, y)
      [] name = "logicalShift" -> logicalShift(x, y)
      [] name = "bitCount" -> bitCount(x)
      [] name = "bang" -> bang(x)
      [] name = "tmin" -> tmin
      [] name = "fitsBits" -> fitsBits(x, y)
      [] name = "divpwr2" -> divpwr2(x, y)
      [] name = "negate" -> negate(x)
      [] name = "isPositive" -> isPositive(x)
      [] name = "isLessOrEqual" -> isLessOrEqual(x, y)
      [] name = "ilog2" -> ilog2(x, garbage)
      [] name = "float_neg" -> float_neg(x)
      [] name = "float_i2f" -> float_i2f(x)
      [] name = "float_twice" -> float_twice(x)

\* 1 << 31 and what is subtracted from it wrap in fitsBits.
Reference(name, x, y) ==
    CASE name = "bitAnd" -> x \cap y
      [] name = "getByte" -> {p \in 0 .. 7 : p + 8 * Signed(y) \in x}
      [] name = "logicalShift" -> {p \in Places : p + Signed(y) \in x}
      [] name = "bitCount" -> Word(Cardinality(x))
      [] name = "bang" -> Bool(x = {})
      [] name = "tmin" -> {31}
      [] name = "fitsBits" ->
             Bool(Signed(y) = 32 \/ Signed(x) \in -(2^(Signed(y) - 1)) .. 2^(Signed(y) - 1) - 1)
      [] name = "divpwr2" -> Word(Truncated(Signed(x), 2^Signed(y)))
      [] name = "negate" -> Add(Not(x), {0})
      [] name = "isPositive" -> Bool(Signed(x) > 0)
      [] name = "isLessOrEqual" -> Bool(Signed(x) <= Signed(y))
      [] name = "ilog2" -> Word(Max(x))
      [] name = "float_neg" -> IF NaN(x) THEN x ELSE Xor(x, {31})
      [] name = "float_i2f" -> test_i2f(x)
      [] name = "float_twice" -> test_twice(x)

-----------------------------------------------------------------------------
(* btest.c                                                                  *)

Test(name, args, from, to) == [name |-> name, args |-> args, min |-> from, max |-> to]

test_set == <<                      \* decl.c: the range of the last argument
    Test("bitAnd", 2, TMin, TMax), Test("getByte", 2, 0, 3), Test("logicalShift", 2, 0, 31),
    Test("bitCount", 1, TMin, TMax), Test("bang", 1, TMin, TMax), Test("tmin", 0, TMin, TMax),
    Test("fitsBits", 2, 1, 32), Test("divpwr2", 2, 0, 30), Test("negate", 1, TMin, TMax),
    Test("isPositive", 1, TMin, TMax), Test("isLessOrEqual", 2, TMin, TMax),
    Test("ilog2", 1, 1, TMax), Test("float_neg", 1, 1, 1), Test("float_i2f", 1, 1, 1),
    Test("float_twice", 1, 1, 1)>>

Range2 == Max({r \in 1 .. TEST_RANGE : r * r <= TEST_RANGE})

Around(n, range) == {Word(n + d) : d \in -range + 1 .. range - 1}

\* Around zero, the smallest normal number and one, below the largest power; infinity
\* and NaN; each of either sign.
FloatVals(range) ==
    LET one == 1065353216
        largest_norm == 2130706432
        vals == {Word(d) : d \in 0 .. range - 1} \cup Around(2^23, range) \cup Around(one, range)
                    \cup {Word(largest_norm - d) : d \in 0 .. range - 1}
                    \cup {Word(2139095040), Word(2143289344)}
    IN  vals \cup {v \cup {31} : v \in vals}

\* Every value of a small range; else those at its ends, around zero, and a random one.
gen_vals(min, max, range) ==
    IF min = 1 /\ max = 1 THEN FloatVals(range)
    ELSE IF max - 13 * TEST_RANGE <= min THEN {Word(n) : n \in min .. max}
    ELSE {Word(min + d) : d \in 0 .. range - 1} \cup {Word(max - d) : d \in 0 .. range - 1}
            \cup {Word(n) : n \in {n \in {random} \cup -range + 1 .. range - 1 :
                                                min <= n /\ n <= max}}

Args(t) ==
    CASE t.args = 0 -> {<<{}, {}>>}
      [] t.args = 1 -> gen_vals(t.min, t.max, TEST_RANGE) \X {{}}
      [] t.args = 2 -> gen_vals(TMin, TMax, Range2) \X gen_vals(t.min, t.max, Range2)

Init ==
    /\ at = "run_tests" /\ i = 0
    /\ random \in Randoms /\ garbage \in Garbage
    /\ armed = FALSE /\ failed = {} /\ timedOut = {}

\* test_function() runs to its end; the alarm it has set stays.
test_function ==
    LET t == test_set[i + 1]
    IN  /\ at = "run_tests" /\ i < Len(test_set)
        /\ failed' = failed \cup {t.name : a \in {a \in Args(t) :
                          Solution(t.name, a[1], a[2]) # Reference(t.name, a[1], a[2])}}
        /\ i' = i + 1 /\ armed' = TRUE
        /\ UNCHANGED <<at, seed, timedOut>>

\* The alarm goes off in a test: back to its sigsetjmp, one error.
timeout_handler ==
    /\ at = "run_tests" /\ i < Len(test_set) /\ Cardinality(timedOut) < MaxTimeouts
    /\ failed' = failed \cup {test_set[i + 1].name}
    /\ timedOut' = timedOut \cup {test_set[i + 1].name}
    /\ i' = i + 1 /\ armed' = FALSE
    /\ UNCHANGED <<at, seed>>

\* It goes off after the test has returned: the jump is into a frame that is gone.
LateAlarm ==
    /\ at = "run_tests" /\ armed
    /\ at' = "undefined"
    /\ UNCHANGED <<i, seed, armed, failed, timedOut>>

Finish ==
    /\ at = "run_tests" /\ i = Len(test_set)
    /\ at' = "done"
    /\ UNCHANGED <<i, seed, armed, failed, timedOut>>

Next == test_function \/ timeout_handler \/ LateAlarm \/ Finish

Spec == Init /\ [][Next]_vars

-----------------------------------------------------------------------------
(* Properties                                                               *)

\* Arguments of a puzzle that btest need not have tried: every one of a small range.
Probed(t) ==
    LET last == IF t.min = t.max THEN Probes
                ELSE IF t.max < t.min + 32 THEN t.min .. t.max
                ELSE {n \in Probes : t.min <= n /\ n <= t.max}
    IN  CASE t.args = 0 -> {<<{}, {}>>}
          [] t.args = 1 -> {Word(n) : n \in last} \X {{}}
          [] t.args = 2 -> {Word(n) : n \in Probes} \X {Word(n) : n \in last}

\* A puzzle in which btest finds no error returns what its comment says of other words, too.
PuzzlesScored == at = "done" =>
    \A n \in DOMAIN test_set : test_set[n].name \notin failed =>
        \A a \in Probed(test_set[n]) :
            Solution(test_set[n].name, a[1], a[2]) = Reference(test_set[n].name, a[1], a[2])

\* What the comments of bits.c say: every puzzle returns what it is to return, so that btest
\* finds no error in one that is tested in time.  It fails of three of them.
AsCommented == at = "done" => failed \subseteq timedOut
=============================================================================
