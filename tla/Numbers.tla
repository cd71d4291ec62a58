------------------------------ MODULE Numbers -------------------------------
(***************************************************************************)
(* The command lines of fshow.c, ishow.c and btest.c: what their           *)
(* get_num_val()s make of an argument, and what is shown of it.  A word is *)
(* a number below 2^FLOAT_SIZE; the sizes are small.                       *)
(***************************************************************************)
EXTENDS Integers, Sequences, SequencesExt

CONSTANTS FRAC_SIZE, EXP_SIZE,
          Numerals,     \* [float, whole, int, bits]
          MaxArgs       \* bound: arguments

\* float: it has a ".", or an "e" that no "x" precedes; whole: all of it is a number of that
\* kind; int: what strtoll() finds at its start, 0 for none; bits: of the float strtof()
\* finds.
FLOAT_SIZE == 1 + EXP_SIZE + FRAC_SIZE
FloatMod == 2^FLOAT_SIZE
BIAS == 2^(EXP_SIZE - 1) - 1
EXP_MASK == 2^EXP_SIZE - 1
FracMod == 2^FRAC_SIZE

VARIABLES at,       \* "main" or "exit"
          which,    \* the program
          argv, i,  \* its arguments and how many of them it has seen
          shown,    \* what it has printed or taken of each: <<>> for a complaint
          argval    \* of btest, which is given one option all the time

vars == <<at, which, argv, i, shown, argval>>

Init ==
    /\ at = "main" /\ which \in {"fshow", "ishow", "btest"}
    /\ argv \in SeqOf(Numerals, MaxArgs)
    /\ i = 0 /\ shown = <<>> /\ argval = 0

-----------------------------------------------------------------------------

\* Neither too small for a signed nor too large for an unsigned word; what follows the
\* digits is not looked at.
upperbits(llval) == llval \div 2^(FLOAT_SIZE - 1)
Fits(arg) == upperbits(arg.int) \in {0, -1, 1}

\* The value; -1 when the argument is refused. A float is out of place for ishow, and
\* btest wants nothing to be there yet, where the others ask if there is a place for it.
FloatVal(arg) == IF arg.whole THEN arg.bits ELSE -1
IntVal(arg) == IF Fits(arg) THEN arg.int % FloatMod ELSE -1

fshow_num_val(arg) == IF arg.float THEN FloatVal(arg) ELSE IntVal(arg)
ishow_num_val(arg) == IF arg.float THEN -1 ELSE IntVal(arg)
btest_num_val(arg) == CASE arg.float -> FloatVal(arg)
                        [] ~arg.float /\ argval = 0 -> IntVal(arg)
                        [] OTHER -> -1

get_exp(uf) == (uf \div FracMod) % (EXP_MASK + 1)
get_frac(uf) == uf % FracMod
get_sign(uf) == uf \div 2^(FLOAT_SIZE - 1)

\* A mutant: a denormalised number has the exponent 0 - BIAS.
show_float_denorm(uf) ==
    [sign |-> get_sign(uf),
     kind |-> IF get_exp(uf) = 0 THEN "Denormalized" ELSE "Normalized",
     mantissa |-> get_frac(uf) + (IF get_exp(uf) = 0 THEN 0 ELSE FracMod),
     uexp |-> get_exp(uf) - BIAS]

\* The mantissa in units of 2^-FRAC_SIZE.
show_float(uf) ==
    LET denorm == get_exp(uf) = 0
    IN  [sign |-> get_sign(uf),
         kind |-> CASE get_exp(uf) = EXP_MASK -> IF get_frac(uf) = 0 THEN "Infinity" ELSE "NaN"
                    [] denorm -> "Denormalized"
                    [] OTHER -> "Normalized",
         mantissa |-> get_frac(uf) + (IF denorm THEN 0 ELSE FracMod),
         uexp |-> IF denorm THEN 1 - BIAS ELSE get_exp(uf) - BIAS]

show_int(uf) == [signed |-> IF uf >= FloatMod \div 2 THEN uf - FloatMod ELSE uf, unsigned |-> uf]

\* fshow ends with the first argument it refuses, as btest does; ishow goes on.
See(out, ends) ==
    /\ at = "main" /\ i < Len(argv) /\ i' = i + 1
    /\ shown' = Append(shown, out)
    /\ at' = IF ends THEN "exit" ELSE at
    /\ UNCHANGED <<which, argv>>

ShowFloat ==
    LET uf == fshow_num_val(argv[i + 1])
    IN  /\ which = "fshow"
        /\ See(IF uf = -1 THEN <<>> ELSE <<show_float(uf)>>, uf = -1)
        /\ UNCHANGED argval

ShowInt ==
    LET uf == ishow_num_val(argv[i + 1])
    IN  /\ which = "ishow"
        /\ See(IF uf = -1 THEN <<>> ELSE <<show_int(uf)>>, FALSE)
        /\ UNCHANGED argval

TakeOption ==
    LET uf == btest_num_val(argv[i + 1])
    IN  /\ which = "btest"
        /\ See(IF uf = -1 THEN <<>> ELSE <<uf>>, uf = -1)
        /\ argval' = IF uf = -1 THEN argval ELSE uf

End ==
    /\ at = "main" /\ i = Len(argv) /\ at' = "exit"
    /\ UNCHANGED <<which, argv, i, shown, argval>>

Next == ShowFloat \/ ShowInt \/ TakeOption \/ End

-----------------------------------------------------------------------------

\* The values of the patterns from 0 upwards, in units of the smallest: each is the one
\* before and the step of its own exponent.
ValueOf[uf \in 0 .. EXP_MASK * FracMod] ==
    IF uf = 0 THEN 0
    ELSE ValueOf[uf - 1] + 2^(IF get_exp(uf - 1) = 0 THEN 0 ELSE get_exp(uf - 1) - 1)

\* fshow: the float shown has the value that its bits have when floats are counted upwards;
\* ishow: the number shown is the one typed; btest: the value of an option is the last one
\* given, and a second one is refused unless the first was 0 or it is a float.
Right(arg, out) ==
    CASE which = "fshow" ->
             LET uf == IF arg.float THEN arg.bits ELSE arg.int % FloatMod
                 magnitude == uf % (FloatMod \div 2)
             IN  /\ out.sign = (IF uf = magnitude THEN 0 ELSE 1)
                 /\ (out.kind = "NaN") = (magnitude > EXP_MASK * FracMod)
                 /\ out.kind # "NaN" =>
                        out.mantissa * 2^(out.uexp + BIAS) = 2 * ValueOf[magnitude]
      [] which = "ishow" -> ~arg.float /\ arg.int \in {out.signed, out.unsigned}
      [] which = "btest" -> out = IF arg.float THEN arg.bits ELSE arg.int % FloatMod

NumbersShown ==
    /\ \A n \in DOMAIN shown : shown[n] # <<>> => Right(argv[n], shown[n][1])
    /\ at = "exit" /\ which = "ishow" => Len(shown) = Len(argv)
    /\ which = "btest" => \A n \in 2 .. Len(shown) :
           shown[n] # <<>> /\ ~argv[n].float => shown[n - 1] = <<0>>
    /\ \A n \in DOMAIN shown :
           shown[n] = <<>> /\ ~argv[n].float => ~Fits(argv[n]) \/ (which = "btest" /\ n > 1)
=============================================================================
