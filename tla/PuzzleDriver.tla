---------------------------- MODULE PuzzleDriver ----------------------------
(***************************************************************************)
(* driver.pl, which marks the bit puzzles: btest tries a copy of bits.c in *)
(* which dlc has emptied the functions that break the coding rules, then   *)
(* one in which those with too many operators are empty too, and the       *)
(* driver reads the points out of what btest has printed and, for a        *)
(* nickname, sends them to a server (Driverlib.pm).                        *)
(***************************************************************************)
EXTENDS Naturals, Sequences, SequencesExt, FiniteSets, FiniteSetsExt

CONSTANTS Functions,        \* of bits.c: [name, rating, correct, legal, within] sequences
          Nicknames,        \* [length, legal, blank]
          MaxTimeouts       \* bound: functions for which the time of btest is up

VARIABLES at,               \* the driver's step; "posted" or "done" or "died" at the end
          bits_c,           \* the sequence that was handed in
          nickname,
          reply,            \* of the server to the result, as a sequence of one
          tmpdir,           \* the scratch directory is there
          bits,             \* what bits.c in it is: "handed in", "zap" or "Zap"
          copied,           \* the steps at which it was copied over
          lost,             \* the step at which the driver died; whether it named the directory
          zapped, Zapped,   \* the lines of the two outputs of btest
          c, p, tpoints     \* results: of %puzzle_c_..., %puzzle_p_...

vars == <<at, bits_c, nickname, reply, tmpdir, bits, copied, lost, zapped, Zapped, c, p, tpoints>>
given == <<bits_c, nickname>>
results == <<c, p, tpoints>>

NoNickname == [length |-> 0, legal |-> FALSE, blank |-> FALSE]

Init ==
    /\ at = "nickname"
    /\ bits_c \in Functions /\ nickname \in Nicknames \cup {NoNickname}
    /\ reply = <<>> /\ tmpdir = FALSE /\ bits = "" /\ copied = {} /\ lost = <<>>
    /\ zapped = <<>> /\ Zapped = <<>>
    /\ c = <<>> /\ p = <<>> /\ tpoints = 0

Die(named) == at' = "died" /\ lost' = <<at, named>>

\* -u with an empty string is no -u at all.
check_nickname ==
    /\ at = "nickname"
    /\ IF nickname.length = 0 \/ (nickname.length <= 35 /\ nickname.legal /\ ~nickname.blank)
       THEN at' = "files" /\ UNCHANGED lost
       ELSE Die(FALSE)
    /\ UNCHANGED <<given, reply, tmpdir, bits, copied, zapped, Zapped, results>>

\* mkdir, cp and chdir; what was made is removed when a later one fails.
Files ==
    /\ at = "files"
    /\ \/ at' = "dlc -z" /\ tmpdir' = TRUE /\ bits' = "handed in" /\ UNCHANGED lost
       \/ Die(FALSE) /\ UNCHANGED <<tmpdir, bits>>
    /\ UNCHANGED <<given, reply, copied, zapped, Zapped, results>>

\* btest: a line for each function, and two more for one whose time is up.
Line(name, points, rating, errors) ==
    [name |-> name, points |-> points, rating |-> rating, errors |-> errors]
Phantoms == <<Line("", 0, 0, 0), Line("10", 0, 0, 0)>>

Passes(f) == f.correct /\ (f.legal \/ bits = "handed in") /\ (f.within \/ bits # "Zap")

btest(global_rating, timedOut) ==
    FoldLeft(LAMBDA lines, f :
        LET rating == IF global_rating > 0 THEN global_rating ELSE f.rating
        IN  CASE f.name \in timedOut -> lines \o Phantoms \o <<Line(f.name, 0, rating, 1)>>
              [] f.name \notin timedOut /\ Passes(f) -> Append(lines, Line(f.name, rating, rating, 0))
              [] OTHER -> Append(lines, Line(f.name, 0, rating, 1)),
        <<>>, bits_c)

Names == {bits_c[n].name : n \in DOMAIN bits_c}
Timeouts == {T \in SUBSET Names : Cardinality(T) <= MaxTimeouts}

\* cp, dlc -z: a failure ends the driver.  The copy of its result over bits.c is not looked at.
Zap(step, next, result) ==
    /\ at = step
    /\ \/ /\ at' = next /\ UNCHANGED lost
          /\ \/ bits' = result /\ copied' = copied \cup {step}
             \/ UNCHANGED <<bits, copied>>
       \/ Die(step = "dlc -z") /\ UNCHANGED <<bits, copied>>
    /\ UNCHANGED <<given, reply, tmpdir, zapped, Zapped, results>>

Correctness ==
    /\ at = "btest -g"
    /\ \/ \E T \in Timeouts : zapped' = btest(0, T) /\ at' = "dlc -Z" /\ UNCHANGED lost
       \/ Die(TRUE) /\ UNCHANGED zapped             \* make, or btest
    /\ UNCHANGED <<given, reply, tmpdir, bits, copied, Zapped, results>>

Performance ==
    /\ at = "btest -g -r 2"
    /\ \/ \E T \in Timeouts : Zapped' = btest(2, T) /\ at' = "collect" /\ UNCHANGED lost
       \/ Die(TRUE) /\ UNCHANGED Zapped             \* or dlc -e
    /\ UNCHANGED <<given, reply, tmpdir, bits, copied, zapped, results>>

\* Every line between the heading and the total is one of a puzzle: its name, whatever
\* stands fifth, is a key.
Collect(lines) ==
    [name \in {lines[n].name : n \in DOMAIN lines} |->
        lines[Max({n \in DOMAIN lines : lines[n].name = name})]]
Points(lines) == FoldLeft(LAMBDA sum, l : sum + l.points, 0, lines)

CollectResults ==
    /\ at = "collect"
    /\ \/ /\ c' = Collect(zapped) /\ p' = Collect(Zapped)
          /\ tpoints' = Points(zapped) + Points(Zapped)
          /\ at' = (IF nickname.length > 0 THEN "post" ELSE "done")
          /\ tmpdir' = (nickname.length > 0) /\ UNCHANGED lost
       \/ Die(TRUE) /\ UNCHANGED <<tmpdir, results>>       \* an output is not there
    /\ UNCHANGED <<given, reply, bits, copied, zapped, Zapped>>

\* What can come back: nothing; a first line with a code and a message; a line after the
\* headers. Of a text only whether there is an "OK" in it is looked at.
Replies == [reached : BOOLEAN, errcode : {200, 404}, errmsg : BOOLEAN, line : BOOLEAN]

\* Whether what submitr() returns has an "OK"; when it cannot connect, it dies.
submitr(r) == r.reached /\ IF r.errcode # 200 THEN r.errmsg ELSE r.line

driver_post ==
    /\ at = "post"
    /\ \/ at' = "posted" /\ tmpdir' = FALSE /\ UNCHANGED <<reply, lost>>     \* printed, for -A
       \/ \E r \in Replies :
             /\ reply' = <<r>>
             /\ IF submitr(r) THEN at' = "posted" /\ tmpdir' = FALSE /\ UNCHANGED lost
                ELSE Die(FALSE) /\ UNCHANGED tmpdir        \* exit(1), or die
    /\ UNCHANGED <<given, bits, copied, zapped, Zapped, results>>

ZapRules == Zap("dlc -z", "btest -g", "zap")

\* A mutant: the copy that was tried before is tried again.
ZapOpsAgain == Zap("dlc -Z", "btest -g -r 2", "zap")

ZapOps == Zap("dlc -Z", "btest -g -r 2", "Zap")

Next == check_nickname \/ Files \/ ZapRules \/ Correctness \/ ZapOps \/ Performance
        \/ CollectResults \/ driver_post

-----------------------------------------------------------------------------
(* Properties                                                               *)

\* A puzzle has its points when it is solved within the rules and in time, and more for few
\* operators, unless a copy over bits.c failed; what the timeouts leave in the table are
\* names of no puzzle, without points.  A result is posted under a legal nickname only, and
\* reported as sent only if the server said so, or called an error "OK"; a scratch directory
\* that stays is named but at two of the steps.
PuzzlesMarked ==
    /\ at \in {"done", "posted"} =>
           /\ ~tmpdir /\ Names \subseteq DOMAIN c \cap DOMAIN p
           /\ \A n \in DOMAIN bits_c :
                  LET f == bits_c[n]
                      timed(lines) == \E l \in DOMAIN lines : lines[l].name = ""
                  IN  /\ c[f.name].points > 0 => f.correct /\ (f.legal \/ "dlc -z" \notin copied)
                      /\ p[f.name].points > 0 =>
                             f.correct /\ ((f.legal /\ f.within) \/ copied # {"dlc -z", "dlc -Z"})
                      /\ f.correct /\ f.legal /\ ~timed(zapped) => c[f.name].points = f.rating
                      /\ f.correct /\ f.legal /\ f.within /\ ~timed(Zapped) => p[f.name].points = 2
           /\ tpoints = MapThenSumSet(LAMBDA n : c[n].points + p[n].points, Names)
           /\ \A name \in DOMAIN c \ Names : c[name].points = 0
    /\ at = "posted" =>
           /\ nickname.legal /\ ~nickname.blank /\ nickname.length <= 35
           /\ \A n \in DOMAIN reply : reply[n].reached /\ (reply[n].line \/ reply[n].errcode # 200)
    /\ at = "died" => ~tmpdir \/ lost[2] \/ lost[1] \in {"dlc -Z", "post"}
=============================================================================
