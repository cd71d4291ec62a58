------------------------------- MODULE MCLabs -------------------------------
(* Small caches, traces, arrays, arguments and words for the programs of module Labs; one of *)
(* them, or the driver of the malloc lab, runs.                                               *)
EXTENDS Labs, MallocDriver, Integers, Sequences

\* A program of module Labs, and no driver of the malloc lab, or that one and none of those.
NoMdriver == /\ package = "" /\ phase = "" /\ num_ops = 0 /\ ops = <<>> /\ traces = 0 /\ k = 0
             /\ heap = <<>> /\ ranges = <<>> /\ blocks = <<>> /\ block_sizes = <<>>
             /\ total_size = 0 /\ max_total_size = 0 /\ errors = 0 /\ stats = <<>> /\ perfindex = 0
NoneOfLabs == /\ program = "mdriver" /\ at = "" /\ i = 0 /\ sim = <<>> /\ argv = <<>>
              /\ NoCsim /\ NoTrans /\ NoBtest /\ NoJobs /\ NoShell /\ NoTimer /\ NoCall
              /\ NoNumbers /\ NoPuzzles /\ NoCache /\ NoTrace

MCInit == (Init /\ NoMdriver) \/ (MdriverInit /\ NoneOfLabs)
MCNext == \/ Next /\ UNCHANGED mdriverVars
          \/ program = "mdriver" /\ MdriverNext /\ UNCHANGED vars
MCSpec == MCInit /\ [][MCNext]_<<vars, mdriverVars>>

Geom(s, E, b) == [s |-> s, E |-> E, b |-> b]
MCGeometries == {Geom(0, 2, 0), Geom(1, 2, 0), Geom(1, 1, 1)}

\* 18 is 2 in an int of four bits; "x" is no operation.
MCOperations == [op : {"L"}, address : {0, 2, 3, 4, 18}] \cup [op : {"M", "S"}, address : {2}]
                    \cup [op : {"I", "x"}, address : {0}]

\* The sizes that are marked, and another.
MCMatrixSizes == {<<32, 32>>, <<64, 64>>, <<61, 67>>, <<8, 8>>}

MCStatics == <<8192, 8200, 8204, 8300, 8193>>

MCRandoms == {-77, 1431655765}
\* a NaN that signals, ones and zeros in turn, and some in between.
MCProbes == {2139095041, -1431655766, 305419896, 65536, 40, -1000}
MCGarbage == {{}, {3, 5}}

\* a word, one with a quote in it, a quoted one with a space, an empty one, and "&".
W(text, quoted) == [text |-> text, quoted |-> quoted]
MCWords == {W(<<"a">>, FALSE), W(<<"a", "q", "a">>, FALSE), W(<<"a", " ", "a">>, TRUE),
            W(<<>>, TRUE), W(<<"&">>, FALSE)}

MCLongs == {-15, -9, 0, 7, 10, 99, 100, 1203}

\* Numbers just within a word of six bits and just beyond, every pattern of a float, and
\* two with something behind them.
MCNumerals == [float : {FALSE}, whole : {TRUE}, int : {-33, -32, -2, 0, 1, 31, 32, 63, 64}, bits : {0}]
              \cup [float : {TRUE}, whole : {TRUE}, int : {0}, bits : 0 .. 63]
              \cup [float : BOOLEAN, whole : {FALSE}, int : {1}, bits : {12}]

Attempts(name, rating) ==
    [name : {name}, rating : {rating}, correct : BOOLEAN, legal : BOOLEAN, within : BOOLEAN]
MCFunctions == {<<f, g>> : f \in Attempts("bitAnd", 1), g \in Attempts("bang", 4)}
MCNicknames == [length : {35, 36}, legal : BOOLEAN, blank : BOOLEAN]
=============================================================================
