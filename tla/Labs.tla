-------------------------------- MODULE Labs --------------------------------
(***************************************************************************)
(* The programs of the labs, any one of which is started: the cache        *)
(* simulator, the marker of the transpose functions, the tester of the     *)
(* bit puzzles and the programs that show numbers, the shell's job list    *)
(* and its command line, the timers, calls of the wrappers of csapp.c, and *)
(* the drivers that mark the data, the cache and the shell lab.            *)
(* They share nothing: a variable that the running program does not have   *)
(* keeps the value it starts with.                                         *)
(***************************************************************************)
EXTENDS Integers, FiniteSets

CONSTANTS
    Geometries, Operations, MaxTrace, SimIntMod,
    MatrixSizes, AddrA, AddrB, Statics, TraceIntMod,
    TEST_RANGE, Randoms, Probes, Garbage, MaxTimeouts,
    MAXJOBS, Processes, MaxJid, Words, MaxWords, MAXLINE,
    Ks, MaxSamples, Epsilons, CacheSizes, CacheBlocks, WordMod, Starts, Cycles, TickCosts, Loops,
    NEVENT, THRESHOLD, RECORDTHRESH, SleepCycles, Delays, Usecs, MAX_ETIME, Average, MaxCalls, Longs,
    FRAC_SIZE, EXP_SIZE, Numerals, MaxArgs,
    Functions, Nicknames, CsimPoints, Misses, PipeSize, MaxCommands

ASSUME JobsOK == MAXJOBS \in Nat \ {0} /\ MaxJid \in Nat /\ Processes \subseteq Nat \ {0}
ASSUME PipesOK == PipeSize \in Nat /\ MaxCommands \in Nat
\* A cache has a line and a block of at least a byte, and an int has more bits than the index
\* of a set and the offset in a block.
ASSUME GeometriesOK ==
    /\ SimIntMod \in Nat /\ \A o \in Operations : o.address \in Int
    /\ \A g \in Geometries :
           /\ g.E \in Nat \ {0} /\ 2^g.s \in Nat \ {0} /\ 2^g.b \in Nat \ {0}
           /\ \E k \in 1 .. SimIntMod : SimIntMod = 2 * (k * (2^g.s * 2^g.b))
ASSUME PointsOK == CsimPoints \subseteq Nat /\ Misses \subseteq Nat

VARIABLES
    program,
    at, i, sim,                                             \* of several
    geom, trace, ending,                                    \* CacheSim
    M, N, n, B, exit, results,                              \* Transpose
    random, garbage, armed, failed, timedOut,               \* Puzzles
    jobs, nextjid, wrapped,                                 \* JobList
    words, stdin, cmdline, argv, bg,                        \* CommandLine
    timer, machine, params, cache_buf, values, samplecount, result, Mhz, cyc_per_tick,
    events, newt, newc, tick, taken, calls,                 \* Fcyc
    errno, status, call,                                      \* Wrappers
    which, shown, argval,                                   \* Numbers (with argv)
    bits_c, nickname, reply, tmpdir, bits, copied, lost, zapped, Zapped, c, p, tpoints,    \* PuzzleDriver
    got, total,                                             \* CacheDriver
    todo, prompt, shell, buf, writer, input, output, printed    \* ShellDriver

csimVars == <<geom, trace, ending>>
transVars == <<M, N, n, B, exit, results>>
btestVars == <<random, garbage, armed, failed, timedOut>>
jobVars == <<jobs, nextjid, wrapped>>
shellVars == <<words, stdin, cmdline, bg>>
timerVars == <<timer, machine, params, cache_buf, values, samplecount, result, Mhz, cyc_per_tick,
               events, newt, newc, tick, taken, calls>>
callVars == <<errno, status, call>>
numberVars == <<which, shown, argval>>
puzzleVars == <<bits_c, nickname, reply, tmpdir, bits, copied, lost, zapped, Zapped, c, p, tpoints>>
cacheVars == <<got, total>>
traceVars == <<todo, prompt, shell, buf, writer, input, output, printed>>
vars == <<program, at, i, sim, argv, csimVars, transVars, btestVars, jobVars, shellVars,
          timerVars, callVars, numberVars, puzzleVars, cacheVars, traceVars>>

Csim == INSTANCE CacheSim WITH IntMod <- SimIntMod
Trans == INSTANCE Transpose WITH IntMod <- TraceIntMod, Sizes <- MatrixSizes
Btest == INSTANCE Puzzles
Jobs == INSTANCE JobList
Shell == INSTANCE CommandLine
Timer == INSTANCE Fcyc
Wrapper == INSTANCE Wrappers
Shown == INSTANCE Numbers
PuzzleLab == INSTANCE PuzzleDriver
CacheLab == INSTANCE CacheDriver
ShellLab == INSTANCE ShellDriver

NoCsim == geom = <<>> /\ trace = <<>> /\ ending = ""
NoTrans == M = 0 /\ N = 0 /\ n = 0 /\ B = <<>> /\ exit = 0 /\ results = <<>>
NoBtest == random = 0 /\ garbage = {} /\ armed = FALSE /\ failed = {} /\ timedOut = {}
NoJobs == jobs = <<>> /\ nextjid = 0 /\ wrapped = FALSE
NoShell == words = <<>> /\ stdin = <<>> /\ cmdline = <<>> /\ bg = FALSE
NoTimer == timer = "" /\ machine = "" /\ params = <<>> /\ cache_buf = 0 /\ values = <<>> /\ samplecount = 0
               /\ result = 0 /\ Mhz = 0 /\ cyc_per_tick = 0 /\ events = 0 /\ newt = 0 /\ newc = 0
               /\ tick = 0 /\ taken = <<>> /\ calls = 0
NoCall == errno = 0 /\ status = 0 /\ call = <<>>
NoNumbers == which = "" /\ shown = <<>> /\ argval = 0
NoPuzzles == bits_c = <<>> /\ nickname = <<>> /\ reply = <<>> /\ tmpdir = FALSE /\ bits = "" /\ copied = {} /\ lost = <<>>
                /\ zapped = <<>> /\ Zapped = <<>> /\ c = <<>> /\ p = <<>> /\ tpoints = 0
NoCache == got = <<>> /\ total = 0
NoTrace == todo = <<>> /\ prompt = FALSE /\ shell = "" /\ buf = 0 /\ writer = FALSE
                /\ input = 0 /\ output = 0 /\ printed = 0

Programs == {"csim", "trans", "btest", "jobs", "shell", "timer", "call", "numbers",
             "driver.pl", "driver.py", "sdriver.pl"}

Init ==
    /\ program \in Programs
    /\ IF program = "csim" THEN Csim!Init ELSE NoCsim
    /\ IF program = "trans" THEN Trans!Init ELSE NoTrans
    /\ IF program = "btest" THEN Btest!Init ELSE NoBtest
    /\ IF program = "jobs" THEN Jobs!Init ELSE NoJobs
    /\ IF program = "shell" THEN Shell!Init ELSE NoShell
    /\ IF program = "timer" THEN Timer!Init ELSE NoTimer
    /\ IF program = "call" THEN Wrapper!Init ELSE NoCall
    /\ IF program = "numbers" THEN Shown!Init ELSE NoNumbers
    /\ IF program = "driver.pl" THEN PuzzleLab!Init ELSE NoPuzzles
    /\ IF program = "driver.py" THEN CacheLab!Init ELSE NoCache
    /\ IF program = "sdriver.pl" THEN ShellLab!Init ELSE NoTrace
    /\ IF program = "jobs" THEN at = "" ELSE TRUE
    /\ IF program \in {"trans", "btest", "numbers", "sdriver.pl"} THEN TRUE ELSE i = 0
    /\ IF program \in {"csim", "trans"} THEN TRUE ELSE sim = <<>>
    /\ IF program \in {"shell", "numbers"} THEN TRUE ELSE argv = <<>>

Next ==
    /\ UNCHANGED program
    /\ \/ program = "csim" /\ Csim!Next
              /\ UNCHANGED <<i, argv, transVars, btestVars, jobVars, shellVars, timerVars,
                          callVars, numberVars, puzzleVars, cacheVars, traceVars>>
       \/ program = "trans" /\ Trans!Next
              /\ UNCHANGED <<argv, csimVars, btestVars, jobVars, shellVars, timerVars, callVars,
                          numberVars, puzzleVars, cacheVars, traceVars>>
       \/ program = "btest" /\ Btest!Next
              /\ UNCHANGED <<sim, argv, csimVars, transVars, jobVars, shellVars, timerVars,
                          callVars, numberVars, puzzleVars, cacheVars, traceVars>>
       \/ program = "jobs" /\ Jobs!Next
              /\ UNCHANGED <<at, i, sim, argv, csimVars, transVars, btestVars, shellVars,
                          timerVars, callVars, numberVars, puzzleVars, cacheVars, traceVars>>
       \/ program = "shell" /\ Shell!Next
              /\ UNCHANGED <<i, sim, csimVars, transVars, btestVars, jobVars, timerVars,
                          callVars, numberVars, puzzleVars, cacheVars, traceVars>>
       \/ program = "timer" /\ Timer!Next
              /\ UNCHANGED <<i, sim, argv, csimVars, transVars, btestVars, jobVars, shellVars,
                          callVars, numberVars, puzzleVars, cacheVars, traceVars>>
       \/ program = "call" /\ Wrapper!Next
              /\ UNCHANGED <<i, sim, argv, csimVars, transVars, btestVars, jobVars, shellVars,
                          timerVars, numberVars, puzzleVars, cacheVars, traceVars>>
       \/ program = "numbers" /\ Shown!Next
              /\ UNCHANGED <<sim, csimVars, transVars, btestVars, jobVars, shellVars, timerVars,
                          callVars, puzzleVars, cacheVars, traceVars>>
       \/ program = "driver.pl" /\ PuzzleLab!Next
              /\ UNCHANGED <<i, sim, argv, csimVars, transVars, btestVars, jobVars, shellVars,
                          timerVars, callVars, numberVars, cacheVars, traceVars>>
       \/ program = "driver.py" /\ CacheLab!Next
              /\ UNCHANGED <<i, sim, argv, csimVars, transVars, btestVars, jobVars, shellVars,
                          timerVars, callVars, numberVars, puzzleVars, traceVars>>
       \/ program = "sdriver.pl" /\ ShellLab!Next
              /\ UNCHANGED <<sim, argv, csimVars, transVars, btestVars, jobVars, shellVars,
                          timerVars, callVars, numberVars, puzzleVars, cacheVars>>

Spec == Init /\ [][Next]_vars

-----------------------------------------------------------------------------
(* The programs' own properties, each of its program                       *)

\* csim.c counts what a least-recently-used cache would.
CsimIsLRU == program = "csim" => Csim!CsimIsLRU

\* trans.c: the submission is a transpose for the sizes it is marked for, and its misses
\* are within the marks. bits.c, btest.c: a puzzle in which no error is found is solved.
\* driver.pl: points are given for puzzles that were solved within the rules.
SolutionsScored ==
    /\ program = "trans" => Trans!TransResults
    /\ program = "btest" => Btest!PuzzlesScored
    /\ program = "driver.pl" => PuzzleLab!PuzzlesMarked

\* fshow.c, ishow.c, btest.c: a number is shown and taken as it was typed. tsh.c: the
\* arguments of a command are the words that were typed.
TakenAsTyped ==
    /\ program = "numbers" => Shown!NumbersShown
    /\ program = "shell" => Shell!ArgsAsTyped

\* tsh.c: a job's pid and its id find it and no other.
JobIds == program = "jobs" => Jobs!JobIds

\* sdriver.pl: a trace is played to its end, and the driver and the shell wait for each
\* other only where the trace is to blame.
TracePlayed == program = "sdriver.pl" => ShellLab!TracePlayed

\* tsh.c and the player of its traces: both of these.
ShellInv == JobIds /\ TracePlayed

\* driver.py: a transpose that is wrong or was stopped has no points, and a correct one
\* the more the fewer its misses.
CacheMarks == program = "driver.py" => CacheLab!CacheMarks

\* fcyc.c, clock.c, ftimer.c: the K best of the samples are kept, wherever the counter's words
\* turn over; what is taken off for timer interrupts is theirs; a second that turns over adds up.
KBest == program = "timer" => Timer!KBest

=============================================================================
