-------------------------------- MODULE Fcyc --------------------------------
(***************************************************************************)
(* The timing package of the malloc lab: fsecs.c, which calls the timer    *)
(* that config.h selects; fcyc.c, the least of a function's samples, taken *)
(* until the best K agree; clock.c, the cycle counter and its compensation *)
(* for timer interrupts; ftimer.c, the average of n runs on the system's   *)
(* clocks.  What a run of the function takes is an input, in cycles for    *)
(* fcyc.c and in microseconds for ftimer.c.                                *)
(***************************************************************************)
EXTENDS Integers, Sequences, FiniteSets, FiniteSetsExt, Functions

CONSTANTS Ks, MaxSamples, Epsilons, CacheSizes, CacheBlocks,  \* what the setters are given
          WordMod,          \* 2^w for the w bits of a word of the counter
          Starts,           \* what a clock may show at the start
          Cycles,           \* what a call of the function may take
          TickCosts, Loops, \* what a timer interrupt, and a turn of callibrate, may take
          NEVENT, THRESHOLD, RECORDTHRESH,
          SleepCycles, Delays,  \* the cycles of the sleep in mhz, and of a late return
          Usecs, MAX_ETIME, Average,  \* microseconds in a second, the n of ftimer.c
          MaxCalls          \* bound on the calls of fsecs

VARIABLES at,               \* "init", "idle", "sampling", "calibrating", "measuring" or "exited"
          timer, machine,   \* what config.h and the compiler select
          params,           \* the parameters of fcyc.c
          cache_buf,        \* its size, 0 for NULL
          values, samplecount,
          result,           \* of the last call
          Mhz,              \* the cycles that mhz has counted
          cyc_per_tick, events, newt, newc,  \* newt, newc: since oldt and oldc
          tick,             \* what an interrupt takes
          taken,            \* of each run of the last call, if nothing has been set since, its own
                            \* cycles, the ticks that hit it and the sample
          calls

fcycVars == <<params, cache_buf, values, samplecount>>
clockVars == <<Mhz, cyc_per_tick, events, newt, newc>>
vars == <<at, timer, machine, fcycVars, result, clockVars, tick, taken, calls>>

Init ==
    /\ at = "init" /\ timer \in {"fcyc", "itimer", "gettod"}
    /\ machine \in IF timer = "fcyc" THEN {"i386", "alpha", "other"} ELSE {"i386"}
    /\ params = [kbest |-> Min(Ks), maxsamples |-> Max(MaxSamples), epsilon |-> Min(Epsilons),
                 compensate |-> FALSE, clear_cache |-> FALSE,
                 cache_bytes |-> Min(CacheSizes), cache_block |-> Max(CacheBlocks)]
    /\ cache_buf = 0 /\ values = <<>> /\ samplecount = 0 /\ result = 0
    /\ Mhz = 0 /\ cyc_per_tick = 0 /\ events = 0 /\ newt = 0 /\ newc = 0
    /\ tick \in IF timer = "fcyc" THEN TickCosts ELSE {0}
    /\ taken = <<>> /\ calls = 0

-----------------------------------------------------------------------------
(* clock.c                                                                  *)

\* The counter in two words; an Alpha counts the cycles of a process in one.
access_counter(n) == [hi |-> (n \div WordMod) % WordMod, lo |-> n % WordMod]
counter(n) == [hi |-> 0, lo |-> n % WordMod]
Reading(n) == IF machine = "i386" THEN access_counter(n) ELSE counter(n)

\* Other machines have no counter that is known: the first use of it exits.
NoCounter == machine = "other"

\* A mutant: no borrow.
get_counter_no_borrow(cyc, ncyc) ==
    ((ncyc.hi - cyc.hi) % WordMod) * WordMod + ((ncyc.lo - cyc.lo) % WordMod)

get_counter(cyc, ncyc) ==
    LET lo == (ncyc.lo - cyc.lo) % WordMod
        borrow == IF lo > ncyc.lo THEN 1 ELSE 0
        hi == (ncyc.hi - cyc.hi - borrow) % WordMod
    IN  hi * WordMod + lo

Counted(start, cycles) == get_counter(Reading(start), Reading(start + cycles))

\* The sleep may end late.
mhz_full(start, late) == Counted(start, SleepCycles + late)

\* One turn of the loop, which a timer interrupt may hit. An interval that has reached the
\* threshold ends; one with ticks in it is an event, whose cycles for a tick are kept when
\* they are the least so far and not too few.
callibrate(loop, hit) ==
    LET cycles == newt + loop + (IF hit THEN tick ELSE 0)
        ticks == newc + (IF hit THEN 1 ELSE 0)
        cpt == cycles \div ticks
    IN  /\ at = "calibrating"
        /\ IF cycles < THRESHOLD
           THEN newt' = cycles /\ newc' = ticks /\ UNCHANGED <<at, events, cyc_per_tick>>
           ELSE /\ newt' = 0 /\ newc' = 0
                /\ LET e == events + (IF ticks > 0 THEN 1 ELSE 0)
                   IN  IF e < NEVENT THEN at' = at /\ events' = e ELSE at' = "measuring" /\ events' = 0
                /\ cyc_per_tick' =
                       IF ticks > 0 /\ (cyc_per_tick = 0 \/ cyc_per_tick > cpt) /\ cpt > RECORDTHRESH
                       THEN cpt ELSE cyc_per_tick
        /\ UNCHANGED <<timer, machine, fcycVars, result, Mhz, tick, taken, calls>>

get_comp_counter(start, cycles, ticks) == Counted(start, cycles) - ticks * cyc_per_tick

-----------------------------------------------------------------------------
(* fcyc.c                                                                   *)

set_fcyc_clear_cache == \E b \in BOOLEAN : params' = [params EXCEPT !.clear_cache = b]

\* One of the setters of fcyc.c, between calls.
SetParameter ==
    /\ at = "idle" /\ timer = "fcyc" /\ calls < MaxCalls
    /\ \/ set_fcyc_clear_cache
       \/ \E b \in BOOLEAN : params' = [params EXCEPT !.compensate = b]
       \/ \E k \in Ks : params' = [params EXCEPT !.kbest = k]
       \/ \E m \in MaxSamples : params' = [params EXCEPT !.maxsamples = m]
       \/ \E epsilon \in Epsilons : params' = [params EXCEPT !.epsilon = epsilon]
       \/ \E bytes \in CacheBlocks : params' = [params EXCEPT !.cache_block = bytes]
    /\ taken' = <<>> /\ result' = 0
    /\ UNCHANGED <<at, timer, machine, cache_buf, values, samplecount, clockVars, tick, calls>>

\* A buffer of another size goes; the next call of clear has one of the new size.
set_fcyc_cache_size(bytes) ==
    /\ at = "idle" /\ timer = "fcyc" /\ calls < MaxCalls /\ bytes # params.cache_bytes
    /\ params' = [params EXCEPT !.cache_bytes = bytes]
    /\ cache_buf' = 0 /\ taken' = <<>> /\ result' = 0
    /\ UNCHANGED <<at, timer, machine, values, samplecount, clockVars, tick, calls>>

init_sampler == values' = <<>> /\ samplecount' = 0

\* A full list takes a sample that is less than its last, which goes; then it is sorted in.
add_sample(val) ==
    LET kept == IF samplecount < params.kbest THEN values ELSE SubSeq(values, 1, params.kbest - 1)
        less == Cardinality({n \in DOMAIN kept : kept[n] <= val})
    IN  IF samplecount >= params.kbest /\ val >= values[params.kbest] THEN values
        ELSE SubSeq(kept, 1, less) \o <<val>> \o SubSeq(kept, less + 1, Len(kept))

has_converged(vals, count) ==
    count >= params.kbest /\ (100 + params.epsilon) * vals[1] >= 100 * vals[params.kbest]

\* The integers of the buffer that clear reads, one of each block.
Swept == {w \in 0 .. (params.cache_bytes \div 4) - 1 : w % (params.cache_block \div 4) = 0}

\* The first compensated round, and each as long as no tick has been worth recording.
MustCallibrate == params.compensate /\ cyc_per_tick = 0

\* A round begins with clearing the cache, for which there may be no memory.
clear ==
    /\ at = "sampling"
    /\ \/ /\ cache_buf' = IF params.clear_cache /\ cache_buf = 0 THEN params.cache_bytes ELSE cache_buf
          /\ at' = IF MustCallibrate THEN "calibrating" ELSE "measuring"
       \/ params.clear_cache /\ cache_buf = 0 /\ at' = "exited" /\ UNCHANGED cache_buf
    /\ UNCHANGED <<timer, machine, params, values, samplecount, result, clockVars, tick, taken, calls>>

\* The rest of the round, and the return after the last one.
Sample(start, own, ticks) ==
    LET cycles == own + ticks * tick
        val == IF params.compensate THEN get_comp_counter(start, cycles, ticks) ELSE Counted(start, cycles)
        added == add_sample(val)
        over == has_converged(added, samplecount + 1) \/ samplecount + 1 >= params.maxsamples
    IN  /\ at = "measuring"
        /\ taken' = Append(taken, [own |-> own, ticks |-> ticks,
                                   sample |-> IF params.compensate THEN cycles - ticks * cyc_per_tick ELSE cycles,
                                   turned |-> start % WordMod > (start + cycles) % WordMod])
        /\ samplecount' = samplecount + 1
        /\ values' = IF over THEN <<>> ELSE added
        /\ result' = IF over THEN added[1] ELSE result
        /\ at' = IF over THEN "idle" ELSE "sampling"
        /\ UNCHANGED <<timer, machine, params, cache_buf, clockVars, tick, calls>>

-----------------------------------------------------------------------------
(* ftimer.c                                                                 *)

Timeval(t) == [sec |-> t \div Usecs, usec |-> t % Usecs]

\* gettimeofday before and after the runs.
ftimer_gettod(stv, etv) == Usecs * (etv.sec - stv.sec) + (etv.usec - stv.usec)

\* The interval timer counts down from MAX_ETIME.
get_etime(r_curr) == Usecs * (MAX_ETIME - r_curr.sec) + (0 - r_curr.usec)
ftimer_itimer(start, end) ==
    get_etime(Timeval(MAX_ETIME * Usecs - end)) - get_etime(Timeval(MAX_ETIME * Usecs - start))

\* The result is the n-th part of the total of n runs, here in whole microseconds. A timer that has run down
\* sends SIGALRM, which nothing handles.
Ftimer(start, runs) ==
    LET end == start + SumFunction(runs)
    IN  /\ at = "idle" /\ timer # "fcyc" /\ calls < MaxCalls
        /\ calls' = calls + 1
        /\ taken' = [n \in 1 .. Average |-> [own |-> runs[n], ticks |-> 0, sample |-> runs[n], turned |-> FALSE]]
        /\ IF timer = "gettod"
           THEN result' = ftimer_gettod(Timeval(start), Timeval(end)) \div Average /\ at' = at
           ELSE IF end >= MAX_ETIME * Usecs THEN at' = "exited" /\ result' = result
           ELSE result' = ftimer_itimer(start, end) \div Average /\ at' = at
        /\ UNCHANGED <<timer, machine, fcycVars, clockVars, tick>>

-----------------------------------------------------------------------------
(* fsecs.c                                                                  *)

init_fsecs(start, late) ==
    /\ at = "init"
    /\ IF timer # "fcyc" THEN at' = "idle" /\ UNCHANGED <<params, Mhz>>
       ELSE /\ params' = [params EXCEPT !.maxsamples = Max(MaxSamples), !.clear_cache = TRUE,
                                        !.compensate = TRUE, !.epsilon = Min(Epsilons), !.kbest = Max(Ks)]
            /\ IF NoCounter THEN at' = "exited" /\ Mhz' = Mhz
               ELSE at' = "idle" /\ Mhz' = mhz_full(start, late)
    /\ UNCHANGED <<timer, machine, cache_buf, values, samplecount, result,
                   cyc_per_tick, events, newt, newc, tick, taken, calls>>

fsecs ==
    /\ at = "idle" /\ timer = "fcyc" /\ calls < MaxCalls
    /\ at' = "sampling" /\ init_sampler
    /\ taken' = <<>> /\ calls' = calls + 1
    /\ UNCHANGED <<timer, machine, params, cache_buf, result, clockVars, tick>>

Next ==
    \/ \E start \in Starts, late \in Delays : init_fsecs(start, late)
    \/ SetParameter
    \/ \E bytes \in CacheSizes : set_fcyc_cache_size(bytes)
    \/ fsecs
    \/ clear
    \/ \E loop \in Loops, hit \in BOOLEAN : callibrate(loop, hit)
    \/ \E start \in Starts, own \in Cycles, ticks \in 0 .. 1 : Sample(start, own, ticks)
    \/ \E start \in Delays, runs \in [1 .. Average -> Cycles] : Ftimer(start, runs)

-----------------------------------------------------------------------------

Samples == {taken[n].sample : n \in DOMAIN taken}

\* The list is that of the least K samples in order, wherever the counter's words turn over;
\* the result is the least of all, and more samples than maxsamples are never taken.
LeastAreKept ==
    /\ at # "idle" => /\ samplecount = Len(taken) /\ samplecount < params.maxsamples
                      /\ Len(values) = Min({params.kbest, samplecount})
    /\ \A n \in DOMAIN values :
           /\ Cardinality({m \in DOMAIN taken : taken[m].sample < values[n]}) < n
           /\ Cardinality({m \in DOMAIN taken : taken[m].sample <= values[n]}) >= n
    /\ at = "idle" /\ taken # <<>> => result = Min(Samples)

\* The one word of an Alpha can turn over in a sample, which is then too long by far: it is
\* the best only when all are.
LeastIsKept ==
    at = "idle" /\ (\E s \in Range(taken) : ~s.turned)
        => result = Min({s.sample : s \in {t \in Range(taken) : ~t.turned}})

\* A tick that is compensated leaves nothing of itself in a sample, and takes no more than
\* a threshold and a turn of the calibration from it.
Compensated ==
    \A n \in DOMAIN taken :
        LET whole == taken[n].own + taken[n].ticks * tick
            most == THRESHOLD + Max(Loops)
        IN  \/ taken[n].sample = whole
            \/ taken[n].sample \in (taken[n].own - taken[n].ticks * most) .. taken[n].own

\* clear reads the whole of its buffer and nothing behind it.
BufferSwept == cache_buf # 0 => \A w \in Swept : 4 * w + 4 <= cache_buf

\* The result of fcyc is the least of its samples and that of ftimer.c the average of its runs,
\* also from one second to the next; the clock is never found slower than it is.
KBest ==
    /\ machine = "i386" /\ timer = "fcyc" => LeastAreKept
    /\ machine = "alpha" => LeastIsKept
    /\ Compensated /\ BufferSwept
    /\ timer # "fcyc" /\ at = "idle" /\ taken # <<>>
           => SumFunction([n \in DOMAIN taken |-> taken[n].own]) - Average * result \in 0 .. Average - 1
    /\ machine = "i386" /\ timer = "fcyc" /\ at \notin {"init", "exited"} => Mhz >= SleepCycles
=============================================================================
