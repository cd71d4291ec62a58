------------------------------ MODULE CacheSim ------------------------------
(***************************************************************************)
(* The cache simulator csim.c: it counts the lines of a trace, reads as    *)
(* many operations as scanf finds, and replays as many as it has counted.  *)
(***************************************************************************)
EXTENDS CacheLines, FiniteSets

CONSTANTS Geometries,   \* [s, E, b]: of the command line
          Operations,   \* [op, address]: of the traces
          MaxTrace      \* bound: operations of a trace

VARIABLES
    at,         \* "replay", "done", "invalid operation" or "undefined"
    geom,
    trace,      \* the operations replayed: [op, address]
    ending,     \* of the file: one "newline", "none", or a "blank line"
    sim

vars == <<at, geom, trace, ending, sim>>

Init ==
    /\ at = "replay"
    /\ geom \in Geometries
    /\ trace = <<>>
    /\ ending \in {"newline", "none", "blank line"}
    /\ sim = init_cache(geom)

Accesses(op) == CASE op = "M" -> 2 [] op \in {"L", "S"} -> 1 [] OTHER -> 0

\* main()'s loop. An index outside the cache is undefined: the run is given up here.
Replay(o) ==
    /\ at = "replay" /\ Len(trace) < MaxTrace
    /\ trace' = Append(trace, o)
    /\ IF o.op \notin {"I", "M", "L", "S"}
       THEN at' = "invalid operation" /\ UNCHANGED sim
       ELSE IF Accesses(o.op) > 0 /\ SetIndex(geom, o.address) \notin DOMAIN sim.lines
       THEN at' = "undefined" /\ UNCHANGED sim
       ELSE /\ sim' = LET once == process(geom, sim, o.address)
                     IN  CASE Accesses(o.op) = 0 -> sim
                           [] Accesses(o.op) = 1 -> once
                           [] Accesses(o.op) = 2 -> process(geom, once, o.address)
            /\ UNCHANGED at
    /\ UNCHANGED <<geom, ending>>

\* Without a newline at the end one operation more is read than there is room for,
\* and it is not replayed; of a blank line one is replayed that was never read.
End ==
    /\ at = "replay"
    /\ CASE ending = "newline" -> at' = "done"
         [] ending = "none" -> at' \in {"done", "undefined"}
         [] ending = "blank line" -> at' \in {"done", "invalid operation", "undefined"}
    /\ UNCHANGED <<geom, trace, ending, sim>>

Next == (\E o \in Operations : Replay(o)) \/ End

-----------------------------------------------------------------------------
(* What a least-recently-used cache of the full addresses does.  It holds   *)
(* the E blocks of each set that were used last: a block that was used      *)
(* before is there when fewer than E others of its set have been used since. *)

Block(o) == o.address \div 2^geom.b
SetOf(o) == Block(o) % 2^geom.s

Accessed == {m \in DOMAIN trace : Accesses(trace[m].op) > 0}

\* The blocks of a set that are used after operation m and before n.
Recent(set, m, n) ==
    {Block(trace[j]) : j \in {j \in Accessed : m < j /\ j < n /\ SetOf(trace[j]) = set}}

Held(o, n) == \E m \in Accessed :
    /\ m < n /\ Block(trace[m]) = Block(o)
    /\ Cardinality(Recent(SetOf(o), m, n)) < geom.E

Missed == {n \in Accessed : ~Held(trace[n], n)}
Evicting == {n \in Missed : Cardinality(Recent(SetOf(trace[n]), 0, n)) >= geom.E}

\* The second access of an "M" is to a block that is there.
Twice == {n \in Accessed : Accesses(trace[n].op) = 2}

\* csim counts what a least-recently-used cache of the full addresses would, and holds
\* the blocks that it holds, as long as no two blocks of the trace are the same block of
\* int addresses.
Distinct == \A m, n \in DOMAIN trace :
    ToInt(trace[m].address) \div 2^geom.b = ToInt(trace[n].address) \div 2^geom.b
        => Block(trace[m]) = Block(trace[n])

CsimIsLRU == (at \in {"replay", "done"} /\ Distinct) =>
    /\ sim.misses = Cardinality(Missed) /\ sim.evictions = Cardinality(Evicting)
    /\ sim.hits + sim.misses = Cardinality(Accessed) + Cardinality(Twice)
    /\ \A set \in DOMAIN sim.lines :
           {l.tag_bit : l \in sim.lines[set]}
               = {Tag(geom, trace[m].address) :
                      m \in {m \in Accessed : SetOf(trace[m]) = set /\ Held(trace[m], Len(trace) + 1)}}
=============================================================================
