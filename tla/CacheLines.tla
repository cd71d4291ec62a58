----------------------------- MODULE CacheLines -----------------------------
(***************************************************************************)
(* The cache of the simulator csim.c: what one access does to it.          *)
(* sim is [lines, hits, misses, evictions], a set's lines being those that *)
(* are valid, [i, tag_bit, times]; geom is [s, E, b]; addresses are longs, *)
(* which process() takes as an int.                                        *)
(***************************************************************************)
EXTENDS Integers, Sequences, FiniteSetsExt

CONSTANT IntMod     \* 2^w for the w bits of an int

ToInt(n) == IF n % IntMod < IntMod \div 2 THEN n % IntMod ELSE (n % IntMod) - IntMod

init_cache(geom) == [lines |-> [set \in 0 .. 2^geom.s - 1 |-> {}],
                     hits |-> 0, misses |-> 0, evictions |-> 0]

\* The mask of the set bits is made by a shift of 64 - s: for s = 0 the processor
\* shifts by 0, and every bit of the address is taken for a bit of the index.
SetIndex(geom, address) ==
    LET shifted == ToInt(address) \div 2^geom.b
    IN  IF geom.s = 0 THEN shifted ELSE shifted % 2^geom.s

Tag(geom, address) == (ToInt(address) \div 2^geom.b) \div 2^geom.s

Fill(set, i, tag) ==
    {l \in set : l.i # i} \cup {[i |-> i, tag_bit |-> tag, times |-> 0]}

\* A mutant: a hit leaves the age of the line.
HitKeepsAge(set, i, tag) == set

Hit(set, i, tag) == Fill(set, i, tag)

process(geom, sim, address) ==
    LET index == SetIndex(geom, address)
        tag == Tag(geom, address)
        set == {[l EXCEPT !.times = @ + 1] : l \in sim.lines[index]}
        hits == {l \in set : l.tag_bit = tag}
        free == (1 .. geom.E) \ {l.i : l \in set}
        oldest == {l \in set : \A m \in set : m.times <= l.times}
    IN  IF hits # {} THEN
            [sim EXCEPT !.lines[index] = Hit(set, Min({l.i : l \in hits}), tag), !.hits = @ + 1]
        ELSE IF free # {} THEN
            [sim EXCEPT !.lines[index] = Fill(set, Min(free), tag), !.misses = @ + 1]
        ELSE
            [sim EXCEPT !.lines[index] = Fill(set, Min({l.i : l \in oldest}), tag),
                        !.misses = @ + 1, !.evictions = @ + 1]
=============================================================================
