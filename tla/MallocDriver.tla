---------------------------- MODULE MallocDriver ----------------------------
(***************************************************************************)
(* The driver of the malloc lab, mdriver.c, with the allocator mm.c on the *)
(* heap of memlib.c.  It reads a trace of requests, replays it three times *)
(* (for validity, for utilisation, for speed) and goes on to the next; all *)
(* of that once for the C library's allocator before, if it is asked to.   *)
(* The validity check must hold for whatever allocator is linked in, so    *)
(* the model also runs that pass on one that returns any address.          *)
(*                                                                         *)
(* The unit is the size of a size_t; a cell of the heap holds a number.    *)
(***************************************************************************)
EXTENDS Integers, Sequences, FiniteSets, FiniteSetsExt, SequencesExt

CONSTANTS
    MAX_HEAP,   \* cells of the heap
    ALIGNMENT,  \* in cells
    IntMod,     \* 2^w for the w bits of an int, counted in cells; more than twice MAX_HEAP
    CharMod,    \* 2^w for the w bits of a char, which is signed
    Ids, Sizes, \* of the requests of a trace
    Addrs,      \* bound: the addresses an unknown allocator returns
    MaxOps, MaxTraces       \* bounds: requests of a trace (fewer after a long one), traces

ASSUME HeapOK ==
    /\ MAX_HEAP \in Nat /\ ALIGNMENT \in Nat \ {0} /\ IntMod \in Nat /\ MAX_HEAP < IntMod \div 2
    /\ IsFiniteSet(Ids) /\ Sizes \subseteq Nat /\ Addrs \subseteq Int /\ MaxOps \in Nat

VARIABLES
    package,    \* the allocator: "libc", "mm" or "any"
    phase,         \* "read", one of the passes, "results", or how the program ended
    num_ops, ops, traces,       \* the trace, and how many have been read
    k,          \* requests of it done in this pass
    heap,       \* [brk, mem]: addresses count from mem_start_brk
    ranges,     \* the driver's list of payloads, latest first
    blocks, block_sizes,
    total_size, max_total_size, errors,
    stats,      \* mm_stats: of each trace [valid, hwm, heapsize]
    perfindex

mdriverVars == <<package, phase, num_ops, ops, traces, k, heap, ranges, blocks, block_sizes,
          total_size, max_total_size, errors, stats, perfindex>>
replayVars == <<package, num_ops, traces, stats, perfindex>>
sums == <<total_size, max_total_size>>

NULL == -1
Op(type, i, size) == [type |-> type, index |-> i, size |-> size]
Extent(lo, hi) == [lo |-> lo, hi |-> hi]
Stats(valid, hwm, heapsize) == [valid |-> valid, hwm |-> hwm, heapsize |-> heapsize]

\* Before it is written a cell holds no char.
mem_init == [brk |-> 0, mem |-> [a \in 0 .. MAX_HEAP - 1 |-> CharMod]]

MdriverInit ==
    /\ package \in {"libc", "mm", "any"} /\ phase = "read"
    /\ num_ops \in 1 .. MaxOps /\ ops = <<>> /\ traces = 0 /\ k = 0
    /\ heap = mem_init
    /\ ranges = <<>> /\ blocks = [i \in Ids |-> NULL] /\ block_sizes = [i \in Ids |-> 0]
    /\ total_size = 0 /\ max_total_size = 0 /\ errors = 0
    /\ stats = <<>> /\ perfindex = 0

-----------------------------------------------------------------------------
(* memlib.c and mm.c: a call returns its address with the heap it leaves    *)

ALIGN(n) == ALIGNMENT * ((n + ALIGNMENT - 1) \div ALIGNMENT)
SIZE_T_SIZE == ALIGN(1)
ToInt(n) == IF n % IntMod < IntMod \div 2 THEN n % IntMod ELSE (n % IntMod) - IntMod

mem_reset_brk(h) == [h EXCEPT !.brk = 0]
mem_heap_hi(h) == h.brk - 1
mem_heapsize(h) == h.brk

mem_sbrk(h, incr) ==
    IF incr < 0 \/ h.brk + incr > MAX_HEAP THEN [p |-> NULL, heap |-> h]
    ELSE [p |-> h.brk, heap |-> [h EXCEPT !.brk = @ + incr]]

\* A mutant: the header is not in the block's size.
mm_malloc_tight(h, size) ==
    LET r == mem_sbrk(h, ToInt(ALIGN(size)))
    IN  IF r.p = NULL THEN r
        ELSE [p |-> r.p + SIZE_T_SIZE, heap |-> [r.heap EXCEPT !.mem[r.p] = size]]

mm_malloc(h, size) ==
    LET r == mem_sbrk(h, ToInt(ALIGN(size + SIZE_T_SIZE)))
    IN  IF r.p = NULL THEN r
        ELSE [p |-> r.p + SIZE_T_SIZE, heap |-> [r.heap EXCEPT !.mem[r.p] = size]]

Copy(h, to, from, n) ==
    [h EXCEPT !.mem = [a \in DOMAIN @ |-> IF a \in to .. to + n - 1 THEN @[from + a - to] ELSE @[a]]]

mm_free(h) == h

mm_realloc(h, old, size) ==
    LET r == mm_malloc(h, size)
    IN  IF r.p = NULL THEN r
        ELSE [r EXCEPT !.heap = mm_free(Copy(r.heap, r.p, old, Min({size, h.mem[old - SIZE_T_SIZE]})))]

\* An allocator of which nothing is known: it may fail, return any address, and
\* forget to copy; its heap is as long as it can be.
AnyMalloc(h) == [p : {NULL} \cup Addrs, heap : {[h EXCEPT !.brk = MAX_HEAP]}]

\* Nothing is checked of the library's but that it returns an address.
LibcMalloc(h) == [p : {NULL, 0}, heap : {h}]

Malloc(size) ==
    CASE package = "mm" -> {mm_malloc(heap, size)}
      [] package = "libc" -> LibcMalloc(heap)
      [] package = "any" -> AnyMalloc(heap)

Realloc(old, size) ==
    CASE package = "mm" -> {mm_realloc(heap, old, size)}
      [] package = "libc" -> LibcMalloc(heap)
      [] package = "any" -> AnyMalloc(heap) \cup
             {[r EXCEPT !.heap = Copy(r.heap, r.p, old, size)] :
                 r \in {r \in AnyMalloc(heap) : r.p # NULL /\ {r.p, old} \subseteq 0 .. MAX_HEAP - size}}

-----------------------------------------------------------------------------
(* read_trace(): the lines of a file whose requests are of blocks in use, as *)
(* those of the traces are                                                  *)

Frees(op, i) == op.type = "free" /\ op.index = i

\* The blocks in use after the requests s.
Live(s) ==
    {i \in Ids : \E n \in DOMAIN s : /\ s[n].type = "alloc" /\ s[n].index = i
                                    /\ \A m \in n + 1 .. Len(s) : ~Frees(s[m], i)}

ReadLine(op) ==
    /\ phase = "read" /\ Len(ops) < num_ops
    /\ (op.type = "alloc") = (op.index \notin Live(ops))
    /\ ops' = Append(ops, op)
    /\ UNCHANGED <<replayVars, phase, k, heap, ranges, blocks, block_sizes, sums, errors>>

\* The end of the file: the header's counts are asserted.  Then eval_mm_valid
\* resets the heap, and frees the ranges of the last trace.
HeaderOK ==
    /\ Max({0} \cup {ops[n].index : n \in DOMAIN ops}) = Cardinality(Ids) - 1
    /\ Len(ops) = num_ops

clear_ranges == ranges' = <<>>

EndTrace ==
    /\ phase = "read"
    /\ phase' = CASE ~HeaderOK -> "assertion_failed"
               [] HeaderOK /\ package = "libc" -> "libc_valid"
               [] HeaderOK /\ package # "libc" -> "valid"
    /\ k' = 0 /\ clear_ranges /\ heap' = mem_reset_brk(heap)
    /\ traces' = traces + 1
    /\ UNCHANGED <<package, num_ops, ops, blocks, block_sizes, sums, errors, stats, perfindex>>

-----------------------------------------------------------------------------
(* eval_mm_valid()                                                          *)

\* add_range() accepts a payload that is aligned, in the heap, and has neither end
\* in a payload of the list.
InRange(a, r) == r.lo <= a /\ a <= r.hi

\* A mutant: only the first address is looked for in the payloads of the list.
RangeOKAtLo(list, lo, size, hi) ==
    /\ lo % ALIGNMENT = 0
    /\ lo >= 0 /\ lo + size - 1 <= hi
    /\ \A n \in DOMAIN list : ~InRange(lo, list[n])

RangeOK(list, lo, size, hi) ==
    /\ lo % ALIGNMENT = 0
    /\ lo >= 0 /\ lo + size - 1 <= hi
    /\ \A n \in DOMAIN list : ~InRange(lo, list[n]) /\ ~InRange(lo + size - 1, list[n])

\* The first payload of the list that starts at lo goes.
remove_range(list, lo) == RemoveFirstMatch(list, LAMBDA r : r.lo = lo)

\* The low byte of a block's number, and what is read of it through a pointer to char.
LowByte(i) == i % CharMod
Char(i) == IF LowByte(i) < CharMod \div 2 THEN LowByte(i) ELSE LowByte(i) - CharMod

\* memset
Fill(h, lo, size, i) ==
    [h EXCEPT !.mem = [a \in DOMAIN @ |-> IF a \in lo .. lo + size - 1 THEN Char(i) ELSE @[a]]]

\* A fault of the allocator ends the pass (malloc_error, return 0).
Fault(list, h) ==
    /\ phase' = "invalid" /\ errors' = errors + 1
    /\ ranges' = list /\ heap' = h
    /\ UNCHANGED <<blocks, block_sizes, k>>

\* The request on block i was answered with r, and the list is without i's old
\* payload: the new one is checked, recorded, and filled with the low byte of i.
Take(list, i, r, size, contentKept) ==
    LET new == <<Extent(r.p, r.p + size - 1)>> \o list
    IN  \/ r.p = NULL /\ Fault(ranges, heap)
        \/ /\ r.p # NULL /\ size <= 0
           /\ phase' = "assertion_failed"
           /\ UNCHANGED <<heap, ranges, blocks, block_sizes, k, errors>>
        \/ /\ r.p # NULL /\ size > 0 /\ ~RangeOK(list, r.p, size, mem_heap_hi(r.heap))
           /\ Fault(list, r.heap)
        \/ /\ r.p # NULL /\ size > 0 /\ RangeOK(list, r.p, size, mem_heap_hi(r.heap))
           /\ ~contentKept /\ Fault(new, r.heap)
        \/ /\ r.p # NULL /\ size > 0 /\ RangeOK(list, r.p, size, mem_heap_hi(r.heap))
           /\ contentKept
           /\ heap' = Fill(r.heap, r.p, size, i)
           /\ ranges' = new
           /\ blocks' = [blocks EXCEPT ![i] = r.p]
           /\ block_sizes' = [block_sizes EXCEPT ![i] = size]
           /\ k' = k + 1 /\ UNCHANGED <<phase, errors>>

ValidAlloc(op) ==
    /\ op.type = "alloc"
    /\ \E r \in Malloc(op.size) : Take(ranges, op.index, r, op.size, TRUE)

\* What the new payload holds is compared as a char with an int.
ValidRealloc(op) ==
    LET i == op.index
    IN  /\ op.type = "realloc"
        /\ \E r \in Realloc(blocks[i], op.size) :
              Take(remove_range(ranges, blocks[i]), i, r, op.size,
                   \A j \in 0 .. Min({op.size, block_sizes[i]}) - 1 : r.heap.mem[r.p + j] = LowByte(i))

ValidFree(op) ==
    /\ op.type = "free"
    /\ ranges' = remove_range(ranges, blocks[op.index])
    /\ k' = k + 1
    /\ UNCHANGED <<phase, heap, blocks, block_sizes, errors>>

Valid ==
    /\ phase = "valid" /\ k < num_ops
    /\ ValidAlloc(ops[k + 1]) \/ ValidRealloc(ops[k + 1]) \/ ValidFree(ops[k + 1])
    /\ UNCHANGED <<replayVars, ops, sums>>

-----------------------------------------------------------------------------
(* eval_mm_util() and eval_mm_speed(): the same requests, unchecked; the     *)
(* first sums up what is in use                                             *)

NewTotal(op) ==
    CASE op.type = "alloc" -> total_size + op.size
      [] op.type = "realloc" -> total_size + (op.size - block_sizes[op.index])
      [] op.type = "free" -> total_size - block_sizes[op.index]

\* Without memory the program ends, as in unix_error for the library's.
app_error == phase' = "app_error"

Serve(op) ==
    IF op.type = "free" THEN k' = k + 1 /\ UNCHANGED <<phase, heap, blocks>>
    ELSE \E r \in IF op.type = "alloc" THEN Malloc(op.size) ELSE Realloc(blocks[op.index], op.size) :
            /\ heap' = r.heap
            /\ blocks' = [blocks EXCEPT ![op.index] = r.p]
            /\ IF r.p = NULL THEN app_error /\ UNCHANGED k ELSE k' = k + 1 /\ UNCHANGED phase

Util ==
    LET op == ops[k + 1]
    IN  /\ phase = "util" /\ k < num_ops
        /\ Serve(op)
        /\ block_sizes' = IF op.type = "free" THEN block_sizes
                          ELSE [block_sizes EXCEPT ![op.index] = op.size]
        /\ total_size' = NewTotal(op)
        /\ max_total_size' = Max({max_total_size, NewTotal(op)})
        /\ UNCHANGED <<replayVars, ops, ranges, errors>>

Speed ==                        \* also eval_libc_valid() and eval_libc_speed()
    /\ phase \in {"speed", "libc_valid", "libc_speed"} /\ k < num_ops
    /\ Serve(ops[k + 1])
    /\ UNCHANGED <<replayVars, ops, ranges, block_sizes, sums, errors>>

\* main(): from pass to pass, each of which starts with an empty heap; that for speed is
\* timed several times.
After == CASE phase = "valid" -> {"util"}
           [] phase = "util" -> {"speed"}
           [] phase = "libc_valid" -> {"libc_speed"}
           [] phase \in {"speed", "libc_speed"} -> {phase, "next"}

EndPass ==
    /\ phase \in {"libc_valid", "libc_speed", "valid", "util", "speed"} /\ k = num_ops
    /\ package # "any"
    /\ phase' \in After
    /\ k' = 0
    /\ heap' = mem_reset_brk(heap)
    /\ total_size' = 0 /\ max_total_size' = 0
    /\ stats' = IF phase = "util"
                THEN Append(stats, Stats(TRUE, max_total_size, mem_heapsize(heap)))
                ELSE stats
    /\ UNCHANGED <<package, num_ops, traces, ops, ranges, blocks, block_sizes, errors, perfindex>>

\* The next trace has arrays of its own.
free_trace == ops' = <<>> /\ blocks' = [i \in Ids |-> NULL] /\ block_sizes' = [i \in Ids |-> 0]

\* read_trace() for the next file; after the last one of the library's turn it is mm's.
NextTrace ==
    /\ phase \in {"next", "invalid"}
    /\ stats' = IF phase = "next" THEN stats
                ELSE Append(stats, Stats(FALSE, 0, 0))
    /\ phase' = IF traces = MaxTraces /\ package # "libc" THEN "results" ELSE "read"
    /\ package' = IF traces = MaxTraces /\ package = "libc" THEN "mm" ELSE package
    /\ traces' = IF traces = MaxTraces /\ package = "libc" THEN 0 ELSE traces
    /\ num_ops' \in 1 .. Max({1, MaxOps - num_ops})
    /\ k' = 0 /\ free_trace
    /\ UNCHANGED <<heap, ranges, sums, errors, perfindex>>

\* In percent; thru is what the throughput is of the library's.
Utils == [n \in DOMAIN stats |-> IF stats[n].valid THEN (100 * stats[n].hwm) \div stats[n].heapsize ELSE 0]

\* The utilisations are added up trace by trace.
SumOf(u) == LET util[n \in 0 .. Len(u)] == IF n = 0 THEN 0 ELSE util[n - 1] + u[n]
            IN  util[Len(u)]

PrintResults(thru) ==
    /\ phase = "results" /\ phase' = "exit"
    /\ perfindex' = IF errors > 0 THEN 0
                    ELSE (60 * SumOf(Utils)) \div (100 * Len(stats)) + (40 * Min({thru, 100})) \div 100
    /\ UNCHANGED <<package, num_ops, traces, k, ops, heap, ranges, blocks, block_sizes, sums, errors, stats>>

Requests == {Op("free", i, 0) : i \in Ids}
                \cup {Op(t, i, size) : t \in {"alloc", "realloc"}, i \in Ids, size \in Sizes}

MdriverNext ==
    \/ \E op \in Requests : ReadLine(op)
    \/ EndTrace \/ Valid \/ Util \/ Speed \/ EndPass \/ NextTrace
    \/ \E thru \in {0, 150} : PrintResults(thru)

MdriverSpec == MdriverInit /\ [][MdriverNext]_mdriverVars

-----------------------------------------------------------------------------
(* Properties                                                               *)

Done == SubSeq(ops, 1, k)
Payload(i) == blocks[i] .. blocks[i] + block_sizes[i] - 1

\* During the validity pass the list holds the payloads of the blocks in use and no
\* others, whatever the allocator and the traces before.
RangesAreLive == phase = "valid" =>
    /\ {r.lo .. r.hi : r \in {ranges[n] : n \in DOMAIN ranges}} = {Payload(i) : i \in Live(Done)}
    /\ Len(ranges) = Cardinality(Live(Done))

\* What the comments of add_range() and eval_mm_valid() say: no two payloads of the list
\* overlap.  It fails of an allocator whose payload encloses an older one.
OverlapsNoticed == phase = "valid" =>
    \A m \in DOMAIN ranges : \A n \in 1 .. m - 1 :
        ranges[m].hi < ranges[n].lo \/ ranges[n].hi < ranges[m].lo

\* What the test of both ends does achieve: of two payloads that overlap, the later one
\* reaches beyond the older on both sides.
OverlapsEnclose == phase = "valid" =>
    \A m \in DOMAIN ranges : \A n \in 1 .. m - 1 :
        \/ ranges[m].hi < ranges[n].lo \/ ranges[n].hi < ranges[m].lo
        \/ ranges[n].lo < ranges[m].lo /\ ranges[m].hi < ranges[n].hi

\* The check knows what is in use, and no payload ends within an older one.
CheckSound == RangesAreLive /\ OverlapsEnclose

\* mm.c keeps each block in use whole while others are allocated, resized and
\* freed: no header or payload of another reaches into it.
PayloadsKept == (package = "mm" /\ phase = "valid") =>
    \A i \in Live(Done) :
        /\ \A a \in Payload(i) : heap.mem[a] = Char(i)
        /\ heap.mem[blocks[i] - SIZE_T_SIZE] = block_sizes[i]

\* A resized block whose number has the top bit of its low byte set is taken for one whose
\* content was lost.
Misread(op) == op.type = "realloc" /\ Char(op.index) # LowByte(op.index)

\* The driver finds fault with mm.c when memory, or the int that holds a block's size, is
\* too small; and when it misreads a block, which it does every time.
MmIsValid ==
    /\ phase = "app_error" => package = "libc"
    /\ package = "mm" /\ phase = "invalid" =>
           \/ Misread(ops[k + 1])
           \/ heap.brk + ALIGN(ops[k + 1].size + SIZE_T_SIZE) > MAX_HEAP
    /\ package = "mm" /\ phase = "valid" => \A n \in 1 .. k : ~Misread(ops[n])

\* max_total_size is the high-water mark of the sizes in use, and no more than the
\* heap that the allocator has taken for them: utilisation is at most 1.
SizeOf(s, i) == s[Max({n \in DOMAIN s : s[n].index = i})].size
InUse(s) == Cardinality(UNION {{i} \X (1 .. SizeOf(s, i)) : i \in Live(s)})

UtilIsHighWater == (package = "mm" /\ phase = "util") =>
    /\ total_size = InUse(Done)
    /\ max_total_size = Max({InUse(SubSeq(Done, 1, n)) : n \in 0 .. k})
    /\ max_total_size <= heap.brk

\* Points are for an allocator that is valid on every trace, and no more than 100.
PointsEarned == phase = "exit" =>
    /\ Len(stats) = traces
    /\ IF \A n \in DOMAIN stats : stats[n].valid THEN perfindex \in 0 .. 100 ELSE perfindex = 0

\* The blocks of mm.c stay whole, the driver agrees, and what it scores is right.
MmScored == PayloadsKept /\ MmIsValid /\ UtilIsHighWater /\ PointsEarned
=============================================================================
