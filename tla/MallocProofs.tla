---------------------------- MODULE MallocProofs ----------------------------
(***************************************************************************)
(* The malloc lab for a heap, an alignment and traces of any size.  What   *)
(* mdriver.c knows of the payloads in use, whatever allocator it checks;   *)
(* that mm.c keeps its blocks whole and passes that check as long as       *)
(* memory is left; and that its utilisation and its points are what the    *)
(* requests say.                                                           *)
(***************************************************************************)
EXTENDS MallocDriver, FiniteSetTheorems, SequenceTheorems, WellFoundedInduction, TLAPS

\* A set of natural numbers that is not empty has a least member, and if it is bounded
\* a greatest one.
LEMMA LeastExists ==
    ASSUME NEW S, S \subseteq Nat, S # {}
    PROVE  \E x \in S : \A y \in S : x <= y
  <1> DEFINE Below == {ss \in Nat \X Nat : ss[1] < ss[2]}
  <1>1. PICK x \in S : \A y \in S : <<y, x>> \notin Below
    <2>1. IsWellFoundedOn(Below, Nat)
      BY NatLessThanWellFounded DEF OpToRel
    <2> HIDE DEF Below
    <2> QED BY <2>1, WFMin
  <1>2. \A y \in S : <<y, x>> \notin Below => x <= y
    <2> TAKE y \in S
    <2>1. <<y, x>> \in Nat \X Nat /\ <<y, x>>[1] = y /\ <<y, x>>[2] = x
      OBVIOUS
    <2> QED BY <2>1
  <1> QED BY <1>1, <1>2

LEMMA GreatestExists ==
    ASSUME NEW S, NEW b \in Nat, S \subseteq 0 .. b, S # {}
    PROVE  \E x \in S : \A y \in S : y <= x
  <1> DEFINE Gaps == {b - y : y \in S}
  <1>1. PICK d \in Gaps : \A e \in Gaps : d <= e
    <2>1. \A y \in S : b - y \in Nat
      OBVIOUS
    <2>2. Gaps \subseteq Nat /\ Gaps # {}
      BY <2>1
    <2> HIDE DEF Gaps
    <2> QED BY <2>2, LeastExists
  <1>2. PICK x \in S : d = b - x
    OBVIOUS
  <1>3. \A y \in S : y <= x
    <2> TAKE y \in S
    <2>1. b - x <= b - y
      BY <1>1, <1>2
    <2> QED BY <2>1
  <1> QED BY <1>3

-----------------------------------------------------------------------------
(* The list of payloads and the validity check                              *)

Payloads == [lo : Int, hi : Int]
Members(list) == {list[j] : j \in DOMAIN list}

\* A list as add_range() lets it grow: the latest payload, and each before it, may enclose an
\* earlier one on both sides and overlaps none otherwise.
Spread(list) ==
    /\ list \in Seq(Payloads)
    /\ \A a \in DOMAIN list : list[a].lo <= list[a].hi
    /\ \A a \in DOMAIN list : \A b \in 1 .. a - 1 :
           \/ list[a].hi < list[b].lo \/ list[b].hi < list[a].lo
           \/ list[b].lo < list[a].lo /\ list[a].hi < list[b].hi

LEMMA SpreadTypes ==
    ASSUME NEW list, Spread(list), NEW a \in DOMAIN list
    PROVE  list[a] \in Payloads /\ list[a].lo \in Int /\ list[a].hi \in Int /\ list[a].lo <= list[a].hi
  <1>1. list[a] \in Payloads
    BY DEF Spread
  <1>2. \A r \in Payloads : r.lo \in Int /\ r.hi \in Int
    BY DEF Payloads
  <1> QED BY <1>1, <1>2, Zenon DEF Spread

LEMMA SpreadApart ==
    ASSUME NEW list, Spread(list), NEW a \in DOMAIN list, NEW b \in DOMAIN list, a # b
    PROVE  list[a].lo # list[b].lo
  <1>1. /\ list[a].lo \in Int /\ list[a].hi \in Int /\ list[a].lo <= list[a].hi
        /\ list[b].lo \in Int /\ list[b].hi \in Int /\ list[b].lo <= list[b].hi
    BY SpreadTypes
  <1>2. a \in 1 .. b - 1 \/ b \in 1 .. a - 1
    BY DEF Spread
  <1>3. \/ list[a].hi < list[b].lo \/ list[b].hi < list[a].lo
        \/ list[b].lo < list[a].lo \/ list[a].lo < list[b].lo
    BY <1>2, Zenon DEF Spread
  <1> QED BY <1>1, <1>3

\* Without the payload at q.
LEMMA Shortened ==
    ASSUME NEW S, NEW list \in Seq(S), NEW q \in DOMAIN list
    PROVE  /\ RemoveAt(list, q) \in Seq(S) /\ Len(RemoveAt(list, q)) = Len(list) - 1
           /\ \A j \in 1 .. Len(list) - 1 :
                  RemoveAt(list, q)[j] = IF j < q THEN list[j] ELSE list[j + 1]
  <1> DEFINE front == SubSeq(list, 1, q - 1)
             back == SubSeq(list, q + 1, Len(list))
  <1>1. q \in Nat /\ Len(list) \in Nat /\ 1 <= q /\ q <= Len(list)
    OBVIOUS
  <1>2. /\ front \in Seq(S) /\ Len(front) = q - 1
        /\ \A j \in 1 .. q - 1 : front[j] = list[j]
    BY <1>1
  <1>3. /\ back \in Seq(S) /\ Len(back) = Len(list) - q
        /\ \A j \in 1 .. Len(list) - q : back[j] = list[j + q]
    BY <1>1
  <1>4. RemoveAt(list, q) = front \o back
    BY DEF RemoveAt
  <1> HIDE DEF front, back
  <1>5. /\ front \o back \in Seq(S) /\ Len(front \o back) = Len(list) - 1
        /\ \A j \in 1 .. Len(list) - 1 :
              (front \o back)[j] = IF j <= q - 1 THEN front[j] ELSE back[j - (q - 1)]
    <2>1. /\ front \o back \in Seq(S) /\ Len(front \o back) = Len(front) + Len(back)
          /\ \A j \in 1 .. Len(front) + Len(back) :
                (front \o back)[j] = IF j <= Len(front) THEN front[j] ELSE back[j - Len(front)]
      BY <1>2, <1>3, ConcatProperties, Zenon
    <2>2. Len(front) + Len(back) = Len(list) - 1
      BY <1>1, <1>2, <1>3
    <2> QED BY <1>2, <2>1, <2>2, Zenon
  <1>6. \A j \in 1 .. Len(list) - 1 :
              (front \o back)[j] = IF j < q THEN list[j] ELSE list[j + 1]
    <2> TAKE j \in 1 .. Len(list) - 1
    <2>1. CASE j < q
      BY <1>1, <1>2, <1>5, <2>1
    <2>2. CASE j >= q
      <3>1. j - (q - 1) \in 1 .. Len(list) - q /\ (j - (q - 1)) + q = j + 1 /\ ~(j <= q - 1) /\ ~(j < q)
        BY <1>1, <2>2
      <3>2. (front \o back)[j] = back[j - (q - 1)]
        BY <1>5, <3>1
      <3> QED BY <1>3, <3>1, <3>2
    <2>3. j < q \/ j >= q
      BY <1>1
    <2> QED BY <2>1, <2>2, <2>3, Zenon
  <1> QED BY <1>4, <1>5, <1>6

LEMMA RangeRemoved ==
    ASSUME NEW list, Spread(list), NEW q \in DOMAIN list
    PROVE  LET less == remove_range(list, list[q].lo)
           IN  /\ Spread(less) /\ Len(less) = Len(list) - 1
               /\ Members(less) = Members(list) \ {list[q]}
  <1> DEFINE less == RemoveAt(list, q)
             hits == {j \in 1 .. Len(list) : list[j].lo = list[q].lo}
  <1>1. list \in Seq(Payloads) /\ q \in 1 .. Len(list) /\ Len(list) \in Nat /\ DOMAIN list = 1 .. Len(list)
    BY DEF Spread
  <1>2. hits = {q}
    BY <1>1, SpreadApart
  <1>3. remove_range(list, list[q].lo) = less
    <2>1. Min({q}) = q
      BY <1>1 DEF Min
    <2> HIDE DEF less
    <2>2. SelectInSeq(list, LAMBDA r : r.lo = list[q].lo) = q
      BY <1>2, <2>1 DEF SelectInSeq
    <2> QED BY <1>1, <2>2 DEF remove_range, RemoveFirstMatch, less
  <1>4. /\ less \in Seq(Payloads) /\ Len(less) = Len(list) - 1
        /\ \A j \in 1 .. Len(list) - 1 : less[j] = IF j < q THEN list[j] ELSE list[j + 1]
    <2> HIDE DEF hits
    <2> QED BY <1>1, Shortened, Zenon
  <1> HIDE DEF less
  <1>5. DOMAIN less = 1 .. Len(list) - 1
    BY <1>4
  <1> DEFINE old(j) == IF j < q THEN j ELSE j + 1
  <1>6. \A j \in DOMAIN less : old(j) \in DOMAIN list /\ old(j) # q /\ less[j] = list[old(j)]
    BY <1>1, <1>4, <1>5
  <1>7. \A a, b \in DOMAIN less : b \in 1 .. a - 1 => old(b) \in 1 .. old(a) - 1
    BY <1>1, <1>5
  <1>8. \A b \in DOMAIN list \ {q} : \E j \in DOMAIN less : old(j) = b
    <2> TAKE b \in DOMAIN list \ {q}
    <2>1. CASE b < q
      BY <1>1, <1>5, <2>1
    <2>2. CASE b > q
      <3>1. b - 1 \in DOMAIN less /\ old(b - 1) = b
        BY <1>1, <1>5, <2>2
      <3> QED BY <3>1
    <2> QED BY <1>1, <2>1, <2>2
  <1>9. \A a \in DOMAIN less : 1 .. a - 1 \subseteq DOMAIN less
    BY <1>1, <1>5
  <1> HIDE DEF old
  <1>10. Spread(less)
    <2>1. \A a \in DOMAIN less : less[a].lo <= less[a].hi
      BY <1>6 DEF Spread
    <2>2. ASSUME NEW a \in DOMAIN less, NEW b \in 1 .. a - 1
          PROVE  \/ less[a].hi < less[b].lo \/ less[b].hi < less[a].lo
                 \/ less[b].lo < less[a].lo /\ less[a].hi < less[b].hi
      <3>1. b \in DOMAIN less
        BY <1>9, <2>2
      <3>2. old(a) \in DOMAIN list /\ old(b) \in 1 .. old(a) - 1 /\ less[a] = list[old(a)] /\ less[b] = list[old(b)]
        BY <1>6, <1>7, <3>1
      <3> QED BY <3>2, Zenon DEF Spread
    <2> QED BY <1>4, <2>1, <2>2, Zenon DEF Spread
  <1>11. Members(less) = Members(list) \ {list[q]}
    <2>1. Members(less) \subseteq Members(list) \ {list[q]}
      <3> SUFFICES ASSUME NEW j \in DOMAIN less PROVE less[j] \in Members(list) \ {list[q]}
        BY DEF Members
      <3>1. list[old(j)].lo # list[q].lo
        BY <1>6, SpreadApart
      <3> QED BY <1>6, <3>1 DEF Members
    <2>2. Members(list) \ {list[q]} \subseteq Members(less)
      <3> SUFFICES ASSUME NEW b \in DOMAIN list, list[b] # list[q] PROVE list[b] \in Members(less)
        BY DEF Members
      <3>1. PICK j \in DOMAIN less : old(j) = b
        BY <1>8
      <3> QED BY <1>6, <3>1 DEF Members
    <2> QED BY <2>1, <2>2
  <1> QED BY <1>3, <1>4, <1>10, <1>11

\* Neither end of a payload is in one of the list.
EndsClear(list, lo, size) ==
    \A a \in DOMAIN list : ~InRange(lo, list[a]) /\ ~InRange(lo + size - 1, list[a])

WithPayload(list, lo, size) == <<Extent(lo, lo + size - 1)>> \o list

\* more is the list with a payload that starts where no other does.
OneMore(more, list, lo, size) ==
    /\ Spread(more) /\ Len(more) = Len(list) + 1
    /\ Members(more) = Members(list) \cup {Extent(lo, lo + size - 1)}
    /\ \A a \in DOMAIN list : list[a].lo # lo

LEMMA RangeAdded ==
    ASSUME NEW list, Spread(list), NEW lo \in Int, NEW size \in Int, size > 0, EndsClear(list, lo, size)
    PROVE  OneMore(WithPayload(list, lo, size), list, lo, size)
  <1> DEFINE new == Extent(lo, lo + size - 1)
             more == <<new>> \o list
  <1>1. new \in Payloads /\ new.lo = lo /\ new.hi = lo + size - 1 /\ new.lo <= new.hi
    BY DEF Extent, Payloads
  <1>2. list \in Seq(Payloads) /\ Len(list) \in Nat /\ DOMAIN list = 1 .. Len(list)
    BY DEF Spread
  <1> HIDE DEF new
  <1>3. /\ more \in Seq(Payloads) /\ Len(more) = Len(list) + 1 /\ DOMAIN more = 1 .. Len(list) + 1
        /\ more[1] = new /\ \A a \in 1 .. Len(list) : more[a + 1] = list[a]
    BY <1>1, <1>2
  <1> HIDE DEF more
  <1>4. \A a \in DOMAIN more : a = 1 \/ (a - 1 \in DOMAIN list /\ more[a] = list[a - 1])
    <2> TAKE a \in DOMAIN more
    <2>1. a # 1 => a - 1 \in DOMAIN list /\ (a - 1) + 1 = a
      BY <1>2, <1>3
    <2> QED BY <1>2, <1>3, <2>1
  <1>5. \A a \in DOMAIN list : /\ list[a].lo \in Int /\ list[a].hi \in Int /\ list[a].lo <= list[a].hi
                              /\ \/ list[a].hi < new.lo \/ new.hi < list[a].lo
                                 \/ new.lo < list[a].lo /\ list[a].hi < new.hi
                              /\ list[a].lo # lo
    <2> TAKE a \in DOMAIN list
    <2>1. list[a].lo \in Int /\ list[a].hi \in Int /\ list[a].lo <= list[a].hi
      BY SpreadTypes
    <2> QED BY <1>1, <2>1 DEF InRange, EndsClear
  <1>6. Spread(more)
    <2>1. \A a \in DOMAIN more : more[a].lo <= more[a].hi
      BY <1>1, <1>3, <1>4, <1>5
    <2>2. ASSUME NEW a \in DOMAIN more, NEW b \in 1 .. a - 1
          PROVE  \/ more[a].hi < more[b].lo \/ more[b].hi < more[a].lo
                 \/ more[b].lo < more[a].lo /\ more[a].hi < more[b].hi
      <3>1. a - 1 \in DOMAIN list /\ more[a] = list[a - 1] /\ b \in DOMAIN more
        BY <1>3, <1>4
      <3>2. CASE b = 1
        BY <1>3, <1>5, <3>1, <3>2
      <3>3. CASE b # 1
        <4>1. more[b] = list[b - 1] /\ b - 1 \in 1 .. (a - 1) - 1
          BY <1>3, <1>4, <3>1, <3>3
        <4> QED BY <3>1, <4>1, Zenon DEF Spread
      <3> QED BY <3>2, <3>3
    <2> QED BY <1>3, <2>1, <2>2, Zenon DEF Spread
  <1>7. Members(more) = Members(list) \cup {new}
    <2>1. \A a \in DOMAIN more : more[a] \in Members(list) \cup {new}
      BY <1>3, <1>4 DEF Members
    <2>2. \A a \in DOMAIN list : a + 1 \in DOMAIN more /\ list[a] = more[a + 1]
      BY <1>2, <1>3
    <2>3. 1 \in DOMAIN more
      BY <1>2, <1>3
    <2>4. \A x \in Members(list) \cup {new} : x \in Members(more)
      BY <1>3, <2>2, <2>3, Zenon DEF Members
    <2>5. \A x \in Members(more) : x \in Members(list) \cup {new}
      BY <2>1, Zenon DEF Members
    <2> QED BY <2>4, <2>5, Zenon
  <1>8. OneMore(more, list, lo, size)
    BY <1>3, <1>5, <1>6, <1>7, Zenon DEF OneMore, new
  <1> QED BY <1>8 DEF new, more, WithPayload

\* The blocks in use after the first m requests of s.
LiveIn(s, m) ==
    {j \in Ids : \E a \in 1 .. m : /\ s[a].type = "alloc" /\ s[a].index = j
                                  /\ \A b \in a + 1 .. m : ~Frees(s[b], j)}

LEMMA LiveInSame ==
    ASSUME NEW s, NEW t, NEW m \in Nat, \A a \in 1 .. m : s[a] = t[a]
    PROVE  LiveIn(s, m) = LiveIn(t, m)
  <1>1. \A a \in 1 .. m : a + 1 .. m \subseteq 1 .. m
    OBVIOUS
  <1>2. \A j \in Ids : (\E a \in 1 .. m : /\ s[a].type = "alloc" /\ s[a].index = j
                                         /\ \A b \in a + 1 .. m : ~Frees(s[b], j))
                       <=> (\E a \in 1 .. m : /\ t[a].type = "alloc" /\ t[a].index = j
                                             /\ \A b \in a + 1 .. m : ~Frees(t[b], j))
    BY <1>1, Zenon
  <1> QED BY <1>2 DEF LiveIn

LEMMA LiveOfPrefix ==
    ASSUME NEW S, NEW s \in Seq(S)
    PROVE  /\ \A m \in 0 .. Len(s) : Live(SubSeq(s, 1, m)) = LiveIn(s, m)
           /\ Live(s) = LiveIn(s, Len(s))
  <1>1. \A t \in Seq(S) : Live(t) = LiveIn(t, Len(t))
    BY DEF Live, LiveIn
  <1>2. ASSUME NEW m \in 0 .. Len(s) PROVE Live(SubSeq(s, 1, m)) = LiveIn(s, m)
    <2> DEFINE t == SubSeq(s, 1, m)
    <2>1. m \in Nat /\ Len(s) \in Nat /\ m <= Len(s)
      OBVIOUS
    <2>2. t \in Seq(S) /\ Len(t) = m /\ \A a \in 1 .. m : t[a] = s[a]
      BY <2>1
    <2> HIDE DEF t
    <2>3. LiveIn(t, m) = LiveIn(s, m)
      BY <2>1, <2>2, LiveInSame
    <2>4. Live(t) = LiveIn(s, m)
      BY <1>1, <2>2, <2>3
    <2> QED BY <2>4 DEF t
  <1> QED BY <1>1, <1>2

LEMMA RequestTypes ==
    ASSUME NEW op \in Requests
    PROVE  op.type \in {"alloc", "realloc", "free"} /\ op.index \in Ids /\ op.size \in Int
  BY HeapOK DEF Requests, Op

\* What one more request changes of what is in use.
LEMMA LiveMoves ==
    ASSUME NEW s, NEW m \in Nat, s[m + 1] \in Requests
    PROVE  /\ s[m + 1].type = "alloc" => LiveIn(s, m + 1) = LiveIn(s, m) \cup {s[m + 1].index}
           /\ s[m + 1].type = "realloc" => LiveIn(s, m + 1) = LiveIn(s, m)
           /\ s[m + 1].type = "free" => LiveIn(s, m + 1) = LiveIn(s, m) \ {s[m + 1].index}
  <1> DEFINE op == s[m + 1]
             Holds(a, j, q) == /\ s[a].type = "alloc" /\ s[a].index = j
                               /\ \A b \in a + 1 .. q : ~Frees(s[b], j)
  <1>1. op.type \in {"alloc", "realloc", "free"} /\ op.index \in Ids
    BY RequestTypes
  <1>2. 1 .. m + 1 = (1 .. m) \cup {m + 1} /\ (m + 1) + 1 .. m + 1 = {}
    OBVIOUS
  <1>3. \A a \in 1 .. m : a + 1 .. m + 1 = (a + 1 .. m) \cup {m + 1}
    OBVIOUS
  <1>4. \A j \in Ids : j \in LiveIn(s, m) <=> \E a \in 1 .. m : Holds(a, j, m)
    BY DEF LiveIn
  <1>5. \A j \in Ids : j \in LiveIn(s, m + 1) <=> \E a \in 1 .. m + 1 : Holds(a, j, m + 1)
    BY DEF LiveIn
  <1>6. LiveIn(s, m) \subseteq Ids /\ LiveIn(s, m + 1) \subseteq Ids
    BY DEF LiveIn
  <1>7. \A j \in Ids : \A a \in 1 .. m : Holds(a, j, m + 1) <=> Holds(a, j, m) /\ ~Frees(op, j)
    <2> SUFFICES ASSUME NEW j \in Ids, NEW a \in 1 .. m
                 PROVE  (\A b \in a + 1 .. m + 1 : ~Frees(s[b], j))
                        <=> (\A b \in a + 1 .. m : ~Frees(s[b], j)) /\ ~Frees(op, j)
      BY Zenon
    <2>1. a + 1 .. m + 1 = (a + 1 .. m) \cup {m + 1}
      BY <1>3
    <2> QED BY <2>1
  <1>8. \A j \in Ids : Holds(m + 1, j, m + 1) <=> op.type = "alloc" /\ op.index = j
    BY <1>2, Zenon
  <1> HIDE DEF Holds, op
  <1>9. \A j \in Ids : j \in LiveIn(s, m + 1) <=>
            (j \in LiveIn(s, m) /\ ~Frees(op, j)) \/ (op.type = "alloc" /\ op.index = j)
    BY <1>2, <1>4, <1>5, <1>7, <1>8, Zenon
  <1>10. CASE op.type = "alloc"
    <2>1. \A j \in Ids : ~Frees(op, j)
      BY <1>10 DEF Frees
    <2>2. LiveIn(s, m + 1) = LiveIn(s, m) \cup {op.index}
      BY <1>1, <1>6, <1>9, <1>10, <2>1
    <2> QED BY <1>10, <2>2 DEF op
  <1>11. CASE op.type = "realloc"
    <2>1. \A j \in Ids : ~Frees(op, j)
      BY <1>11 DEF Frees
    <2>2. LiveIn(s, m + 1) = LiveIn(s, m)
      BY <1>6, <1>9, <1>11, <2>1
    <2> QED BY <1>11, <2>2 DEF op
  <1>12. CASE op.type = "free"
    <2>1. \A j \in Ids : Frees(op, j) <=> j = op.index
      BY <1>12 DEF Frees
    <2>2. LiveIn(s, m + 1) = LiveIn(s, m) \ {op.index}
      BY <1>6, <1>9, <1>12, <2>1
    <2> QED BY <1>12, <2>2 DEF op
  <1> QED BY <1>1, <1>10, <1>11, <1>12

\* The list holds the payloads of the blocks S, no two of which start at the same address.
Tracks(list, blks, szs, S) ==
    /\ Members(list) = {Extent(blks[j], blks[j] + szs[j] - 1) : j \in S}
    /\ \A a, b \in S : a # b => blks[a] # blks[b]
    /\ Len(list) = Cardinality(S)

LEMMA TracksLess ==
    ASSUME NEW list, NEW blks \in [Ids -> Int], NEW szs \in [Ids -> Int], NEW S \in SUBSET Ids,
           NEW id \in S, Spread(list), Tracks(list, blks, szs, S)
    PROVE  /\ Spread(remove_range(list, blks[id]))
           /\ Tracks(remove_range(list, blks[id]), blks, szs, S \ {id})
  <1> DEFINE ext(j) == Extent(blks[j], blks[j] + szs[j] - 1)
             less == remove_range(list, blks[id])
  <1>1. PICK q \in DOMAIN list : list[q] = ext(id)
    BY DEF Tracks, Members
  <1>2. list[q].lo = blks[id]
    BY <1>1 DEF Extent
  <1>3. Spread(less) /\ Len(less) = Len(list) - 1 /\ Members(less) = Members(list) \ {ext(id)}
    <2> HIDE DEF ext
    <2> QED BY <1>1, <1>2, RangeRemoved, Zenon
  <1>4. \A j \in S : j # id => ext(j) # ext(id)
    BY DEF Tracks, Extent
  <1> HIDE DEF less, ext
  <1>5. Members(less) = {ext(j) : j \in S \ {id}}
    <2>1. Members(list) = {ext(j) : j \in S}
      BY Zenon DEF Tracks, ext
    <2> QED BY <1>3, <1>4, <2>1
  <1>6. Len(less) = Cardinality(S \ {id})
    <2>1. IsFiniteSet(S)
      BY HeapOK, FS_Subset
    <2>2. Cardinality(S \ {id}) = Cardinality(S) - 1
      BY <2>1, FS_RemoveElement
    <2> QED BY <1>3, <2>2 DEF Tracks
  <1>7. \A a, b \in S \ {id} : a # b => blks[a] # blks[b]
    BY Zenon DEF Tracks
  <1> QED BY <1>3, <1>5, <1>6, <1>7, Zenon DEF Tracks, less, ext

LEMMA TracksMore ==
    ASSUME NEW list, NEW blks \in [Ids -> Int], NEW szs \in [Ids -> Int], NEW S \in SUBSET Ids,
           NEW id \in Ids, id \notin S, Spread(list), Tracks(list, blks, szs, S),
           NEW lo \in Int, NEW size \in Int, size > 0, NEW hi, RangeOK(list, lo, size, hi)
    PROVE  LET more == WithPayload(list, lo, size)
           IN  /\ Spread(more)
               /\ Tracks(more, [blks EXCEPT ![id] = lo], [szs EXCEPT ![id] = size], S \cup {id})
  <1> DEFINE new == Extent(lo, lo + size - 1)
             more == WithPayload(list, lo, size)
             blks1 == [blks EXCEPT ![id] = lo]
             szs1 == [szs EXCEPT ![id] = size]
             ext(j) == Extent(blks[j], blks[j] + szs[j] - 1)
             ext1(j) == Extent(blks1[j], blks1[j] + szs1[j] - 1)
  <1>1. EndsClear(list, lo, size)
    BY DEF RangeOK, EndsClear
  <1>2. /\ Spread(more) /\ Len(more) = Len(list) + 1 /\ Members(more) = Members(list) \cup {new}
        /\ \A a \in DOMAIN list : list[a].lo # lo
    <2>1. OneMore(WithPayload(list, lo, size), list, lo, size)
      BY <1>1, RangeAdded
    <2> QED BY <2>1, Zenon DEF OneMore
  <1>3. blks1[id] = lo /\ szs1[id] = size /\ \A j \in S : j # id /\ blks1[j] = blks[j] /\ szs1[j] = szs[j]
    OBVIOUS
  <1>4. ext1(id) = new /\ \A j \in S : ext1(j) = ext(j)
    BY <1>3, Zenon
  <1>5. Members(list) = {ext(j) : j \in S}
    BY Zenon DEF Tracks
  <1>6. \A j \in S : blks[j] # lo
    <2> TAKE j \in S
    <2>1. PICK a \in DOMAIN list : list[a] = ext(j)
      BY <1>5 DEF Members
    <2>2. list[a].lo = blks[j]
      BY <2>1 DEF Extent
    <2> QED BY <1>2, <2>2
  <1>7. \A a, b \in S \cup {id} : a # b => blks1[a] # blks1[b]
    BY <1>3, <1>6, Zenon DEF Tracks
  <1>8. Len(more) = Cardinality(S \cup {id})
    <2>1. IsFiniteSet(S)
      BY HeapOK, FS_Subset
    <2>2. Cardinality(S \cup {id}) = Cardinality(S) + 1
      BY <2>1, FS_AddElement
    <2> HIDE DEF more
    <2> QED BY <1>2, <2>2 DEF Tracks
  <1> HIDE DEF new, more, blks1, szs1, ext
  <1>9. Members(more) = {ext1(j) : j \in S \cup {id}}
    <2> HIDE DEF ext1
    <2> QED BY <1>2, <1>4, <1>5
  <1> QED BY <1>2, <1>7, <1>8, <1>9, Zenon DEF Tracks, new, more, blks1, szs1

\* Each request of a trace is of a block that is in use, or an allocation of one that is not.
Follow(s) == \A a \in DOMAIN s : s[a].type = "alloc" <=> s[a].index \notin LiveIn(s, a - 1)

HeapFields == {"brk", "mem"}

ReadInv == phase \in {"read", "valid"} =>
    /\ blocks \in [Ids -> Int] /\ block_sizes \in [Ids -> Int]
    /\ ops \in Seq(Requests) /\ Follow(ops)

ValidInv == phase = "valid" =>
    /\ k \in 0 .. Len(ops) /\ num_ops = Len(ops) /\ heap.brk \in Int
    /\ Spread(ranges) /\ Tracks(ranges, blocks, block_sizes, LiveIn(ops, k))

MallocInv ==
    /\ package \in {"libc", "mm", "any"} /\ DOMAIN heap = HeapFields
    /\ ReadInv /\ ValidInv

\* An answer of an allocator: an address and the heap it leaves.
Answers(b, size) ==
    /\ b = [p |-> b.p, heap |-> b.heap] /\ DOMAIN b.heap = HeapFields
    /\ heap.brk \in Int /\ size \in Int => b.heap.brk \in Int /\ b.p \in Int

LEMMA CopiedAnswers ==
    ASSUME NEW b, NEW size, Answers(b, size), NEW to, NEW from, NEW len
    PROVE  Answers([b EXCEPT !.heap = Copy(b.heap, to, from, len)], size)
  <1> DEFINE h == Copy(b.heap, to, from, len)
             b1 == [b EXCEPT !.heap = h]
  <1>1. DOMAIN b.heap = HeapFields /\ b = [p |-> b.p, heap |-> b.heap]
    BY DEF Answers
  <1>2. DOMAIN h = HeapFields /\ h.brk = b.heap.brk
    BY <1>1 DEF Copy, HeapFields
  <1> HIDE DEF h
  <1>3. b1 = [p |-> b.p, heap |-> h]
    BY <1>1
  <1>4. b1.p = b.p /\ b1.heap = h
    BY <1>3
  <1> HIDE DEF b1
  <1> QED BY <1>2, <1>3, <1>4 DEF Answers, b1, h

LEMMA AllocatorAnswers ==
    ASSUME package \in {"libc", "mm", "any"}, DOMAIN heap = HeapFields, NEW size, NEW old,
           NEW r \in Malloc(size) \cup Realloc(old, size)
    PROVE  Answers(r, size)
  <1>1. ASSUME heap.brk \in Int, size \in Int
        PROVE  /\ SIZE_T_SIZE \in Int
               /\ ToInt(ALIGN(size + SIZE_T_SIZE)) \in Int
    <2>1. \A b \in Int : ALIGN(b) \in Int
      <3> TAKE b \in Int
      <3>1. (b + ALIGNMENT - 1) \div ALIGNMENT \in Int
        BY HeapOK
      <3> QED BY <3>1, HeapOK DEF ALIGN
    <2>2. \A b \in Int : ToInt(b) \in Int
      <3> TAKE b \in Int
      <3>1. IntMod \in Nat \ {0} /\ b % IntMod \in Int
        BY HeapOK
      <3> QED BY <3>1 DEF ToInt
    <2>3. SIZE_T_SIZE \in Int
      BY <2>1 DEF SIZE_T_SIZE
    <2> QED BY <1>1, <2>1, <2>2, <2>3
  <1>2. ASSUME NEW incr, heap.brk \in Int /\ size \in Int => incr \in Int
        PROVE  Answers(mem_sbrk(heap, incr), size)
    <2>1. \/ mem_sbrk(heap, incr) = [p |-> -1, heap |-> heap]
          \/ mem_sbrk(heap, incr) = [p |-> heap.brk, heap |-> [heap EXCEPT !.brk = @ + incr]]
      BY DEF mem_sbrk, NULL
    <2> QED BY <1>2, <2>1 DEF Answers, HeapFields
  <1>3. Answers(mm_malloc(heap, size), size)
    <2> DEFINE b == mem_sbrk(heap, ToInt(ALIGN(size + SIZE_T_SIZE)))
    <2>1. Answers(b, size)
      BY <1>1, <1>2, Zenon
    <2>2. \/ mm_malloc(heap, size) = b
          \/ mm_malloc(heap, size) = [p |-> b.p + SIZE_T_SIZE, heap |-> [b.heap EXCEPT !.mem[b.p] = size]]
      BY Zenon DEF mm_malloc
    <2> HIDE DEF b
    <2>3. CASE mm_malloc(heap, size) = b
      BY <2>1, <2>3
    <2>4. CASE mm_malloc(heap, size) = [p |-> b.p + SIZE_T_SIZE, heap |-> [b.heap EXCEPT !.mem[b.p] = size]]
      BY <1>1, <2>1, <2>4 DEF Answers, HeapFields
    <2> QED BY <2>2, <2>3, <2>4
  <1>4. Answers(mm_realloc(heap, old, size), size)
    <2> DEFINE b == mm_malloc(heap, size)
               least == Min({size, heap.mem[old - SIZE_T_SIZE]})
    <2>1. \/ mm_realloc(heap, old, size) = b
          \/ mm_realloc(heap, old, size) = [b EXCEPT !.heap = Copy(b.heap, b.p, old, least)]
      BY Zenon DEF mm_realloc, mm_free
    <2> HIDE DEF b, least
    <2>2. Answers([b EXCEPT !.heap = Copy(b.heap, b.p, old, least)], size)
      BY <1>3, CopiedAnswers DEF b
    <2> QED BY <1>3, <2>1, <2>2, Zenon DEF b
  <1>5. ASSUME NEW b \in AnyMalloc(heap) PROVE Answers(b, size)
    BY HeapOK DEF AnyMalloc, NULL, Answers, HeapFields
  <1>6. ASSUME NEW b \in LibcMalloc(heap) PROVE Answers(b, size)
    BY DEF LibcMalloc, NULL, Answers, HeapFields
  <1>7. CASE package = "mm"
    <2>1. r \in {mm_malloc(heap, size), mm_realloc(heap, old, size)}
      BY <1>7 DEF Malloc, Realloc
    <2> QED BY <1>3, <1>4, <2>1
  <1>8. CASE package = "libc"
    <2>1. r \in LibcMalloc(heap)
      BY <1>8 DEF Malloc, Realloc
    <2> QED BY <1>6, <2>1
  <1>9. CASE package = "any"
    <2>1. \/ r \in AnyMalloc(heap)
          \/ \E b \in AnyMalloc(heap) : r = [b EXCEPT !.heap = Copy(b.heap, b.p, old, size)]
      BY <1>9 DEF Malloc, Realloc
    <2> QED BY <1>5, <2>1, CopiedAnswers
  <1> QED BY <1>7, <1>8, <1>9

LEMMA InitMallocInv == MdriverInit => MallocInv
  <1> SUFFICES ASSUME MdriverInit PROVE MallocInv
    OBVIOUS
  <1>1. /\ phase = "read" /\ package \in {"libc", "mm", "any"} /\ heap = mem_init /\ ops = <<>>
        /\ blocks = [j \in Ids |-> NULL] /\ block_sizes = [j \in Ids |-> 0]
    BY DEF MdriverInit
  <1>2. DOMAIN heap = HeapFields
    BY <1>1 DEF mem_init, HeapFields
  <1>3. blocks \in [Ids -> Int] /\ block_sizes \in [Ids -> Int]
    BY <1>1 DEF NULL
  <1>4. ops \in Seq(Requests) /\ Follow(ops)
    BY <1>1 DEF Follow
  <1> QED BY <1>1, <1>2, <1>3, <1>4 DEF MallocInv, ReadInv, ValidInv

LEMMA StepReadLine ==
    ASSUME MallocInv, NEW op \in Requests, ReadLine(op)
    PROVE  MallocInv'
  <1>1. /\ phase = "read" /\ ops' = Append(ops, op) /\ UNCHANGED <<package, phase, heap, blocks, block_sizes>>
        /\ op.type = "alloc" <=> op.index \notin Live(ops)
    BY Zenon DEF ReadLine, replayVars
  <1>2. ops \in Seq(Requests) /\ Follow(ops) /\ blocks \in [Ids -> Int] /\ block_sizes \in [Ids -> Int]
    BY <1>1 DEF MallocInv, ReadInv
  <1>3. /\ ops' \in Seq(Requests) /\ Len(ops') = Len(ops) + 1 /\ ops'[Len(ops) + 1] = op
        /\ DOMAIN ops' = 1 .. Len(ops) + 1 /\ DOMAIN ops = 1 .. Len(ops) /\ Len(ops) \in Nat
        /\ \A a \in 1 .. Len(ops) : ops'[a] = ops[a]
    BY <1>1, <1>2
  <1>4. \A m \in 0 .. Len(ops) : LiveIn(ops', m) = LiveIn(ops, m)
    <2> TAKE m \in 0 .. Len(ops)
    <2>1. m \in Nat /\ \A a \in 1 .. m : ops'[a] = ops[a]
      BY <1>3
    <2> QED BY <2>1, LiveInSame
  <1>5. Follow(ops')
    <2> SUFFICES ASSUME NEW a \in DOMAIN ops'
                 PROVE  ops'[a].type = "alloc" <=> ops'[a].index \notin LiveIn(ops', a - 1)
      BY DEF Follow
    <2>1. CASE a \in DOMAIN ops
      <3>1. a - 1 \in 0 .. Len(ops) /\ ops'[a] = ops[a]
        BY <1>3, <2>1
      <3>2. LiveIn(ops', a - 1) = LiveIn(ops, a - 1)
        BY <1>4, <3>1
      <3> QED BY <1>2, <2>1, <3>1, <3>2, Zenon DEF Follow
    <2>2. CASE a = Len(ops) + 1
      <3>1. a - 1 = Len(ops) /\ Len(ops) \in 0 .. Len(ops)
        BY <1>3, <2>2
      <3>2. LiveIn(ops', a - 1) = LiveIn(ops, Len(ops)) /\ Live(ops) = LiveIn(ops, Len(ops))
        BY <1>2, <1>4, <3>1, LiveOfPrefix
      <3> QED BY <1>1, <1>3, <2>2, <3>2, Zenon
    <2> QED BY <1>3, <2>1, <2>2
  <1> QED BY <1>1, <1>2, <1>3, <1>5 DEF MallocInv, ReadInv, ValidInv

LEMMA StepEndTrace ==
    ASSUME MallocInv, EndTrace
    PROVE  MallocInv'
  <1>1. /\ phase = "read" /\ ranges' = <<>> /\ k' = 0 /\ heap' = [heap EXCEPT !.brk = 0]
        /\ UNCHANGED <<package, num_ops, ops, blocks, block_sizes>>
    BY DEF EndTrace, clear_ranges, mem_reset_brk
  <1>2. phase' \in {"assertion_failed", "libc_valid", "valid"} /\ (phase' = "valid" => Len(ops) = num_ops)
    BY DEF EndTrace, HeaderOK
  <1>3. DOMAIN heap' = HeapFields /\ heap'.brk = 0
    BY <1>1 DEF MallocInv, HeapFields
  <1>4. /\ ops \in Seq(Requests) /\ Follow(ops) /\ Len(ops) \in Nat
        /\ blocks \in [Ids -> Int] /\ block_sizes \in [Ids -> Int]
    BY <1>1 DEF MallocInv, ReadInv
  <1>5. Spread(<<>>)
    BY DEF Spread
  <1>6. Tracks(<<>>, blocks, block_sizes, LiveIn(ops, 0))
    <2>1. LiveIn(ops, 0) = {} /\ Members(<<>>) = {}
      BY DEF LiveIn, Members
    <2> QED BY <2>1, FS_EmptySet DEF Tracks
  <1>7. k' \in 0 .. Len(ops) /\ heap'.brk \in Int
    BY <1>1, <1>3, <1>4
  <1> QED BY <1>1, <1>2, <1>3, <1>4, <1>5, <1>6, <1>7, Zenon DEF MallocInv, ReadInv, ValidInv

\* The outcomes of a request that is answered with r.
LEMMA TakeOutcomes ==
    ASSUME NEW list, NEW id, NEW r, NEW size \in Int, NEW kept, Take(list, id, r, size, kept)
    PROVE  \/ phase' = "invalid" /\ heap' \in {heap, r.heap}
           \/ phase' = "assertion_failed" /\ heap' = heap
           \/ /\ size > 0 /\ RangeOK(list, r.p, size, mem_heap_hi(r.heap))
              /\ heap' = Fill(r.heap, r.p, size, id) /\ ranges' = WithPayload(list, r.p, size)
              /\ blocks' = [blocks EXCEPT ![id] = r.p]
              /\ block_sizes' = [block_sizes EXCEPT ![id] = size]
              /\ k' = k + 1 /\ UNCHANGED <<phase, errors>>
  <1>1. \A l, h : Fault(l, h) => phase' = "invalid" /\ heap' = h
    BY DEF Fault
  <1>2. \/ \E l : Fault(l, heap) \/ Fault(l, r.heap)
        \/ phase' = "assertion_failed" /\ UNCHANGED heap
        \/ /\ size > 0 /\ RangeOK(list, r.p, size, mem_heap_hi(r.heap))
           /\ heap' = Fill(r.heap, r.p, size, id) /\ ranges' = WithPayload(list, r.p, size)
           /\ blocks' = [blocks EXCEPT ![id] = r.p]
           /\ block_sizes' = [block_sizes EXCEPT ![id] = size]
           /\ k' = k + 1 /\ UNCHANGED <<phase, errors>>
    BY Zenon DEF Take, WithPayload
  <1> QED BY <1>1, <1>2, Zenon

\* What the validity check keeps when a request on block id is answered, whatever the answer.
LEMMA StepTake ==
    ASSUME MallocInv, phase = "valid", k < num_ops, UNCHANGED <<package, ops, num_ops>>,
           NEW list, NEW id \in Ids, NEW S \in SUBSET Ids, id \notin S,
           Spread(list), Tracks(list, blocks, block_sizes, S), LiveIn(ops, k + 1) = S \cup {id},
           NEW size \in Int, NEW r, Answers(r, size), NEW kept, Take(list, id, r, size, kept)
    PROVE  MallocInv'
  <1>1. /\ package \in {"libc", "mm", "any"} /\ DOMAIN heap = HeapFields
        /\ blocks \in [Ids -> Int] /\ block_sizes \in [Ids -> Int]
        /\ ops \in Seq(Requests) /\ Follow(ops)
        /\ k \in 0 .. Len(ops) /\ num_ops = Len(ops) /\ heap.brk \in Int
    BY DEF MallocInv, ReadInv, ValidInv
  <1>2. DOMAIN r.heap = HeapFields /\ r.heap.brk \in Int /\ r.p \in Int
    BY <1>1 DEF Answers
  <1>3. CASE phase' \in {"invalid", "assertion_failed"} /\ heap' \in {heap, r.heap}
    BY <1>1, <1>2, <1>3 DEF MallocInv, ReadInv, ValidInv
  <1>4. CASE /\ size > 0 /\ RangeOK(list, r.p, size, mem_heap_hi(r.heap))
             /\ heap' = Fill(r.heap, r.p, size, id) /\ ranges' = WithPayload(list, r.p, size)
             /\ blocks' = [blocks EXCEPT ![id] = r.p]
             /\ block_sizes' = [block_sizes EXCEPT ![id] = size]
             /\ k' = k + 1 /\ UNCHANGED <<phase, errors>>
    <2>1. DOMAIN heap' = HeapFields /\ heap'.brk \in Int
      BY <1>2, <1>4 DEF Fill, HeapFields
    <2>2. blocks' \in [Ids -> Int] /\ block_sizes' \in [Ids -> Int]
      BY <1>1, <1>2, <1>4
    <2>3. k' \in 0 .. Len(ops)
      BY <1>1, <1>4
    <2>4. Spread(ranges') /\ Tracks(ranges', blocks', block_sizes', S \cup {id})
      BY <1>1, <1>2, <1>4, TracksMore
    <2> QED BY <1>1, <1>4, <2>1, <2>2, <2>3, <2>4, Zenon DEF MallocInv, ReadInv, ValidInv
  <1> QED BY <1>3, <1>4, TakeOutcomes

LEMMA StepValid ==
    ASSUME MallocInv, Valid
    PROVE  MallocInv'
  <1> DEFINE op == ops[k + 1]
             L == LiveIn(ops, k)
  <1>1. /\ phase = "valid" /\ k < num_ops /\ UNCHANGED <<package, ops, num_ops>>
        /\ ValidAlloc(op) \/ ValidRealloc(op) \/ ValidFree(op)
    BY DEF Valid, replayVars
  <1>2. /\ package \in {"libc", "mm", "any"} /\ DOMAIN heap = HeapFields
        /\ blocks \in [Ids -> Int] /\ block_sizes \in [Ids -> Int]
        /\ ops \in Seq(Requests) /\ Follow(ops)
        /\ k \in 0 .. Len(ops) /\ num_ops = Len(ops) /\ heap.brk \in Int
        /\ Spread(ranges) /\ Tracks(ranges, blocks, block_sizes, L)
    BY <1>1, Zenon DEF MallocInv, ReadInv, ValidInv
  <1>3. k \in Nat /\ k + 1 \in DOMAIN ops /\ op \in Requests /\ (k + 1) - 1 = k
    BY <1>1, <1>2
  <1>4. op.type \in {"alloc", "realloc", "free"} /\ op.index \in Ids /\ op.size \in Int
    BY <1>3, RequestTypes
  <1>5. op.type = "alloc" <=> op.index \notin L
    BY <1>2, <1>3, Zenon DEF Follow
  <1>6. /\ op.type = "alloc" => LiveIn(ops, k + 1) = L \cup {op.index}
        /\ op.type = "realloc" => LiveIn(ops, k + 1) = L
        /\ op.type = "free" => LiveIn(ops, k + 1) = L \ {op.index}
    BY <1>3, LiveMoves
  <1>7. L \in SUBSET Ids
    BY DEF LiveIn
  <1> HIDE DEF L, op
  <1> DEFINE less == remove_range(ranges, blocks[op.index])
  <1>8. op.type # "alloc" => Spread(less) /\ Tracks(less, blocks, block_sizes, L \ {op.index})
    BY <1>2, <1>5, <1>7, TracksLess
  <1> HIDE DEF less
  <1>9. CASE ValidAlloc(op)
    <2>1. PICK r \in Malloc(op.size) : Take(ranges, op.index, r, op.size, TRUE)
      BY <1>9 DEF ValidAlloc
    <2>2. op.type = "alloc"
      BY <1>9 DEF ValidAlloc
    <2>3. Answers(r, op.size)
      BY <1>2, AllocatorAnswers
    <2>4. op.index \notin L /\ LiveIn(ops, k + 1) = L \cup {op.index}
      BY <1>5, <1>6, <2>2
    <2> QED BY <1>1, <1>2, <1>4, <1>7, <2>1, <2>3, <2>4, StepTake
  <1>10. CASE ValidRealloc(op)
    <2>1. op.type = "realloc"
      BY <1>10 DEF ValidRealloc
    <2>2. PICK r \in Realloc(blocks[op.index], op.size), kept \in BOOLEAN :
              Take(less, op.index, r, op.size, kept)
      BY <1>10 DEF ValidRealloc, less
    <2>3. Answers(r, op.size)
      BY <1>2, AllocatorAnswers
    <2>4. /\ op.index \notin L \ {op.index} /\ L \ {op.index} \in SUBSET Ids
          /\ LiveIn(ops, k + 1) = (L \ {op.index}) \cup {op.index}
          /\ Spread(less) /\ Tracks(less, blocks, block_sizes, L \ {op.index})
      BY <1>5, <1>6, <1>7, <1>8, <2>1
    <2> QED BY <1>1, <1>4, <2>2, <2>3, <2>4, StepTake
  <1>11. CASE ValidFree(op)
    <2>1. /\ op.type = "free" /\ ranges' = less /\ k' = k + 1
          /\ UNCHANGED <<phase, heap, blocks, block_sizes, errors>>
      BY <1>11 DEF ValidFree, less
    <2>2. /\ Spread(less) /\ Tracks(less, blocks, block_sizes, L \ {op.index})
          /\ LiveIn(ops, k + 1) = L \ {op.index}
      BY <1>6, <1>8, <2>1
    <2>3. k' \in 0 .. Len(ops)
      BY <1>1, <1>2, <2>1
    <2> QED BY <1>1, <1>2, <2>1, <2>2, <2>3, Zenon DEF MallocInv, ReadInv, ValidInv
  <1> QED BY <1>1, <1>9, <1>10, <1>11

LEMMA OutOfCheck ==
    ASSUME MallocInv, package' \in {"libc", "mm", "any"}, DOMAIN heap' = HeapFields,
           phase' \notin {"read", "valid"}
    PROVE  MallocInv'
  BY DEF MallocInv, ReadInv, ValidInv

LEMMA StepServed ==
    ASSUME MallocInv, Util \/ Speed
    PROVE  MallocInv'
  <1>1. /\ phase \in {"util", "speed", "libc_valid", "libc_speed"} /\ package' = package
        /\ Serve(ops[k + 1])
    BY DEF Util, Speed, replayVars
  <1>2. package \in {"libc", "mm", "any"} /\ DOMAIN heap = HeapFields
    BY DEF MallocInv
  <1>3. \/ UNCHANGED <<phase, heap>>
        \/ \E size, old : \E r \in Malloc(size) \cup Realloc(old, size) :
               heap' = r.heap /\ (phase' = "app_error" \/ phase' = phase)
    <2>1. CASE ops[k + 1].type = "free"
      BY <1>1, <2>1 DEF Serve
    <2>2. CASE ops[k + 1].type # "free"
      <3>1. PICK r \in IF ops[k + 1].type = "alloc" THEN Malloc(ops[k + 1].size)
                       ELSE Realloc(blocks[ops[k + 1].index], ops[k + 1].size) :
                /\ heap' = r.heap
                /\ IF r.p = NULL THEN app_error /\ UNCHANGED k ELSE k' = k + 1 /\ UNCHANGED phase
        BY <1>1, <2>2, Zenon DEF Serve
      <3>2. r \in Malloc(ops[k + 1].size)
                  \cup Realloc(blocks[ops[k + 1].index], ops[k + 1].size)
        BY <3>1
      <3>3. phase' = "app_error" \/ phase' = phase
        BY <3>1 DEF app_error
      <3> QED BY <3>1, <3>2, <3>3
    <2> QED BY <2>1, <2>2
  <1>4. DOMAIN heap' = HeapFields /\ (phase' = "app_error" \/ phase' = phase)
    <2>1. CASE UNCHANGED <<phase, heap>>
      BY <1>2, <2>1
    <2>2. CASE ~UNCHANGED <<phase, heap>>
      <3>1. PICK size, old : \E r \in Malloc(size) \cup Realloc(old, size) :
                                 heap' = r.heap /\ (phase' = "app_error" \/ phase' = phase)
        BY <1>3, <2>2
      <3>2. PICK r \in Malloc(size) \cup Realloc(old, size) :
                heap' = r.heap /\ (phase' = "app_error" \/ phase' = phase)
        BY <3>1
      <3>3. Answers(r, size)
        BY <1>2, AllocatorAnswers
      <3> QED BY <3>2, <3>3 DEF Answers
    <2> QED BY <2>1, <2>2
  <1>5. phase' \notin {"read", "valid"}
    BY <1>1, <1>4
  <1> QED BY <1>1, <1>2, <1>4, <1>5, OutOfCheck

LEMMA StepEndPass ==
    ASSUME MallocInv, EndPass
    PROVE  MallocInv'
  <1>1. /\ package' = package /\ heap' = [heap EXCEPT !.brk = 0] /\ phase' \in After
        /\ phase \in {"libc_valid", "libc_speed", "valid", "util", "speed"}
    BY DEF EndPass, mem_reset_brk
  <1>2. phase' \notin {"read", "valid"}
    <2>1. After \in {{"util"}, {"speed"}, {"libc_speed"}, {phase, "next"}}
          /\ (phase = "valid" => After = {"util"})
      BY <1>1 DEF After
    <2> QED BY <1>1, <2>1
  <1>3. package' \in {"libc", "mm", "any"} /\ DOMAIN heap' = HeapFields
    BY <1>1 DEF MallocInv
  <1> QED BY <1>2, <1>3, OutOfCheck

LEMMA StepNextTrace ==
    ASSUME MallocInv, NextTrace
    PROVE  MallocInv'
  <1>1. /\ phase' \in {"results", "read"} /\ package' \in {"mm", package} /\ heap' = heap
        /\ ops' = <<>> /\ blocks' = [j \in Ids |-> NULL] /\ block_sizes' = [j \in Ids |-> 0]
    BY DEF NextTrace, free_trace
  <1>2. package' \in {"libc", "mm", "any"} /\ DOMAIN heap' = HeapFields
    BY <1>1 DEF MallocInv
  <1>3. blocks' \in [Ids -> Int] /\ block_sizes' \in [Ids -> Int]
    BY <1>1 DEF NULL
  <1>4. ops' \in Seq(Requests) /\ Follow(ops')
    BY <1>1 DEF Follow
  <1>5. phase' # "valid"
    BY <1>1
  <1> QED BY <1>2, <1>3, <1>4, <1>5, Zenon DEF MallocInv, ReadInv, ValidInv

LEMMA StepMallocInv == MallocInv /\ [MdriverNext]_(mdriverVars) => MallocInv'
  <1> SUFFICES ASSUME MallocInv, [MdriverNext]_(mdriverVars) PROVE MallocInv'
    OBVIOUS
  <1>1. CASE UNCHANGED mdriverVars
    <2>1. UNCHANGED <<package, phase, heap, ops, blocks, block_sizes, ranges, num_ops, k>>
      BY <1>1 DEF mdriverVars
    <2> QED BY <2>1 DEF MallocInv, ReadInv, ValidInv
  <1>2. ASSUME NEW op \in Requests, ReadLine(op) PROVE MallocInv'
    BY <1>2, StepReadLine
  <1>3. ASSUME NEW thru \in {0, 150}, PrintResults(thru) PROVE MallocInv'
    <2>1. phase' = "exit" /\ UNCHANGED <<package, heap>>
      BY <1>3, Zenon DEF PrintResults
    <2>2. /\ package' \in {"libc", "mm", "any"} /\ DOMAIN heap' = HeapFields
          /\ phase' \notin {"read", "valid"}
      BY <2>1 DEF MallocInv
    <2> QED BY <2>2, OutOfCheck
  <1>4. CASE EndTrace
    BY <1>4, StepEndTrace
  <1>5. CASE Valid
    BY <1>5, StepValid
  <1>6. CASE Util \/ Speed
    BY <1>6, StepServed
  <1>7. CASE EndPass
    BY <1>7, StepEndPass
  <1>8. CASE NextTrace
    BY <1>8, StepNextTrace
  <1> QED BY <1>1, <1>2, <1>3, <1>4, <1>5, <1>6, <1>7, <1>8, Zenon DEF MdriverNext

LEMMA MallocInvSound == MallocInv => CheckSound
  <1> SUFFICES ASSUME MallocInv, phase = "valid" PROVE CheckSound
    BY Zenon DEF CheckSound, RangesAreLive, OverlapsEnclose
  <1>1. /\ ops \in Seq(Requests) /\ k \in 0 .. Len(ops)
        /\ Spread(ranges) /\ Tracks(ranges, blocks, block_sizes, LiveIn(ops, k))
    BY DEF MallocInv, ReadInv, ValidInv
  <1>2. Live(Done) = LiveIn(ops, k)
    BY <1>1, LiveOfPrefix DEF Done
  <1> DEFINE L == LiveIn(ops, k)
             ext(j) == Extent(blocks[j], blocks[j] + block_sizes[j] - 1)
             cells(e) == e.lo .. e.hi
  <1>3. Members(ranges) = {ext(j) : j \in L} /\ Len(ranges) = Cardinality(L)
    BY <1>1, Zenon DEF Tracks
  <1>4. \A j : cells(ext(j)) = Payload(j)
    BY DEF Extent, Payload
  <1>5. Members(ranges) = {ranges[a] : a \in DOMAIN ranges}
    BY DEF Members
  <1>6. RangesAreLive
    <2> HIDE DEF L, ext, cells
    <2>1. {cells(e) : e \in Members(ranges)} = {Payload(j) : j \in L}
      BY <1>3, <1>4
    <2>2. Len(ranges) = Cardinality(L)
      BY <1>3 DEF Cardinality, Cardinality
    <2> QED BY <1>2, <1>5, <2>1, <2>2, Zenon DEF RangesAreLive, L, cells
  <1>7. OverlapsEnclose
    BY <1>1, Zenon DEF OverlapsEnclose, Spread
  <1> QED BY <1>6, <1>7 DEF CheckSound

-----------------------------------------------------------------------------
(* Division                                                                 *)

\* A number, its quotient and its remainder.
LEMMA Divided ==
    ASSUME NEW x \in Int, NEW d \in Nat \ {0}
    PROVE  /\ x \div d \in Int /\ x % d \in 0 .. d - 1
           /\ x = d * (x \div d) + (x % d)
  OBVIOUS

\* Multiples are a factor apart.
LEMMA MultiplesApart ==
    ASSUME NEW d \in Nat \ {0}, NEW x \in Int, NEW y \in Int, x < y
    PROVE  d * x \in Int /\ d * y \in Int /\ d * x + d <= d * y
  <1>1. PICK z \in Nat : y = x + 1 + z
    <2>1. y - x - 1 \in Nat /\ y = x + 1 + (y - x - 1)
      OBVIOUS
    <2> QED BY <2>1
  <1>2. d * y = d * x + d + d * z
    BY <1>1
  <1>3. d * z \in Nat /\ d * x \in Int
    BY <1>1
  <1> QED BY <1>2, <1>3

LEMMA MultipleMod ==
    ASSUME NEW q \in Int, NEW d \in Nat \ {0}
    PROVE  (d * q) % d = 0 /\ (d * q) \div d = q
  <1> DEFINE x == d * q
             y == x \div d
             z == x % d
  <1>1. x \in Int
    OBVIOUS
  <1> HIDE DEF x
  <1>2. y \in Int /\ z \in 0 .. d - 1 /\ x = d * y + z
    BY <1>1, Divided
  <1> HIDE DEF y, z
  <1>3. d * q = d * y + z
    BY <1>2 DEF x
  <1>4. ~(y < q)
    <2> SUFFICES ASSUME y < q PROVE FALSE
      OBVIOUS
    <2>1. d * y \in Int /\ d * q \in Int /\ d * y + d <= d * q
      BY <1>2, MultiplesApart
    <2> QED BY <1>2, <1>3, <2>1
  <1>5. ~(q < y)
    <2> SUFFICES ASSUME q < y PROVE FALSE
      OBVIOUS
    <2>1. d * y \in Int /\ d * q \in Int /\ d * q + d <= d * y
      BY <1>2, MultiplesApart
    <2> QED BY <1>2, <1>3, <2>1
  <1>6. y = q
    BY <1>2, <1>4, <1>5
  <1>7. z = 0
    BY <1>2, <1>3, <1>6
  <1> QED BY <1>6, <1>7 DEF x, y, z

LEMMA QuotientBounds ==
    ASSUME NEW x \in Nat, NEW d \in Nat \ {0}, NEW b \in Nat, x <= b * d
    PROVE  x \div d \in 0 .. b
  <1> DEFINE y == x \div d
  <1>1. y \in Int /\ x % d \in 0 .. d - 1 /\ x = d * y + (x % d)
    BY Divided
  <1> HIDE DEF y
  <1>2. ASSUME y <= -1 PROVE FALSE
    <2>1. d * y <= -d
      BY <1>1, <1>2
    <2> QED BY <1>1, <2>1
  <1>3. ASSUME y >= b + 1 PROVE FALSE
    <2>1. d * y >= d * (b + 1)
      BY <1>1, <1>3
    <2>2. d * (b + 1) = b * d + d
      OBVIOUS
    <2> QED BY <1>1, <2>1, <2>2
  <1>4. y \in 0 .. b
    BY <1>1, <1>2, <1>3
  <1> QED BY <1>4 DEF y

-----------------------------------------------------------------------------
(* mm.c under that driver                                                   *)

\* A size rounded up, and the header's.
LEMMA Aligned ==
    ASSUME NEW size \in Nat
    PROVE  /\ ALIGN(size) \in Nat /\ size <= ALIGN(size)
           /\ ALIGN(size) < size + ALIGNMENT
           /\ \E m \in Nat : ALIGN(size) = ALIGNMENT * m
  <1> DEFINE x == size + ALIGNMENT - 1
             m == x \div ALIGNMENT
  <1>1. ALIGNMENT \in Nat \ {0} /\ x \in Nat
    BY HeapOK
  <1>2. m \in Int /\ x % ALIGNMENT \in 0 .. ALIGNMENT - 1 /\ x = ALIGNMENT * m + (x % ALIGNMENT)
    BY <1>1, Divided
  <1> HIDE DEF m
  <1>3. size <= ALIGNMENT * m /\ ALIGNMENT * m < size + ALIGNMENT
    BY <1>1, <1>2
  <1>4. m \in Nat
    <2>1. ASSUME m < 0 PROVE FALSE
      <3>1. ALIGNMENT * m \in Int /\ ALIGNMENT * m + ALIGNMENT <= ALIGNMENT * 0
        BY <1>1, <1>2, <2>1, MultiplesApart
      <3> QED BY <1>1, <1>3, <3>1
    <2> QED BY <1>2, <2>1
  <1>5. ALIGN(size) = ALIGNMENT * m
    BY DEF ALIGN, m
  <1>6. ALIGNMENT * m \in Nat
    BY <1>1, <1>4
  <1> QED BY <1>3, <1>4, <1>5, <1>6

LEMMA HeaderSize == SIZE_T_SIZE = ALIGNMENT
  <1>1. ALIGNMENT \in Nat \ {0} /\ 1 + ALIGNMENT - 1 = ALIGNMENT * 1
    BY HeapOK
  <1>2. (ALIGNMENT * 1) \div ALIGNMENT = 1
    BY <1>1, MultipleMod
  <1> QED BY <1>1, <1>2 DEF SIZE_T_SIZE, ALIGN

\* The cells that a request takes.
Rounded(size) == ALIGN(size + SIZE_T_SIZE)

LEMMA RoundedIs ==
    ASSUME NEW size \in Nat
    PROVE  /\ ALIGNMENT \in Nat \ {0} /\ Rounded(size) \in Nat /\ size + ALIGNMENT <= Rounded(size)
           /\ Rounded(size) < size + ALIGNMENT + ALIGNMENT
           /\ \E m \in Nat : Rounded(size) = ALIGNMENT * m
  <1>1. ALIGNMENT \in Nat \ {0}
    BY HeapOK
  <1>2. size + ALIGNMENT \in Nat
    BY <1>1
  <1>3. Rounded(size) = ALIGN(size + ALIGNMENT)
    BY HeaderSize DEF Rounded
  <1>4. /\ Rounded(size) \in Nat /\ size + ALIGNMENT <= Rounded(size)
        /\ Rounded(size) < size + ALIGNMENT + ALIGNMENT
        /\ \E m \in Nat : Rounded(size) = ALIGNMENT * m
    BY <1>2, <1>3, Aligned
  <1> QED BY <1>1, <1>4

\* An int holds every length the heap can have, and cuts a greater one off.
LEMMA CutOff ==
    ASSUME NEW x \in Nat
    PROVE  /\ ToInt(x) \in Int
           /\ ToInt(x) < 0 => x > MAX_HEAP
           /\ ToInt(x) > MAX_HEAP => x > MAX_HEAP
           /\ ToInt(x) = x \/ ToInt(x) < 0 \/ x >= IntMod
           /\ x <= MAX_HEAP => ToInt(x) = x
  <1> DEFINE half == IntMod \div 2
             y == x % IntMod
             q == x \div IntMod
  <1>1. IntMod \in Nat \ {0} /\ MAX_HEAP \in Nat /\ half \in Int /\ MAX_HEAP < half /\ half <= IntMod
    <2>1. IntMod \in Nat /\ MAX_HEAP \in Nat /\ MAX_HEAP < half
      BY HeapOK
    <2>2. half \in Int /\ IntMod % 2 \in 0 .. 1 /\ IntMod = 2 * half + (IntMod % 2)
      BY <2>1, Divided
    <2> QED BY <2>1, <2>2
  <1>2. q \in Int /\ y \in 0 .. IntMod - 1 /\ x = IntMod * q + y
    BY <1>1, Divided
  <1>3. ToInt(x) = IF y < half THEN y ELSE y - IntMod
    BY DEF ToInt
  <1> HIDE DEF half, y, q
  <1>4. q >= 0
    <2> SUFFICES ASSUME q < 0 PROVE FALSE
      BY <1>2
    <2>1. IntMod * q \in Int /\ IntMod * q + IntMod <= IntMod * 0
      BY <1>1, <1>2, MultiplesApart
    <2> QED BY <1>1, <1>2, <2>1
  <1>5. x = y \/ x >= IntMod
    <2>1. CASE q = 0
      BY <1>1, <1>2, <2>1
    <2>2. CASE q > 0
      <3>1. IntMod * q \in Int /\ IntMod * 0 + IntMod <= IntMod * q
        BY <1>1, <1>2, <2>2, MultiplesApart
      <3> QED BY <1>1, <1>2, <3>1
    <2> QED BY <1>2, <1>4, <2>1, <2>2
  <1> QED BY <1>1, <1>2, <1>3, <1>5

\* A heap, whatever is in its cells.
HeapIs(h) ==
    /\ h = [brk |-> h.brk, mem |-> h.mem] /\ h.brk \in 0 .. MAX_HEAP
    /\ h.mem = [a \in 0 .. MAX_HEAP - 1 |-> h.mem[a]]

LEMMA MmMallocs ==
    ASSUME NEW h, HeapIs(h), NEW size \in Nat
    PROVE  LET r == mm_malloc(h, size)
           IN  /\ r = [p |-> r.p, heap |-> r.heap] /\ HeapIs(r.heap)
               /\ \/ r.p = -1 /\ r.heap = h /\ h.brk + Rounded(size) > MAX_HEAP
                  \/ /\ r.p = h.brk + ALIGNMENT /\ r.heap.brk \in h.brk .. MAX_HEAP
                     /\ r.heap.brk = h.brk + Rounded(size) \/ Rounded(size) >= IntMod
                     /\ r.heap.mem = [h.mem EXCEPT ![h.brk] = size]
               /\ h.brk + Rounded(size) <= MAX_HEAP => r.p # -1
  <1> DEFINE x == Rounded(size)
             incr == ToInt(x)
             s == mem_sbrk(h, incr)
             r == mm_malloc(h, size)
  <1>1. /\ ALIGNMENT \in Nat \ {0} /\ x \in Nat /\ MAX_HEAP \in Nat /\ h.brk \in 0 .. MAX_HEAP
        /\ SIZE_T_SIZE = ALIGNMENT
    BY RoundedIs, HeaderSize, HeapOK DEF HeapIs
  <1>2. /\ incr \in Int
        /\ incr < 0 => x > MAX_HEAP
        /\ incr > MAX_HEAP => x > MAX_HEAP
        /\ incr = x \/ incr < 0 \/ x >= IntMod
        /\ x <= MAX_HEAP => incr = x
    BY <1>1, CutOff
  <1>3. r = IF s.p = -1 THEN s
            ELSE [p |-> s.p + SIZE_T_SIZE, heap |-> [s.heap EXCEPT !.mem[s.p] = size]]
    BY Zenon DEF mm_malloc, NULL, Rounded
  <1> HIDE DEF x, incr, r
  <1>4. CASE incr < 0 \/ h.brk + incr > MAX_HEAP
    <2>1. s = [p |-> -1, heap |-> h]
      BY <1>4 DEF mem_sbrk, NULL
    <2>2. r = [p |-> -1, heap |-> h]
      BY <1>3, <2>1
    <2>3. h.brk + x > MAX_HEAP /\ ~(h.brk + x <= MAX_HEAP)
      BY <1>1, <1>2, <1>4
    <2>4. r.p = -1 /\ r.heap = h /\ r = [p |-> r.p, heap |-> r.heap]
      BY <2>2
    <2>5. HeapIs(r.heap)
      BY <2>4, Zenon
    <2> QED BY <2>3, <2>4, <2>5, Zenon DEF x, r
  <1>5. CASE ~(incr < 0 \/ h.brk + incr > MAX_HEAP)
    <2>1. s = [p |-> h.brk, heap |-> [h EXCEPT !.brk = h.brk + incr]]
      BY <1>5 DEF mem_sbrk
    <2>2. [h EXCEPT !.brk = h.brk + incr] = [brk |-> h.brk + incr, mem |-> h.mem]
      <3>1. h = [brk |-> h.brk, mem |-> h.mem]
        BY DEF HeapIs
      <3> QED BY <3>1
    <2>3. s.p = h.brk /\ s.heap = [brk |-> h.brk + incr, mem |-> h.mem] /\ h.brk # -1
      BY <1>1, <2>1, <2>2
    <2> HIDE DEF s
    <2>4. r = [p |-> h.brk + ALIGNMENT, heap |-> [s.heap EXCEPT !.mem[h.brk] = size]]
      BY <1>1, <1>3, <2>3
    <2>5. [s.heap EXCEPT !.mem[h.brk] = size] = [brk |-> h.brk + incr, mem |-> [h.mem EXCEPT ![h.brk] = size]]
      BY <2>3
    <2>6. [h.mem EXCEPT ![h.brk] = size]
              = [a \in 0 .. MAX_HEAP - 1 |-> [h.mem EXCEPT ![h.brk] = size][a]]
      BY DEF HeapIs
    <2>7. /\ h.brk + incr \in h.brk .. MAX_HEAP /\ h.brk + incr \in 0 .. MAX_HEAP
          /\ h.brk + incr = h.brk + x \/ x >= IntMod
          /\ h.brk + ALIGNMENT # -1
      BY <1>1, <1>2, <1>5
    <2>8. r = [p |-> h.brk + ALIGNMENT,
               heap |-> [brk |-> h.brk + incr, mem |-> [h.mem EXCEPT ![h.brk] = size]]]
      BY <2>4, <2>5
    <2>9. HeapIs(r.heap)
      BY <2>6, <2>7, <2>8 DEF HeapIs
    <2> QED BY <2>7, <2>8, <2>9 DEF r, x
  <1> QED BY <1>4, <1>5

LEMMA CopyIs ==
    ASSUME NEW h, HeapIs(h), NEW to, NEW from, NEW len
    PROVE  LET cp == Copy(h, to, from, len)
           IN  /\ HeapIs(cp) /\ cp.brk = h.brk
               /\ \A a \in 0 .. MAX_HEAP - 1 :
                     cp.mem[a] = IF a \in to .. to + len - 1 THEN h.mem[from + a - to] ELSE h.mem[a]
  <1> DEFINE cells == [a \in 0 .. MAX_HEAP - 1 |-> IF a \in to .. to + len - 1 THEN h.mem[from + a - to] ELSE h.mem[a]]
  <1>1. h = [brk |-> h.brk, mem |-> h.mem] /\ DOMAIN h.mem = 0 .. MAX_HEAP - 1 /\ h.brk \in 0 .. MAX_HEAP
    BY DEF HeapIs
  <1>2. Copy(h, to, from, len) = [h EXCEPT !.mem = cells]
    BY <1>1 DEF Copy
  <1>3. cells = [a \in 0 .. MAX_HEAP - 1 |-> cells[a]]
    OBVIOUS
  <1>4. \A a \in 0 .. MAX_HEAP - 1 :
            cells[a] = IF a \in to .. to + len - 1 THEN h.mem[from + a - to] ELSE h.mem[a]
    OBVIOUS
  <1> HIDE DEF cells
  <1>5. [h EXCEPT !.mem = cells] = [brk |-> h.brk, mem |-> cells]
    BY <1>1
  <1> QED BY <1>1, <1>2, <1>3, <1>4, <1>5 DEF HeapIs

LEMMA FillIs ==
    ASSUME NEW h, HeapIs(h), NEW lo, NEW size, NEW id
    PROVE  LET full == Fill(h, lo, size, id)
           IN  /\ HeapIs(full) /\ full.brk = h.brk
               /\ \A a \in 0 .. MAX_HEAP - 1 :
                     full.mem[a] = IF a \in lo .. lo + size - 1 THEN Char(id) ELSE h.mem[a]
  <1> DEFINE cells == [a \in 0 .. MAX_HEAP - 1 |-> IF a \in lo .. lo + size - 1 THEN Char(id) ELSE h.mem[a]]
  <1>1. h = [brk |-> h.brk, mem |-> h.mem] /\ DOMAIN h.mem = 0 .. MAX_HEAP - 1 /\ h.brk \in 0 .. MAX_HEAP
    BY DEF HeapIs
  <1>2. Fill(h, lo, size, id) = [h EXCEPT !.mem = cells]
    BY <1>1 DEF Fill
  <1>3. cells = [a \in 0 .. MAX_HEAP - 1 |-> cells[a]]
    OBVIOUS
  <1>4. \A a \in 0 .. MAX_HEAP - 1 : cells[a] = IF a \in lo .. lo + size - 1 THEN Char(id) ELSE h.mem[a]
    OBVIOUS
  <1> HIDE DEF cells
  <1>5. [h EXCEPT !.mem = cells] = [brk |-> h.brk, mem |-> cells]
    BY <1>1
  <1> QED BY <1>1, <1>2, <1>3, <1>4, <1>5 DEF HeapIs

LEMMA SizesAreNat ==
    ASSUME NEW op \in Requests
    PROVE  op.size \in Nat
  BY HeapOK DEF Requests, Op

\* What the allocator has taken after each of the first m requests, none of which had size 0.
Grown(g, m) ==
    /\ g \in [0 .. m -> 0 .. MAX_HEAP] /\ g[0] = 0
    /\ \A a \in 1 .. m :
           IF ops[a].type = "free" THEN g[a] = g[a - 1]
           ELSE ops[a].size > 0 /\ g[a] = g[a - 1] + Rounded(ops[a].size)

\* Block j is whole: its header has its size, and its payload what the driver wrote there.
Whole(j) ==
    /\ block_sizes[j] \in Nat \ {0}
    /\ ALIGNMENT <= blocks[j] /\ blocks[j] + block_sizes[j] <= heap.brk
    /\ \A a \in Payload(j) : heap.mem[a] = Char(j)
    /\ heap.mem[blocks[j] - ALIGNMENT] = block_sizes[j]

\* An answer of mm.c: no memory; or what follows a header where the heap ended, and then the
\* heap has grown as it should, unless an int could not hold the size.
Answered(r, size) ==
    /\ HeapIs(r.heap)
    /\ \/ r.p = -1 /\ r.heap = heap /\ heap.brk + Rounded(size) > MAX_HEAP
       \/ /\ r.p = heap.brk + ALIGNMENT /\ r.heap.brk \in heap.brk .. MAX_HEAP
          /\ r.heap.brk = heap.brk + Rounded(size) \/ Rounded(size) >= IntMod

\* A header is written, and nothing below it.
Headed(r, size) == r.p # -1 /\ Rounded(size) <= MAX_HEAP =>
    /\ r.heap.mem[heap.brk] = size
    /\ \A a \in 0 .. heap.brk - 1 : r.heap.mem[a] = heap.mem[a]

HeapAligned == \E q \in Nat : heap.brk = ALIGNMENT * q
InHeap(list) == \A a \in DOMAIN list : list[a].hi \in Int /\ list[a].hi < heap.brk

\* The payload of block id is accepted.
Handed(id, r, size) ==
    /\ phase' = phase /\ size > 0 /\ r.p = heap.brk + ALIGNMENT /\ r.p # -1 /\ Rounded(size) <= MAX_HEAP
    /\ HeapIs(r.heap) /\ r.heap.brk = heap.brk + Rounded(size)
    /\ heap' = Fill(r.heap, r.p, size, id)
    /\ blocks' = [blocks EXCEPT ![id] = r.p]
    /\ block_sizes' = [block_sizes EXCEPT ![id] = size]
    /\ k' = k + 1

\* The outcomes for mm.c, when the list has no payload beyond the heap.
LEMMA MmTaken ==
    ASSUME HeapIs(heap), HeapAligned, NEW size \in Nat, NEW r, Answered(r, size),
           NEW kept, NEW misread, r.p # -1 /\ size > 0 /\ Rounded(size) <= MAX_HEAP => (kept <=> ~misread),
           NEW list, InHeap(list),
           NEW id, Take(list, id, r, size, kept)
    PROVE  \/ /\ phase' = "invalid" /\ k' = k /\ HeapIs(heap')
              /\ misread \/ heap'.brk + Rounded(size) > MAX_HEAP
           \/ phase' = "assertion_failed" /\ heap' = heap
           \/ Handed(id, r, size) /\ ~misread
  <1>1. /\ ALIGNMENT \in Nat \ {0} /\ Rounded(size) \in Nat /\ size + ALIGNMENT <= Rounded(size)
        /\ Rounded(size) < size + ALIGNMENT + ALIGNMENT
        /\ MAX_HEAP \in Nat /\ heap.brk \in 0 .. MAX_HEAP /\ r.heap.brk \in 0 .. MAX_HEAP
    BY RoundedIs, HeapOK DEF HeapIs, Answered
  <1>0. /\ HeapIs(r.heap)
        /\ \/ r.p = -1 /\ r.heap = heap /\ heap.brk + Rounded(size) > MAX_HEAP
           \/ /\ r.p = heap.brk + ALIGNMENT /\ r.heap.brk \in heap.brk .. MAX_HEAP
              /\ r.heap.brk = heap.brk + Rounded(size) \/ Rounded(size) >= IntMod
    BY Zenon DEF Answered
  <1>2. IntMod \in Nat /\ MAX_HEAP + MAX_HEAP < IntMod
    <2>1. IntMod \in Nat /\ MAX_HEAP < IntMod \div 2
      BY HeapOK
    <2>2. IntMod \div 2 \in Int /\ IntMod % 2 \in 0 .. 1 /\ IntMod = 2 * (IntMod \div 2) + (IntMod % 2)
      BY <2>1, Divided
    <2> QED BY <1>1, <2>1, <2>2
  <1> DEFINE fits == RangeOK(list, r.p, size, r.heap.brk - 1)
  <1>3. mem_heap_hi(r.heap) = r.heap.brk - 1
    BY DEF mem_heap_hi
  <1>4. \/ r.p = -1 /\ phase' = "invalid" /\ k' = k /\ heap' = heap
        \/ phase' = "assertion_failed" /\ heap' = heap
        \/ r.p # -1 /\ size > 0 /\ ~fits /\ phase' = "invalid" /\ k' = k /\ heap' = r.heap
        \/ r.p # -1 /\ size > 0 /\ fits /\ ~kept /\ phase' = "invalid" /\ k' = k /\ heap' = r.heap
        \/ /\ r.p # -1 /\ phase' = phase /\ size > 0 /\ fits /\ kept
           /\ heap' = Fill(r.heap, r.p, size, id)
           /\ blocks' = [blocks EXCEPT ![id] = r.p]
           /\ block_sizes' = [block_sizes EXCEPT ![id] = size]
           /\ k' = k + 1
    BY <1>3, Zenon DEF Take, Fault, NULL
  <1>5. fits => r.p + size - 1 <= r.heap.brk - 1
    BY DEF RangeOK
  <1>6. ASSUME r.p # -1, size > 0, Rounded(size) <= MAX_HEAP PROVE fits
    <2>1. r.p = heap.brk + ALIGNMENT /\ r.heap.brk = heap.brk + Rounded(size)
      BY <1>0, <1>1, <1>2, <1>6
    <2>2. r.p % ALIGNMENT = 0
      <3> PICK q \in Nat : heap.brk = ALIGNMENT * q
        BY Zenon DEF HeapAligned
      <3>1. heap.brk + ALIGNMENT = ALIGNMENT * (q + 1) /\ q + 1 \in Int
        BY <1>1
      <3> QED BY <1>1, <2>1, <3>1, MultipleMod
    <2>3. r.p >= 0 /\ r.p + size - 1 <= r.heap.brk - 1
      BY <1>1, <2>1
    <2>4. \A a \in DOMAIN list : ~InRange(r.p, list[a]) /\ ~InRange(r.p + size - 1, list[a])
      BY <1>1, <1>6, <2>1 DEF InRange, InHeap
    <2> QED BY <2>2, <2>3, <2>4, Zenon DEF RangeOK
  <1>7. ASSUME r.p # -1, fits
        PROVE  r.p = heap.brk + ALIGNMENT /\ r.heap.brk = heap.brk + Rounded(size) /\ Rounded(size) <= MAX_HEAP
    BY <1>0, <1>1, <1>2, <1>5, <1>7
  <1> HIDE DEF fits
  <1>8. CASE r.p = -1 /\ phase' = "invalid" /\ k' = k /\ heap' = heap
    <2>1. heap.brk + Rounded(size) > MAX_HEAP
      BY <1>0, <1>1, <1>8
    <2> QED BY <1>8, <2>1, Zenon
  <1>9. CASE r.p # -1 /\ size > 0 /\ ~fits /\ phase' = "invalid" /\ k' = k /\ heap' = r.heap
    <2>1. Rounded(size) > MAX_HEAP
      BY <1>1, <1>6, <1>9
    <2>2. r.heap.brk + Rounded(size) > MAX_HEAP
      BY <1>1, <2>1
    <2> QED BY <1>0, <1>9, <2>2
  <1>10. CASE r.p # -1 /\ size > 0 /\ fits /\ ~kept /\ phase' = "invalid" /\ k' = k /\ heap' = r.heap
    <2>1. misread
      BY <1>7, <1>10, Zenon
    <2> QED BY <1>0, <1>10, <2>1, Zenon
  <1>11. CASE /\ r.p # -1 /\ phase' = phase /\ size > 0 /\ fits /\ kept
              /\ heap' = Fill(r.heap, r.p, size, id)
              /\ blocks' = [blocks EXCEPT ![id] = r.p]
              /\ block_sizes' = [block_sizes EXCEPT ![id] = size]
              /\ k' = k + 1
    BY <1>0, <1>7, <1>11, Zenon DEF Handed
  <1> QED BY <1>4, <1>8, <1>9, <1>10, <1>11, Zenon

LEMMA IntIsWide == IntMod \in Nat /\ MAX_HEAP \in Nat /\ MAX_HEAP + MAX_HEAP < IntMod
  <1>1. IntMod \in Nat /\ MAX_HEAP \in Nat /\ MAX_HEAP < IntMod \div 2
    BY HeapOK
  <1>2. IntMod \div 2 \in Int /\ IntMod % 2 \in 0 .. 1 /\ IntMod = 2 * (IntMod \div 2) + (IntMod % 2)
    BY <1>1, Divided
  <1> QED BY <1>1, <1>2

LEMMA LessOfTwo ==
    ASSUME NEW x \in Int, NEW y \in Int
    PROVE  Min({x, y}) \in {x, y} /\ Min({x, y}) <= x /\ Min({x, y}) <= y
  <1>1. \E z \in {x, y} : \A v \in {x, y} : z <= v
    OBVIOUS
  <1> QED BY <1>1 DEF Min

LEMMA MmMallocHeads ==
    ASSUME HeapIs(heap), NEW size \in Nat
    PROVE  LET r == mm_malloc(heap, size)
           IN  Answered(r, size) /\ Headed(r, size)
  <1> DEFINE r == mm_malloc(heap, size)
  <1>1. /\ ALIGNMENT \in Nat \ {0} /\ Rounded(size) \in Nat /\ size + ALIGNMENT <= Rounded(size)
        /\ MAX_HEAP \in Nat /\ IntMod \in Nat /\ MAX_HEAP < IntMod
        /\ heap.brk \in 0 .. MAX_HEAP /\ DOMAIN heap.mem = 0 .. MAX_HEAP - 1
    BY RoundedIs, IntIsWide DEF HeapIs
  <1>2. /\ HeapIs(r.heap)
        /\ \/ r.p = -1 /\ r.heap = heap /\ heap.brk + Rounded(size) > MAX_HEAP
           \/ /\ r.p = heap.brk + ALIGNMENT /\ r.heap.brk \in heap.brk .. MAX_HEAP
              /\ r.heap.brk = heap.brk + Rounded(size) \/ Rounded(size) >= IntMod
              /\ r.heap.mem = [heap.mem EXCEPT ![heap.brk] = size]
    BY MmMallocs
  <1> HIDE DEF r
  <1>3. Answered(r, size)
    BY <1>2, Zenon DEF Answered
  <1>4. ASSUME r.p # -1, Rounded(size) <= MAX_HEAP
        PROVE  /\ r.heap.mem[heap.brk] = size
               /\ \A a \in 0 .. heap.brk - 1 : r.heap.mem[a] = heap.mem[a]
    <2>1. r.heap.mem = [heap.mem EXCEPT ![heap.brk] = size]
      BY <1>2, <1>4
    <2>2. r.heap.brk = heap.brk + Rounded(size) /\ r.heap.brk <= MAX_HEAP
      BY <1>1, <1>2, <1>4
    <2>3. heap.brk \in 0 .. MAX_HEAP - 1 /\ \A a \in 0 .. heap.brk - 1 : a \in 0 .. MAX_HEAP - 1 /\ a # heap.brk
      BY <1>1, <2>2
    <2> QED BY <1>1, <2>1, <2>3
  <1> QED BY <1>3, <1>4, Zenon DEF Headed, r

\* What the block had is in the new payload, as far as it fits.
Copied(r, id, size) ==
    \A a \in 0 .. Min({size, block_sizes[id]}) - 1 : r.heap.mem[r.p + a] = Char(id)

\* The driver reads in it what it had written.
Read(r, id, size) ==
    \A a \in 0 .. Min({size, block_sizes[id]}) - 1 : r.heap.mem[r.p + a] = LowByte(id)

\* It does unless the byte written is read as another number, and then it never does.
LEMMA ReadIs ==
    ASSUME NEW r, NEW id, NEW size \in Nat \ {0}, block_sizes[id] \in Nat \ {0}, Copied(r, id, size)
    PROVE  Read(r, id, size) <=> Char(id) = LowByte(id)
  <1> DEFINE len == Min({size, block_sizes[id]})
  <1>1. 0 \in 0 .. len - 1
    <2>0. size \in Int /\ block_sizes[id] \in Int
      OBVIOUS
    <2>1. len \in {size, block_sizes[id]}
      BY <2>0, LessOfTwo, Zenon DEF len
    <2> HIDE DEF len
    <2> QED BY <2>1
  <1>2. \A a \in 0 .. len - 1 : r.heap.mem[r.p + a] = Char(id)
    BY Zenon DEF Copied
  <1> QED BY <1>1, <1>2, Zenon DEF Read

LEMMA MmReallocs ==
    ASSUME HeapIs(heap), NEW id, Whole(id), blocks[id] \in Int, NEW size \in Nat
    PROVE  LET r == mm_realloc(heap, blocks[id], size)
           IN  /\ Answered(r, size) /\ Headed(r, size)
               /\ r.p # -1 /\ Rounded(size) <= MAX_HEAP => Copied(r, id, size)
  <1> DEFINE old == blocks[id]
             len == Min({size, block_sizes[id]})
             s == mm_malloc(heap, size)
             cp == Copy(s.heap, s.p, old, len)
             r == mm_realloc(heap, old, size)
  <1>1. /\ ALIGNMENT \in Nat \ {0} /\ Rounded(size) \in Nat /\ size + ALIGNMENT <= Rounded(size)
        /\ MAX_HEAP \in Nat /\ IntMod \in Nat /\ MAX_HEAP < IntMod
        /\ heap.brk \in 0 .. MAX_HEAP /\ DOMAIN heap.mem = 0 .. MAX_HEAP - 1
    BY RoundedIs, IntIsWide DEF HeapIs
  <1>2. /\ s = [p |-> s.p, heap |-> s.heap] /\ HeapIs(s.heap)
        /\ \/ s.p = -1 /\ s.heap = heap /\ heap.brk + Rounded(size) > MAX_HEAP
           \/ /\ s.p = heap.brk + ALIGNMENT /\ s.heap.brk \in heap.brk .. MAX_HEAP
              /\ s.heap.brk = heap.brk + Rounded(size) \/ Rounded(size) >= IntMod
              /\ s.heap.mem = [heap.mem EXCEPT ![heap.brk] = size]
    BY MmMallocs
  <1>3. /\ block_sizes[id] \in Nat \ {0} /\ ALIGNMENT <= old /\ old + block_sizes[id] <= heap.brk
        /\ \A a \in old .. old + block_sizes[id] - 1 : heap.mem[a] = Char(id)
        /\ heap.mem[old - SIZE_T_SIZE] = block_sizes[id]
    BY HeaderSize DEF Whole, Payload
  <1>4. r = IF s.p = -1 THEN s ELSE [s EXCEPT !.heap = cp]
    BY <1>3, Zenon DEF mm_realloc, mm_free, NULL
  <1>5. len \in Nat /\ len <= size /\ len <= block_sizes[id]
    <2>1. size \in Int /\ block_sizes[id] \in Int
      BY <1>3
    <2>2. len \in {size, block_sizes[id]} /\ len <= size /\ len <= block_sizes[id]
      BY <2>1, LessOfTwo
    <2> HIDE DEF len
    <2> QED BY <1>3, <2>2
  <1>6. /\ HeapIs(cp) /\ cp.brk = s.heap.brk
        /\ \A a \in 0 .. MAX_HEAP - 1 :
              cp.mem[a] = IF a \in s.p .. s.p + len - 1 THEN s.heap.mem[old + a - s.p] ELSE s.heap.mem[a]
    <2> HIDE DEF s, len, old
    <2> QED BY <1>2, CopyIs
  <1> HIDE DEF s, cp, r, len
  <1>7. CASE s.p = -1
    <2>1. r = s /\ r.p = -1
      BY <1>4, <1>7
    <2>2. HeapIs(r.heap) /\ r.heap = heap /\ heap.brk + Rounded(size) > MAX_HEAP
      BY <1>1, <1>2, <1>7, <2>1
    <2>3. Answered(r, size) /\ Headed(r, size)
      BY <2>1, <2>2 DEF Answered, Headed
    <2> QED BY <2>1, <2>3, Zenon DEF r
  <1>8. CASE s.p # -1
    <2>1. r = [p |-> s.p, heap |-> cp]
      BY <1>2, <1>4, <1>8
    <2>2. r.p = s.p /\ r.heap = cp
      BY <2>1
    <2>3. /\ s.p = heap.brk + ALIGNMENT /\ s.heap.brk \in heap.brk .. MAX_HEAP
          /\ s.heap.brk = heap.brk + Rounded(size) \/ Rounded(size) >= IntMod
          /\ s.heap.mem = [heap.mem EXCEPT ![heap.brk] = size]
      BY <1>2, <1>8
    <2>4. ASSUME Rounded(size) <= MAX_HEAP
          PROVE  /\ \A a \in 0 .. heap.brk - 1 : cp.mem[a] = heap.mem[a]
                 /\ cp.mem[heap.brk] = size
                 /\ \A a \in 0 .. len - 1 : cp.mem[s.p + a] = Char(id)
      <3>1. s.heap.brk = heap.brk + Rounded(size)
        BY <1>1, <2>3, <2>4
      <3>2. /\ heap.brk \in Nat /\ s.heap.brk \in Int /\ s.heap.brk <= MAX_HEAP /\ MAX_HEAP \in Nat
            /\ s.heap.brk = heap.brk + Rounded(size) /\ Rounded(size) \in Nat /\ Rounded(size) > 0
        BY <1>1, <2>3, <3>1
      <3>3. s.p \in Int /\ s.p > heap.brk
        BY <1>1, <2>3
      <3>4. \A a \in 0 .. heap.brk - 1 : a \in 0 .. MAX_HEAP - 1 /\ a \notin s.p .. s.p + len - 1 /\ a # heap.brk
        BY <3>2, <3>3
      <3>5. heap.brk \in 0 .. MAX_HEAP - 1 /\ heap.brk \notin s.p .. s.p + len - 1
        BY <3>2, <3>3
      <3>6. \A a \in 0 .. len - 1 :
                /\ s.p + a \in 0 .. MAX_HEAP - 1 /\ s.p + a \in s.p .. s.p + len - 1
                /\ old + (s.p + a) - s.p = old + a
                /\ old + a \in old .. old + block_sizes[id] - 1 /\ old + a # heap.brk /\ old + a \in 0 .. MAX_HEAP - 1
        <4> TAKE a \in 0 .. len - 1
        <4>1. old \in Int /\ s.p \in Int
          BY <1>1, <2>3
        <4> HIDE DEF old
        <4>2. a \in Nat /\ a < len
          BY <1>5
        <4>3. /\ heap.brk \in Int /\ heap.brk + (size + ALIGNMENT) <= MAX_HEAP /\ heap.brk >= 0
              /\ s.p = heap.brk + ALIGNMENT /\ ALIGNMENT \in Nat \ {0} /\ MAX_HEAP \in Nat
          BY <1>1, <2>3, <3>1
        <4>4. s.p + a \in s.p .. s.p + len - 1
          BY <1>5, <4>1, <4>2
        <4>5. s.p + a \in 0 .. MAX_HEAP - 1
          BY <1>5, <4>1, <4>2, <4>3
        <4>6. old + (s.p + a) - s.p = old + a
          BY <4>1, <4>2
        <4>7. old + a < old + block_sizes[id] /\ old + a >= old /\ old >= 0
          BY <1>1, <1>3, <1>5, <4>1, <4>2
        <4>8. old + a \in old .. old + block_sizes[id] - 1 /\ old + a # heap.brk /\ old + a \in 0 .. MAX_HEAP - 1
          BY <1>3, <4>1, <4>2, <4>3, <4>7
        <4> QED BY <4>4, <4>5, <4>6, <4>8
      <3>7. /\ s.heap.mem[heap.brk] = size
            /\ \A a \in 0 .. MAX_HEAP - 1 : a # heap.brk => s.heap.mem[a] = heap.mem[a]
        BY <1>1, <2>3, <3>5
      <3>8. \A a \in 0 .. heap.brk - 1 : cp.mem[a] = heap.mem[a]
        BY <1>6, <3>4, <3>7
      <3>9. cp.mem[heap.brk] = size
        BY <1>6, <3>5, <3>7
      <3>10. \A a \in 0 .. len - 1 : cp.mem[s.p + a] = Char(id)
        <4> TAKE a \in 0 .. len - 1
        <4>1. cp.mem[s.p + a] = s.heap.mem[old + a]
          BY <1>6, <3>6
        <4>2. s.heap.mem[old + a] = heap.mem[old + a] /\ heap.mem[old + a] = Char(id)
          BY <1>3, <3>6, <3>7
        <4> QED BY <4>1, <4>2
      <3> QED BY <3>8, <3>9, <3>10
    <2>5. HeapIs(r.heap) /\ r.heap.brk = s.heap.brk
      BY <1>6, <2>2
    <2>6. Answered(r, size) /\ Headed(r, size)
      BY <2>2, <2>3, <2>4, <2>5, Zenon DEF Answered, Headed
    <2> QED BY <2>2, <2>4, <2>6, Zenon DEF r, len, Copied
  <1> QED BY <1>7, <1>8

\* A block handed out lies beyond all others, which stay as they are.
LEMMA WholeStays ==
    ASSUME HeapIs(heap), NEW r, NEW size \in Nat, NEW id \in Ids, Headed(r, size), Handed(id, r, size),
           blocks \in [Ids -> Int], block_sizes \in [Ids -> Int]
    PROVE  /\ HeapIs(heap') /\ heap'.brk = r.heap.brk
           /\ Whole(id)'
           /\ \A j \in Ids : j # id /\ Whole(j) => Whole(j)'
  <1>0. /\ r.heap.mem[heap.brk] = size
        /\ \A a \in 0 .. heap.brk - 1 : r.heap.mem[a] = heap.mem[a]
        /\ size > 0 /\ r.p = heap.brk + ALIGNMENT /\ HeapIs(r.heap)
        /\ r.heap.brk = heap.brk + Rounded(size)
        /\ heap' = Fill(r.heap, r.p, size, id)
        /\ blocks' = [blocks EXCEPT ![id] = r.p]
        /\ block_sizes' = [block_sizes EXCEPT ![id] = size]
    BY Zenon DEF Headed, Handed
  <1>1. /\ ALIGNMENT \in Nat \ {0} /\ Rounded(size) \in Nat /\ size + ALIGNMENT <= Rounded(size)
        /\ MAX_HEAP \in Nat /\ heap.brk \in 0 .. MAX_HEAP /\ r.heap.brk \in 0 .. MAX_HEAP
    BY <1>0, RoundedIs, HeapOK DEF HeapIs
  <1>2. /\ HeapIs(heap') /\ heap'.brk = r.heap.brk
        /\ \A a \in 0 .. MAX_HEAP - 1 :
              heap'.mem[a] = IF a \in r.p .. r.p + size - 1 THEN Char(id) ELSE r.heap.mem[a]
    BY <1>0, FillIs
  <1>3. blocks'[id] = r.p /\ block_sizes'[id] = size
    BY <1>0
  <1>4. \A a \in r.p .. r.p + size - 1 : a \in 0 .. MAX_HEAP - 1
    BY <1>0, <1>1
  <1>5. /\ r.p - ALIGNMENT = heap.brk /\ heap.brk \in 0 .. MAX_HEAP - 1
        /\ heap.brk \notin r.p .. r.p + size - 1
    BY <1>0, <1>1
  <1>6. /\ size \in Nat \ {0} /\ ALIGNMENT <= r.p /\ r.p + size <= heap'.brk
    BY <1>0, <1>1, <1>2
  <1>7. \A a \in r.p .. r.p + size - 1 : heap'.mem[a] = Char(id)
    BY <1>2, <1>4
  <1>8. heap'.mem[r.p - ALIGNMENT] = size
    BY <1>0, <1>2, <1>5
  <1>9. Whole(id)'
    BY <1>3, <1>6, <1>7, <1>8, Zenon DEF Whole, Payload
  <1>10. \A a \in 0 .. heap.brk - 1 : heap'.mem[a] = heap.mem[a]
    <2> TAKE a \in 0 .. heap.brk - 1
    <2>1. a \in 0 .. MAX_HEAP - 1 /\ a \notin r.p .. r.p + size - 1
      BY <1>0, <1>1
    <2> QED BY <1>0, <1>2, <2>1
  <1>11. ASSUME NEW j \in Ids, j # id, Whole(j) PROVE Whole(j)'
    <2>1. blocks'[j] = blocks[j] /\ block_sizes'[j] = block_sizes[j] /\ blocks[j] \in Int
      BY <1>0, <1>11
    <2>2. /\ block_sizes[j] \in Nat \ {0} /\ ALIGNMENT <= blocks[j]
          /\ blocks[j] + block_sizes[j] <= heap.brk
          /\ \A a \in blocks[j] .. blocks[j] + block_sizes[j] - 1 : heap.mem[a] = Char(j)
          /\ heap.mem[blocks[j] - ALIGNMENT] = block_sizes[j]
      BY <1>11 DEF Whole, Payload
    <2>3. blocks[j] + block_sizes[j] <= heap'.brk
      BY <1>0, <1>1, <1>2, <2>1, <2>2
    <2>4. \A a \in blocks[j] .. blocks[j] + block_sizes[j] - 1 : heap'.mem[a] = Char(j)
      <3> TAKE a \in blocks[j] .. blocks[j] + block_sizes[j] - 1
      <3>1. a \in 0 .. heap.brk - 1
        BY <1>1, <2>1, <2>2
      <3> QED BY <1>10, <2>2, <3>1
    <2>5. heap'.mem[blocks[j] - ALIGNMENT] = block_sizes[j]
      <3>1. blocks[j] - ALIGNMENT \in 0 .. heap.brk - 1
        BY <1>1, <2>1, <2>2
      <3> QED BY <1>10, <2>2, <3>1
    <2> QED BY <2>1, <2>2, <2>3, <2>4, <2>5, Zenon DEF Whole, Payload
  <1> QED BY <1>2, <1>9, <1>11

LEMMA GrownMore ==
    ASSUME NEW m \in Nat, NEW g, Grown(g, m), NEW brk1 \in 0 .. MAX_HEAP,
           IF ops[m + 1].type = "free" THEN brk1 = g[m]
           ELSE ops[m + 1].size > 0 /\ brk1 = g[m] + Rounded(ops[m + 1].size)
    PROVE  \E f : Grown(f, m + 1) /\ f[m + 1] = brk1
  <1> DEFINE f == [a \in 0 .. m + 1 |-> IF a = m + 1 THEN brk1 ELSE g[a]]
  <1>1. g \in [0 .. m -> 0 .. MAX_HEAP] /\ g[0] = 0
    BY Zenon DEF Grown
  <1>2. f \in [0 .. m + 1 -> 0 .. MAX_HEAP] /\ f[0] = 0 /\ f[m + 1] = brk1
    BY <1>1
  <1>3. \A a \in 1 .. m : a \in 0 .. m + 1 /\ a - 1 \in 0 .. m + 1 /\ a # m + 1 /\ a - 1 # m + 1
    OBVIOUS
  <1>4. \A a \in 1 .. m : f[a] = g[a] /\ f[a - 1] = g[a - 1]
    BY <1>3
  <1>5. f[(m + 1) - 1] = g[m]
    OBVIOUS
  <1>6. \A a \in 1 .. m + 1 : a \in 1 .. m \/ a = m + 1
    OBVIOUS
  <1> HIDE DEF f
  <1>7. \A a \in 1 .. m + 1 : IF ops[a].type = "free" THEN f[a] = f[a - 1]
                              ELSE ops[a].size > 0 /\ f[a] = f[a - 1] + Rounded(ops[a].size)
    <2> TAKE a \in 1 .. m + 1
    <2>1. CASE a \in 1 .. m
      BY <1>4, <2>1, Zenon DEF Grown
    <2>2. CASE a = m + 1
      BY <1>2, <1>5, <2>2, Zenon
    <2> QED BY <1>6, <2>1, <2>2
  <1> QED BY <1>2, <1>7, Zenon DEF Grown

\* mm.c in the validity pass, and when it is found invalid.
MmValid == package = "mm" /\ phase = "valid" =>
    /\ \E g : Grown(g, k) /\ g[k] = heap.brk
    /\ HeapAligned
    /\ \A j \in LiveIn(ops, k) : Whole(j)
    /\ \A a \in 1 .. k : ~Misread(ops[a])

MmInvalid == package = "mm" /\ phase = "invalid" =>
    Misread(ops[k + 1]) \/ heap.brk + Rounded(ops[k + 1].size) > MAX_HEAP

\* No payload of the list is beyond the heap.
LEMMA ListInHeap ==
    ASSUME NEW list, NEW S \in SUBSET Ids, blocks \in [Ids -> Int], heap.brk \in Int,
           Tracks(list, blocks, block_sizes, S), \A j \in S : Whole(j)
    PROVE  InHeap(list)
  <1> SUFFICES ASSUME NEW a \in DOMAIN list PROVE list[a].hi \in Int /\ list[a].hi < heap.brk
    BY DEF InHeap
  <1>1. list[a] \in Members(list)
    BY DEF Members
  <1>2. PICK j \in S : list[a] = Extent(blocks[j], blocks[j] + block_sizes[j] - 1)
    BY <1>1 DEF Tracks
  <1>3. blocks[j] \in Int /\ block_sizes[j] \in Nat /\ blocks[j] + block_sizes[j] <= heap.brk
    BY DEF Whole
  <1>4. list[a].hi = blocks[j] + block_sizes[j] - 1
    BY <1>2 DEF Extent
  <1> QED BY <1>3, <1>4

\* A request answered by mm.c, with or without the old payload of its block in the list.
LEMMA MmAnswered ==
    ASSUME MallocInv, HeapIs(heap), MmValid, package = "mm", phase = "valid",
           UNCHANGED <<package, ops>>, k < Len(ops),
           NEW id \in Ids, NEW size \in Nat, ops[k + 1].type # "free", ops[k + 1].size = size,
           NEW S \in SUBSET LiveIn(ops, k), id \notin S, LiveIn(ops, k + 1) = S \cup {id},
           NEW list, Tracks(list, blocks, block_sizes, S),
           NEW r, Answered(r, size), Headed(r, size),
           NEW kept, r.p # -1 /\ size > 0 /\ Rounded(size) <= MAX_HEAP => (kept <=> ~Misread(ops[k + 1])),
           Take(list, id, r, size, kept)
    PROVE  HeapIs(heap') /\ MmValid' /\ MmInvalid'
  <1>1. /\ ops \in Seq(Requests) /\ k \in 0 .. Len(ops)
        /\ blocks \in [Ids -> Int] /\ block_sizes \in [Ids -> Int]
    BY Zenon DEF MallocInv, ReadInv, ValidInv
  <1>2. PICK g : Grown(g, k) /\ g[k] = heap.brk
    BY Zenon DEF MmValid
  <1>3. HeapAligned
    BY Zenon DEF MmValid
  <1>4. \A j \in S : j \in Ids /\ Whole(j)
    <2>1. \A j \in LiveIn(ops, k) : Whole(j)
      BY Zenon DEF MmValid
    <2> QED BY <2>1 DEF LiveIn
  <1>5. heap.brk \in 0 .. MAX_HEAP /\ ALIGNMENT \in Nat \ {0} /\ Rounded(size) \in Nat
    BY RoundedIs DEF HeapIs
  <1>6. InHeap(list)
    <2>1. S \in SUBSET Ids /\ \A j \in S : Whole(j)
      BY <1>4
    <2>2. heap.brk \in Int /\ Tracks(list, blocks, block_sizes, S)
      BY <1>5
    <2> QED BY <1>1, <2>1, <2>2, ListInHeap, SMTT(30)
  <1>7. \/ /\ phase' = "invalid" /\ k' = k /\ HeapIs(heap')
           /\ Misread(ops[k + 1]) \/ heap'.brk + Rounded(size) > MAX_HEAP
        \/ phase' = "assertion_failed" /\ heap' = heap
        \/ Handed(id, r, size) /\ ~Misread(ops[k + 1])
    BY <1>3, <1>6, MmTaken
  <1>8. CASE /\ phase' = "invalid" /\ k' = k /\ HeapIs(heap')
             /\ Misread(ops[k + 1]) \/ heap'.brk + Rounded(size) > MAX_HEAP
    <2>1. ops'[k' + 1].size = size /\ ops'[k' + 1] = ops[k + 1]
      BY <1>8
    <2> QED BY <1>8, <2>1, Zenon DEF MmValid, MmInvalid
  <1>9. CASE phase' = "assertion_failed" /\ heap' = heap
    BY <1>9, Zenon DEF MmValid, MmInvalid
  <1>10. CASE Handed(id, r, size) /\ ~Misread(ops[k + 1])
    <2>1. phase' = phase /\ k' = k + 1 /\ size > 0 /\ r.heap.brk = heap.brk + Rounded(size)
      BY <1>10, Zenon DEF Handed
    <2>2. /\ HeapIs(heap') /\ heap'.brk = r.heap.brk /\ Whole(id)'
          /\ \A j \in Ids : j # id /\ Whole(j) => Whole(j)'
      BY <1>1, <1>10, WholeStays
    <2>3. \E f : Grown(f, k + 1) /\ f[k + 1] = heap'.brk
      <3>0. heap'.brk \in 0 .. MAX_HEAP
        BY <2>2 DEF HeapIs
      <3>1. k \in Nat /\ heap'.brk = g[k] + Rounded(ops[k + 1].size) /\ ops[k + 1].size > 0
        BY <1>1, <1>2, <2>1, <2>2
      <3> QED BY <1>2, <3>0, <3>1, GrownMore
    <2>4. (\E g1 : Grown(g1, k) /\ g1[k] = heap.brk)'
      BY <2>1, <2>3, Zenon DEF Grown
    <2>5. HeapAligned'
      <3>1. PICK q \in Nat : heap.brk = ALIGNMENT * q
        BY <1>3 DEF HeapAligned
      <3>2. PICK m \in Nat : Rounded(size) = ALIGNMENT * m
        BY RoundedIs
      <3>3. heap'.brk = ALIGNMENT * (q + m) /\ q + m \in Nat
        BY <1>5, <2>1, <2>2, <3>1, <3>2
      <3> QED BY <3>3 DEF HeapAligned
    <2>6. \A j \in LiveIn(ops', k') : Whole(j)'
      <3> TAKE j \in LiveIn(ops', k')
      <3>1. j \in S \cup {id}
        BY <2>1
      <3>2. CASE j = id
        BY <2>2, <3>2
      <3>3. CASE j # id
        BY <1>4, <2>2, <3>1, <3>3
      <3> QED BY <3>2, <3>3
    <2>7. MmInvalid'
      BY <2>1 DEF MmInvalid
    <2>8. \A a \in 1 .. k' : ~Misread(ops'[a])
      <3>1. \A a \in 1 .. k : ~Misread(ops[a])
        BY Zenon DEF MmValid
      <3>2. \A a \in 1 .. k + 1 : a \in 1 .. k \/ a = k + 1
        BY <1>1
      <3> QED BY <1>10, <2>1, <3>1, <3>2, Zenon
    <2> QED BY <2>2, <2>4, <2>5, <2>6, <2>7, <2>8, Zenon DEF MmValid
  <1> QED BY <1>7, <1>8, <1>9, <1>10, Zenon

LEMMA StepMmValid ==
    ASSUME MallocInv, HeapIs(heap), MmValid, package = "mm", Valid
    PROVE  HeapIs(heap') /\ MmValid' /\ MmInvalid'
  <1> DEFINE op == ops[k + 1]
             L == LiveIn(ops, k)
  <1>1. /\ phase = "valid" /\ k < num_ops /\ UNCHANGED <<package, ops, num_ops>>
        /\ ValidAlloc(op) \/ ValidRealloc(op) \/ ValidFree(op)
    BY DEF Valid, replayVars
  <1>2. /\ blocks \in [Ids -> Int] /\ block_sizes \in [Ids -> Int]
        /\ ops \in Seq(Requests) /\ Follow(ops)
        /\ k \in 0 .. Len(ops) /\ num_ops = Len(ops)
        /\ Spread(ranges) /\ Tracks(ranges, blocks, block_sizes, L)
    BY <1>1, Zenon DEF MallocInv, ReadInv, ValidInv
  <1>3. k \in Nat /\ k + 1 \in DOMAIN ops /\ op \in Requests /\ (k + 1) - 1 = k /\ k < Len(ops)
    BY <1>1, <1>2
  <1>4. op.type \in {"alloc", "realloc", "free"} /\ op.index \in Ids /\ op.size \in Nat
    BY <1>3, RequestTypes, SizesAreNat
  <1>5. op.type = "alloc" <=> op.index \notin L
    BY <1>2, <1>3, Zenon DEF Follow
  <1>6. /\ op.type = "alloc" => LiveIn(ops, k + 1) = L \cup {op.index}
        /\ op.type = "realloc" => LiveIn(ops, k + 1) = L
        /\ op.type = "free" => LiveIn(ops, k + 1) = L \ {op.index}
    BY <1>3, LiveMoves
  <1>7. L \in SUBSET Ids
    BY DEF LiveIn
  <1>8. \A j \in L : Whole(j)
    BY <1>1, Zenon DEF MmValid
  <1> HIDE DEF L
  <1> DEFINE less == remove_range(ranges, blocks[op.index])
  <1>9. op.type # "alloc" => Tracks(less, blocks, block_sizes, L \ {op.index})
    BY <1>2, <1>5, <1>7, TracksLess
  <1> HIDE DEF less
  <1>10. CASE ValidAlloc(op)
    <2>1. op.type = "alloc"
      BY <1>10 DEF ValidAlloc
    <2>2. PICK r, kept : /\ r = mm_malloc(heap, op.size) /\ kept = TRUE
                         /\ Take(ranges, op.index, r, op.size, kept)
      <3>1. Malloc(op.size) = {mm_malloc(heap, op.size)}
        BY DEF Malloc
      <3>2. PICK r \in Malloc(op.size) : Take(ranges, op.index, r, op.size, TRUE)
        BY <1>10, Zenon DEF ValidAlloc
      <3>3. r = mm_malloc(heap, op.size)
        BY <3>1, <3>2
      <3> QED BY <3>2, <3>3, Zenon
    <2>3. Answered(r, op.size) /\ Headed(r, op.size)
      <3> HIDE DEF op
      <3> QED BY <1>4, <2>2, MmMallocHeads
    <2>4. op.index \notin L /\ LiveIn(ops, k + 1) = L \cup {op.index} /\ op.type # "free"
      BY <1>5, <1>6, <2>1
    <2>5. /\ ops[k + 1].type # "free" /\ ops[k + 1].size = op.size /\ L \in SUBSET LiveIn(ops, k)
          /\ Tracks(ranges, blocks, block_sizes, L)
      BY <1>2, <2>4 DEF op, L
    <2>6. kept <=> ~Misread(ops[k + 1])
      BY <2>1, <2>2 DEF Misread
    <2> HIDE DEF op
    <2> QED BY <1>1, <1>3, <1>4, <2>2, <2>3, <2>4, <2>5, <2>6, MmAnswered
  <1>11. CASE ValidRealloc(op)
    <2>1. op.type = "realloc"
      BY <1>11 DEF ValidRealloc
    <2>2. PICK r \in Realloc(blocks[op.index], op.size) :
              Take(less, op.index, r, op.size, Read(r, op.index, op.size))
      BY <1>11, Zenon DEF ValidRealloc, less, Read
    <2>3. op.index \in L /\ Whole(op.index) /\ blocks[op.index] \in Int
      BY <1>2, <1>4, <1>5, <1>8, <2>1
    <2>4. r = mm_realloc(heap, blocks[op.index], op.size)
      BY <2>2 DEF Realloc
    <2>5. /\ Answered(r, op.size) /\ Headed(r, op.size)
          /\ r.p # -1 /\ Rounded(op.size) <= MAX_HEAP => Copied(r, op.index, op.size)
      <3> HIDE DEF op
      <3> QED BY <1>4, <2>3, <2>4, MmReallocs
    <2>6. PICK kept : /\ kept <=> Read(r, op.index, op.size)
                      /\ kept \in BOOLEAN /\ Take(less, op.index, r, op.size, kept)
      <3>1. Read(r, op.index, op.size) \in BOOLEAN
        BY DEF Read
      <3> QED BY <2>2, <3>1, Zenon
    <2>7. r.p # -1 /\ op.size > 0 /\ Rounded(op.size) <= MAX_HEAP => (kept <=> ~Misread(ops[k + 1]))
      <3> SUFFICES ASSUME r.p # -1, op.size > 0, Rounded(op.size) <= MAX_HEAP
                   PROVE  kept <=> ~Misread(ops[k + 1])
        OBVIOUS
      <3>1. Misread(op) <=> Char(op.index) # LowByte(op.index)
        BY <2>1, Zenon DEF Misread
      <3>2. op.size \in Nat \ {0} /\ block_sizes[op.index] \in Nat \ {0}
        BY <1>4, <2>3 DEF Whole
      <3>3. Read(r, op.index, op.size) <=> Char(op.index) = LowByte(op.index)
        <4> HIDE DEF op
        <4> QED BY <2>5, <3>2, ReadIs
      <3> QED BY <2>6, <3>1, <3>3, Zenon DEF op
    <2>8. /\ op.index \notin L \ {op.index} /\ L \ {op.index} \in SUBSET LiveIn(ops, k)
          /\ LiveIn(ops, k + 1) = (L \ {op.index}) \cup {op.index}
          /\ ops[k + 1].type # "free" /\ ops[k + 1].size = op.size
          /\ Tracks(less, blocks, block_sizes, L \ {op.index})
      BY <1>6, <1>9, <2>1, <2>3 DEF L, op
    <2> HIDE DEF op
    <2> QED BY <1>1, <1>3, <1>4, <2>5, <2>6, <2>7, <2>8, MmAnswered
  <1>12. CASE ValidFree(op)
    <2>1. op.type = "free" /\ k' = k + 1 /\ UNCHANGED <<phase, heap, blocks, block_sizes>>
      BY <1>12 DEF ValidFree
    <2>2. PICK g : Grown(g, k) /\ g[k] = heap.brk
      BY <1>1, Zenon DEF MmValid
    <2>3. \E f : Grown(f, k + 1) /\ f[k + 1] = heap'.brk
      <3>1. heap'.brk \in 0 .. MAX_HEAP /\ heap'.brk = g[k] /\ ops[k + 1].type = "free"
        BY <2>1, <2>2 DEF HeapIs
      <3> QED BY <1>3, <2>2, <3>1, GrownMore
    <2>4. (\E g1 : Grown(g1, k) /\ g1[k] = heap.brk)'
      BY <1>1, <2>1, <2>3, Zenon DEF Grown
    <2>5. HeapAligned'
      BY <1>1, <2>1, Zenon DEF MmValid, HeapAligned
    <2>6. \A j \in LiveIn(ops', k') : Whole(j)'
      <3> TAKE j \in LiveIn(ops', k')
      <3>1. j \in L
        BY <1>1, <1>6, <2>1
      <3>2. Whole(j)
        BY <1>8, <3>1
      <3> QED BY <2>1, <3>2 DEF Whole, Payload
    <2>7. HeapIs(heap') /\ phase' # "invalid"
      BY <1>1, <2>1
    <2>8. \A a \in 1 .. k' : ~Misread(ops'[a])
      <3>1. \A a \in 1 .. k : ~Misread(ops[a])
        BY <1>1, Zenon DEF MmValid
      <3>2. \A a \in 1 .. k + 1 : a \in 1 .. k \/ a = k + 1
        BY <1>3
      <3>3. ~Misread(ops[k + 1])
        BY <2>1 DEF Misread
      <3> QED BY <1>1, <2>1, <3>1, <3>2, <3>3, Zenon
    <2> QED BY <2>4, <2>5, <2>6, <2>7, <2>8, Zenon DEF MmValid, MmInvalid
  <1> QED BY <1>1, <1>10, <1>11, <1>12

-----------------------------------------------------------------------------
(* What is in use, and the passes for utilisation and speed                 *)

\* A pair for each cell of the blocks S.
Cells(S, szs) == UNION {{j} \X (1 .. szs[j]) : j \in S}

LEMMA CellsMore ==
    ASSUME NEW S, NEW szs, IsFiniteSet(Cells(S, szs)), NEW id, id \notin S, szs[id] \in Nat
    PROVE  /\ IsFiniteSet(Cells(S \cup {id}, szs))
           /\ Cardinality(Cells(S \cup {id}, szs)) = Cardinality(Cells(S, szs)) + szs[id]
  <1> DEFINE new == {id} \X (1 .. szs[id])
             len == szs[id]
             C == Cells(S, szs)
  <1>1. IsFiniteSet({id}) /\ Cardinality({id}) = 1
    BY FS_Singleton
  <1>2. IsFiniteSet(1 .. len) /\ Cardinality(1 .. len) = len
    <2>1. len \in Nat
      OBVIOUS
    <2> HIDE DEF len
    <2> QED BY <2>1, FS_Interval, SMTT(30)
  <1>3. IsFiniteSet(new) /\ Cardinality(new) = Cardinality({id}) * Cardinality(1 .. len)
    BY <1>1, <1>2, FS_Product
  <1>4. Cardinality(new) = len
    BY <1>1, <1>2, <1>3
  <1>5. Cells(S \cup {id}, szs) = C \cup new
    BY DEF Cells
  <1>6. C \cap new = {}
    BY DEF Cells
  <1> HIDE DEF new, len, C
  <1>7. /\ IsFiniteSet(C \cup new)
        /\ Cardinality(C \cup new) = Cardinality(C) + Cardinality(new) - Cardinality({})
    BY <1>3, <1>6, FS_Union DEF C
  <1>8. Cardinality({}) = 0 /\ Cardinality(C) \in Nat
    BY FS_EmptySet, FS_CardinalityType DEF C
  <1>9. len \in Nat
    BY DEF len
  <1>10. IsFiniteSet(C \cup new) /\ Cardinality(C \cup new) = Cardinality(C) + len
    BY <1>4, <1>7, <1>8, <1>9
  <1> QED BY <1>5, <1>10, Zenon DEF C, len

\* Without block id.
LEMMA CellsLess ==
    ASSUME NEW S, NEW szs, IsFiniteSet(Cells(S, szs)), NEW id \in S, szs[id] \in Nat
    PROVE  /\ IsFiniteSet(Cells(S \ {id}, szs))
           /\ Cardinality(Cells(S \ {id}, szs)) \in Nat
           /\ Cardinality(Cells(S, szs)) = Cardinality(Cells(S \ {id}, szs)) + szs[id]
  <1> DEFINE T == S \ {id}
  <1>1. Cells(T, szs) \in SUBSET Cells(S, szs)
    BY DEF Cells
  <1>2. IsFiniteSet(Cells(T, szs)) /\ Cardinality(Cells(T, szs)) \in Nat
    BY <1>1, FS_Subset, FS_CardinalityType
  <1>3. id \notin T /\ T \cup {id} = S
    OBVIOUS
  <1> HIDE DEF T
  <1>4. Cardinality(Cells(T \cup {id}, szs)) = Cardinality(Cells(T, szs)) + szs[id]
    BY <1>2, <1>3, CellsMore
  <1> QED BY <1>2, <1>3, <1>4 DEF T

LEMMA CellsSame ==
    ASSUME NEW S, NEW szs, NEW szs1, \A j \in S : szs[j] = szs1[j]
    PROVE  Cells(S, szs) = Cells(S, szs1)
  BY DEF Cells

\* The size of block j by the first m requests, and the sizes of all in use.
SizeIn(s, m, j) == s[Max({a \in 1 .. m : s[a].index = j})].size
UsedIn(s, m) == Cardinality(Cells(LiveIn(s, m), [j \in Ids |-> SizeIn(s, m, j)]))

LEMMA UsedOfPrefix ==
    ASSUME NEW S, NEW s \in Seq(S), NEW m \in 0 .. Len(s)
    PROVE  InUse(SubSeq(s, 1, m)) = UsedIn(s, m)
  <1> DEFINE t == SubSeq(s, 1, m)
             L == LiveIn(s, m)
             At(q, j) == {a \in 1 .. m : q[a].index = j}
  <1>1. m \in Nat /\ DOMAIN t = 1 .. m /\ \A a \in 1 .. m : t[a] = s[a]
    BY DEF t
  <1>2. Live(t) = L /\ L \subseteq Ids
    BY LiveOfPrefix DEF LiveIn
  <1> HIDE DEF t
  <1>3. ASSUME NEW j \in L
        PROVE  SizeOf(t, j) = SizeIn(s, m, j)
    <2>1. At(t, j) = At(s, j)
      BY <1>1
    <2>2. PICK a \in 1 .. m : s[a].index = j
      BY DEF LiveIn
    <2>3. PICK b \in At(s, j) : \A c1 \in At(s, j) : c1 <= b
      <3>1. At(s, j) # {} /\ At(s, j) \subseteq 0 .. m
        BY <2>2
      <3> HIDE DEF At
      <3> QED BY <1>1, <3>1, GreatestExists
    <2>4. \A c1 \in At(s, j) : b >= c1
      <3>1. b \in Int /\ \A c1 \in At(s, j) : c1 \in Int
        OBVIOUS
      <3> QED BY <2>3, <3>1
    <2>5. Max(At(s, j)) \in At(s, j)
      BY <2>4, Zenon DEF Max
    <2>6. Max(At(s, j)) \in 1 .. m
      BY <2>5
    <2>7. t[Max(At(s, j))] = s[Max(At(s, j))]
      BY <1>1, <2>6
    <2>8. SizeOf(t, j) = t[Max(At(t, j))].size
      BY <1>1 DEF SizeOf
    <2> QED BY <2>1, <2>7, <2>8 DEF SizeIn
  <1> DEFINE szs == [j \in Ids |-> SizeIn(s, m, j)]
  <1>4. \A j \in L : szs[j] = SizeOf(t, j)
    BY <1>2, <1>3
  <1> HIDE DEF szs, L
  <1>5. UNION {{j} \X (1 .. SizeOf(t, j)) : j \in L} = Cells(L, szs)
    BY <1>4 DEF Cells
  <1>6. InUse(t) = Cardinality(Cells(L, szs))
    BY <1>2, <1>5 DEF InUse, Cardinality, Cardinality
  <1> QED BY <1>6 DEF UsedIn, szs, L, t

\* What one more request changes of the sizes.
LEMMA SizeMoves ==
    ASSUME NEW s, NEW m \in Nat, NEW j
    PROVE  /\ s[m + 1].index = j => SizeIn(s, m + 1, j) = s[m + 1].size
           /\ s[m + 1].index # j => SizeIn(s, m + 1, j) = SizeIn(s, m, j)
  <1> DEFINE At(q) == {a \in 1 .. q : s[a].index = j}
  <1>1. 1 .. m + 1 = (1 .. m) \cup {m + 1}
    OBVIOUS
  <1>2. CASE s[m + 1].index = j
    <2>1. m + 1 \in At(m + 1) /\ \A a \in At(m + 1) : m + 1 >= a
      BY <1>2
    <2>2. \A x \in At(m + 1) : (\A a \in At(m + 1) : x >= a) => x = m + 1
      BY <2>1
    <2>3. Max(At(m + 1)) = m + 1
      BY <2>1, <2>2, Zenon DEF Max
    <2> QED BY <1>2, <2>3 DEF SizeIn
  <1>3. CASE s[m + 1].index # j
    <2>1. At(m + 1) = At(m)
      BY <1>1, <1>3
    <2> QED BY <1>3, <2>1 DEF SizeIn
  <1> QED BY <1>2, <1>3

\* Whatever the old block is, mm_realloc() takes what mm_malloc() does.
LEMMA ReallocAnswers ==
    ASSUME HeapIs(heap), NEW old, NEW size \in Nat
    PROVE  Answered(mm_realloc(heap, old, size), size)
  <1> DEFINE len == Min({size, heap.mem[old - SIZE_T_SIZE]})
             s == mm_malloc(heap, size)
             cp == Copy(s.heap, s.p, old, len)
             r == mm_realloc(heap, old, size)
  <1>1. s = [p |-> s.p, heap |-> s.heap] /\ HeapIs(s.heap)
    BY MmMallocs
  <1>2. Answered(s, size)
    BY MmMallocHeads
  <1>3. r = IF s.p = -1 THEN s ELSE [s EXCEPT !.heap = cp]
    BY Zenon DEF mm_realloc, mm_free, NULL
  <1>4. HeapIs(cp) /\ cp.brk = s.heap.brk
    <2> HIDE DEF s, len
    <2> QED BY <1>1, CopyIs
  <1> HIDE DEF s, cp, r, len
  <1>5. CASE s.p = -1
    <2>1. r = s
      BY <1>3, <1>5
    <2> QED BY <1>2, <2>1 DEF r
  <1>6. CASE s.p # -1
    <2>1. r = [p |-> s.p, heap |-> cp]
      BY <1>1, <1>3, <1>6
    <2>2. r.p = s.p /\ r.heap = cp
      BY <2>1
    <2>3. Answered(r, size)
      BY <1>2, <1>4, <1>6, <2>2 DEF Answered
    <2> QED BY <2>3 DEF r
  <1> QED BY <1>5, <1>6

\* The passes for utilisation and for speed of a trace that mm.c has been valid on.
MmRuns == package = "mm" /\ phase \in {"util", "speed"} =>
    /\ ops \in Seq(Requests) /\ Follow(ops)
    /\ k \in 0 .. Len(ops) /\ num_ops = Len(ops)
    /\ \E g : Grown(g, Len(ops)) /\ g[k] = heap.brk
    /\ k > 0 => heap.brk > 0

LEMMA ServeOutcomes ==
    ASSUME package = "mm", HeapIs(heap), NEW op, Serve(op), op.size \in Nat,
           op.type \in {"alloc", "realloc", "free"}
    PROVE  \/ op.type = "free" /\ k' = k + 1 /\ UNCHANGED <<phase, heap>>
           \/ /\ op.type # "free"
              /\ \E r : /\ Answered(r, op.size) /\ heap' = r.heap
                        /\ IF r.p = -1 THEN phase' = "app_error" ELSE k' = k + 1 /\ phase' = phase
  <1>1. CASE op.type = "free"
    BY <1>1 DEF Serve
  <1>2. CASE op.type # "free"
    <2>1. PICK r \in IF op.type = "alloc" THEN Malloc(op.size)
                     ELSE Realloc(blocks[op.index], op.size) :
              /\ heap' = r.heap
              /\ IF r.p = NULL THEN app_error /\ UNCHANGED k ELSE k' = k + 1 /\ UNCHANGED phase
      BY <1>2, Zenon DEF Serve
    <2>2. /\ Malloc(op.size) = {mm_malloc(heap, op.size)}
          /\ Realloc(blocks[op.index], op.size) = {mm_realloc(heap, blocks[op.index], op.size)}
      BY DEF Malloc, Realloc
    <2>3. r = mm_malloc(heap, op.size) \/ r = mm_realloc(heap, blocks[op.index], op.size)
      BY <2>1, <2>2
    <2>4. Answered(r, op.size)
      BY <2>3, MmMallocHeads, ReallocAnswers, Zenon
    <2>5. IF r.p = -1 THEN phase' = "app_error" ELSE k' = k + 1 /\ phase' = phase
      BY <2>1 DEF app_error, NULL
    <2> QED BY <1>2, <2>1, <2>4, <2>5
  <1> QED BY <1>1, <1>2

\* The heap grows as it did in the validity pass, which it was large enough for.
LEMMA MmServes ==
    ASSUME package = "mm", HeapIs(heap), ops \in Seq(Requests), Follow(ops), k \in 0 .. Len(ops) - 1,
           NEW g, Grown(g, Len(ops)), g[k] = heap.brk, k > 0 => heap.brk > 0,
           Serve(ops[k + 1])
    PROVE  /\ phase' = phase /\ k' = k + 1 /\ HeapIs(heap') /\ heap'.brk = g[k + 1] /\ heap'.brk > 0
           /\ ops[k + 1].type = "free" => heap'.brk = heap.brk
           /\ ops[k + 1].type # "free" => ops[k + 1].size + heap.brk <= heap'.brk
  <1> DEFINE op == ops[k + 1]
  <1>1. k \in Nat /\ k + 1 \in DOMAIN ops /\ k + 1 \in 1 .. Len(ops) /\ op \in Requests /\ (k + 1) - 1 = k
    OBVIOUS
  <1>2. op.type \in {"alloc", "realloc", "free"} /\ op.index \in Ids /\ op.size \in Nat
    BY <1>1, RequestTypes, SizesAreNat
  <1>3. IF op.type = "free" THEN g[k + 1] = g[k] ELSE op.size > 0 /\ g[k + 1] = g[k] + Rounded(op.size)
    BY <1>1 DEF Grown
  <1>4. g[k + 1] \in 0 .. MAX_HEAP /\ heap.brk \in 0 .. MAX_HEAP
    BY <1>1 DEF Grown, HeapIs
  <1>5. op.type = "alloc" <=> op.index \notin LiveIn(ops, k)
    BY <1>1, Zenon DEF Follow
  <1>6. k = 0 => op.type # "free"
    <2>1. LiveIn(ops, 0) = {}
      BY DEF LiveIn
    <2> QED BY <1>5, <2>1
  <1>7. ALIGNMENT \in Nat \ {0} /\ Rounded(op.size) \in Nat /\ op.size + ALIGNMENT <= Rounded(op.size)
    BY <1>2, RoundedIs
  <1>8. IntMod \in Nat /\ MAX_HEAP \in Nat /\ MAX_HEAP + MAX_HEAP < IntMod
    BY IntIsWide
  <1>9. \/ op.type = "free" /\ k' = k + 1 /\ UNCHANGED <<phase, heap>>
        \/ /\ op.type # "free"
           /\ \E r : /\ Answered(r, op.size) /\ heap' = r.heap
                     /\ IF r.p = -1 THEN phase' = "app_error" ELSE k' = k + 1 /\ phase' = phase
    <2> HIDE DEF op
    <2> QED BY <1>2, ServeOutcomes DEF op
  <1> HIDE DEF op
  <1>10. CASE op.type = "free"
    <2>1. k' = k + 1 /\ UNCHANGED <<phase, heap>>
      BY <1>9, <1>10
    <2> QED BY <1>3, <1>4, <1>6, <1>10, <2>1 DEF op
  <1>11. CASE op.type # "free"
    <2>1. PICK r : /\ Answered(r, op.size) /\ heap' = r.heap
                   /\ IF r.p = -1 THEN phase' = "app_error" ELSE k' = k + 1 /\ phase' = phase
      BY <1>9, <1>11, Zenon
    <2>2. g[k + 1] = heap.brk + Rounded(op.size)
      BY <1>3, <1>11
    <2>3. /\ HeapIs(r.heap)
          /\ \/ r.p = -1 /\ r.heap = heap /\ heap.brk + Rounded(op.size) > MAX_HEAP
             \/ /\ r.p = heap.brk + ALIGNMENT /\ r.heap.brk \in heap.brk .. MAX_HEAP
                /\ r.heap.brk = heap.brk + Rounded(op.size) \/ Rounded(op.size) >= IntMod
      BY <2>1, Zenon DEF Answered
    <2>4. r.p = heap.brk + ALIGNMENT /\ r.heap.brk = heap.brk + Rounded(op.size)
      BY <1>4, <1>7, <1>8, <2>2, <2>3
    <2>5. r.p # -1
      BY <1>4, <1>7, <2>4
    <2>6. phase' = phase /\ k' = k + 1 /\ heap' = r.heap
      BY <2>1, <2>5
    <2>7. HeapIs(heap')
      BY <2>3, <2>6, Zenon
    <2>8. heap'.brk = g[k + 1] /\ heap'.brk > 0 /\ op.size + heap.brk <= heap'.brk
      <3>1. heap.brk \in Int /\ heap.brk >= 0
        BY <1>4
      <3>2. heap'.brk = heap.brk + Rounded(op.size)
        BY <2>4, <2>6
      <3> QED BY <1>2, <1>7, <2>2, <3>1, <3>2
    <2> QED BY <1>11, <2>6, <2>7, <2>8, Zenon DEF op
  <1> QED BY <1>10, <1>11

LEMMA StepMmRuns ==
    ASSUME HeapIs(heap), MmRuns, package = "mm", phase \in {"util", "speed"}, k < num_ops,
           Serve(ops[k + 1]), UNCHANGED <<package, ops, num_ops>>
    PROVE  /\ HeapIs(heap') /\ MmRuns' /\ phase' = phase /\ k' = k + 1
           /\ ops[k + 1].type = "free" => heap'.brk = heap.brk
           /\ ops[k + 1].type # "free" => ops[k + 1].size + heap.brk <= heap'.brk
  <1>1. /\ ops \in Seq(Requests) /\ Follow(ops)
        /\ k \in 0 .. Len(ops) /\ num_ops = Len(ops) /\ (k > 0 => heap.brk > 0)
    BY Zenon DEF MmRuns
  <1>2. PICK g : Grown(g, Len(ops)) /\ g[k] = heap.brk
    BY Zenon DEF MmRuns
  <1>3. k \in 0 .. Len(ops) - 1 /\ k + 1 \in 0 .. Len(ops)
    BY <1>1
  <1>4. /\ phase' = phase /\ k' = k + 1 /\ HeapIs(heap') /\ heap'.brk = g[k + 1] /\ heap'.brk > 0
        /\ ops[k + 1].type = "free" => heap'.brk = heap.brk
        /\ ops[k + 1].type # "free" => ops[k + 1].size + heap.brk <= heap'.brk
    BY <1>1, <1>2, <1>3, MmServes
  <1>5. (\E g1 : Grown(g1, Len(ops)) /\ g1[k] = heap.brk)'
    BY <1>2, <1>4, Zenon DEF Grown
  <1>6. MmRuns'
    <2>1. /\ ops' \in Seq(Requests) /\ Follow(ops') /\ k' \in 0 .. Len(ops') /\ num_ops' = Len(ops')
          /\ heap'.brk > 0
      BY <1>1, <1>3, <1>4
    <2> QED BY <1>5, <2>1, Zenon DEF MmRuns
  <1> QED BY <1>4, <1>6, Zenon

\* The blocks in use have the sizes of their last requests; the total is of these, and the
\* maximum that of the totals so far, all of which the allocator has taken from the heap.
SizesKept ==
    /\ block_sizes \in [Ids -> Int]
    /\ \A j \in LiveIn(ops, k) : block_sizes[j] \in Nat /\ block_sizes[j] = SizeIn(ops, k, j)
    /\ IsFiniteSet(Cells(LiveIn(ops, k), block_sizes))
    /\ total_size = Cardinality(Cells(LiveIn(ops, k), block_sizes))

Highest(q, m) ==
    /\ \A a \in 0 .. q : UsedIn(ops, a) \in 0 .. m
    /\ \E a \in 0 .. q : UsedIn(ops, a) = m

MmUtil == package = "mm" /\ phase = "util" =>
    /\ SizesKept
    /\ total_size <= heap.brk /\ max_total_size \in 0 .. heap.brk /\ Highest(k, max_total_size)

LEMMA SizesFollow ==
    ASSUME SizesKept, ops \in Seq(Requests), Follow(ops), k \in 0 .. Len(ops) - 1,
           UNCHANGED ops, k' = k + 1,
           block_sizes' = IF ops[k + 1].type = "free" THEN block_sizes
                          ELSE [block_sizes EXCEPT ![ops[k + 1].index] = ops[k + 1].size],
           total_size' = NewTotal(ops[k + 1])
    PROVE  /\ SizesKept' /\ total_size \in Nat /\ total_size' \in Nat
           /\ ops[k + 1].type = "free" => total_size' <= total_size
           /\ ops[k + 1].type # "free" => total_size' <= total_size + ops[k + 1].size
  <1> DEFINE op == ops[k + 1]
             id == op.index
             L == LiveIn(ops, k)
             R == L \ {id}
             L1 == LiveIn(ops, k + 1)
             rest == Cardinality(Cells(R, block_sizes))
             szs == block_sizes'
  <1>1. k \in Nat /\ k + 1 \in DOMAIN ops /\ op \in Requests /\ (k + 1) - 1 = k
    OBVIOUS
  <1>2. op.type \in {"alloc", "realloc", "free"} /\ id \in Ids /\ op.size \in Nat
    BY <1>1, RequestTypes, SizesAreNat
  <1>3. op.type = "alloc" <=> id \notin L
    BY <1>1, Zenon DEF Follow
  <1>4. /\ op.type = "alloc" => L1 = L \cup {id}
        /\ op.type = "realloc" => L1 = L
        /\ op.type = "free" => L1 = L \ {id}
    BY <1>1, LiveMoves
  <1>5. L \subseteq Ids
    BY DEF LiveIn
  <1>6. /\ block_sizes \in [Ids -> Int]
        /\ \A j \in L : block_sizes[j] \in Nat /\ block_sizes[j] = SizeIn(ops, k, j)
        /\ IsFiniteSet(Cells(L, block_sizes)) /\ total_size = Cardinality(Cells(L, block_sizes))
    BY DEF SizesKept
  <1>7. \A j : /\ op.index = j => SizeIn(ops, k + 1, j) = op.size
               /\ op.index # j => SizeIn(ops, k + 1, j) = SizeIn(ops, k, j)
    BY <1>1, SizeMoves
  <1>8. szs = IF op.type = "free" THEN block_sizes ELSE [block_sizes EXCEPT ![id] = op.size]
    OBVIOUS
  <1>9. total_size' = NewTotal(op)
    OBVIOUS
  <1>10. op.type # "free" => L1 = R \cup {id}
    BY <1>2, <1>3, <1>4
  <1>11. op.type = "free" => L1 = R
    BY <1>4
  <1>12. IsFiniteSet(Cells(R, block_sizes)) /\ rest \in Nat
         /\ total_size = rest + (IF id \in L THEN block_sizes[id] ELSE 0)
    <2>1. CASE id \in L
      <3>1. block_sizes[id] \in Nat
        BY <1>6, <2>1
      <3> HIDE DEF L, id
      <3> QED BY <1>6, <2>1, <3>1, CellsLess
    <2>2. CASE id \notin L
      <3>1. R = L
        BY <2>2
      <3> HIDE DEF R, L, id
      <3> QED BY <1>6, <2>2, <3>1, FS_CardinalityType
    <2> QED BY <2>1, <2>2
  <1> HIDE DEF op, id, L, L1, R, rest, szs
  <1>13. \A j \in R : j # id /\ j \in L /\ j \in Ids
    BY <1>5 DEF R
  <1>14. \A j \in R : block_sizes[j] = szs[j]
    BY <1>6, <1>8, <1>13
  <1>15. Cells(R, szs) = Cells(R, block_sizes)
    BY <1>14, CellsSame
  <1>16. szs \in [Ids -> Int] /\ (op.type # "free" => szs[id] = op.size)
    <2>1. CASE op.type = "free"
      BY <1>6, <1>8, <2>1
    <2>2. CASE op.type # "free"
      <3>1. szs = [block_sizes EXCEPT ![id] = op.size] /\ op.size \in Int
        BY <1>2, <1>8, <2>2
      <3> QED BY <1>2, <1>6, <3>1
    <2> QED BY <2>1, <2>2
  <1>17. id \in L => block_sizes[id] \in Nat
    BY <1>6
  <1>18. /\ IsFiniteSet(Cells(L1, szs)) /\ Cardinality(Cells(L1, szs)) = total_size'
         /\ total_size' \in Nat
    <2>1. CASE op.type = "free"
      <3>1. total_size' = total_size - block_sizes[id] /\ id \in L
        BY <1>3, <1>9, <2>1 DEF NewTotal, id
      <3>2. total_size' = rest
        BY <1>12, <1>17, <3>1
      <3> QED BY <1>11, <1>12, <1>15, <2>1, <3>2 DEF rest
    <2>2. CASE op.type # "free"
      <3>1. IsFiniteSet(Cells(R, szs)) /\ id \notin R /\ szs[id] \in Nat
        BY <1>2, <1>12, <1>13, <1>15, <1>16, <2>2
      <3>2. /\ IsFiniteSet(Cells(R \cup {id}, szs))
            /\ Cardinality(Cells(R \cup {id}, szs)) = Cardinality(Cells(R, szs)) + szs[id]
        BY <3>1, CellsMore
      <3>3. total_size' = rest + op.size
        <4>1. CASE op.type = "alloc"
          <5>1. total_size' = total_size + op.size /\ id \notin L
            BY <1>3, <1>9, <4>1 DEF NewTotal
          <5> QED BY <1>2, <1>12, <5>1
        <4>2. CASE op.type = "realloc"
          <5>1. total_size' = total_size + (op.size - block_sizes[id]) /\ id \in L
            BY <1>3, <1>9, <4>2 DEF NewTotal, id
          <5> QED BY <1>2, <1>12, <1>17, <5>1
        <4> QED BY <1>2, <2>2, <4>1, <4>2
      <3>4. Cardinality(Cells(R, szs)) = rest
        BY <1>15 DEF rest
      <3>5. total_size' \in Nat /\ Cardinality(Cells(R \cup {id}, szs)) = total_size'
        BY <1>2, <1>12, <1>16, <2>2, <3>2, <3>3, <3>4
      <3> QED BY <1>10, <2>2, <3>2, <3>5
    <2> QED BY <2>1, <2>2
  <1>19. \A j \in L1 : szs[j] \in Nat /\ szs[j] = SizeIn(ops, k + 1, j)
    <2> SUFFICES ASSUME NEW j \in L1
                 PROVE  szs[j] \in Nat /\ szs[j] = SizeIn(ops, k + 1, j)
      OBVIOUS
    <2>1. CASE j = id
      <3>1. op.type # "free" /\ op.index = j
        BY <1>11, <1>13, <2>1 DEF id
      <3> QED BY <1>2, <1>7, <1>16, <2>1, <3>1
    <2>2. CASE j # id
      <3>1. j \in R
        BY <1>10, <1>11, <2>2
      <3>2. op.index # j
        BY <2>2 DEF id
      <3> QED BY <1>6, <1>7, <1>13, <1>14, <3>1, <3>2
    <2> QED BY <2>1, <2>2
  <1>20. SizesKept'
    BY <1>16, <1>18, <1>19 DEF SizesKept, L1, szs
  <1>21. total_size \in Nat
    BY <1>12, <1>17
  <1>22. /\ op.type = "free" => total_size' <= total_size
         /\ op.type # "free" => total_size' <= total_size + op.size
    <2>1. CASE op.type = "alloc"
      <3>1. total_size' = total_size + op.size
        BY <1>9, <2>1 DEF NewTotal
      <3> QED BY <1>2, <1>21, <2>1, <3>1
    <2>2. CASE op.type = "realloc"
      <3>1. total_size' = total_size + (op.size - block_sizes[id]) /\ id \in L
        BY <1>3, <1>9, <2>2 DEF NewTotal, id
      <3> QED BY <1>2, <1>17, <1>21, <2>2, <3>1
    <2>3. CASE op.type = "free"
      <3>1. total_size' = total_size - block_sizes[id] /\ id \in L
        BY <1>3, <1>9, <2>3 DEF NewTotal, id
      <3> QED BY <1>17, <1>21, <2>3, <3>1
    <2> QED BY <1>2, <2>1, <2>2, <2>3
  <1> QED BY <1>18, <1>20, <1>21, <1>22 DEF op

LEMMA GreaterOfTwo ==
    ASSUME NEW x \in Int, NEW y \in Int
    PROVE  Max({x, y}) \in {x, y} /\ x <= Max({x, y}) /\ y <= Max({x, y})
  <1>1. \E a \in {x, y} : \A b \in {x, y} : a >= b
    OBVIOUS
  <1>2. /\ Max({x, y}) \in {x, y}
        /\ \A b \in {x, y} : Max({x, y}) >= b
    BY <1>1, Zenon DEF Max
  <1> HIDE DEF Max
  <1>3. Max({x, y}) \in Int
    BY <1>2
  <1> QED BY <1>2, <1>3

\* The maximum so far with one more total.
LEMMA HighestMoves ==
    ASSUME k \in Nat, NEW m \in Nat, Highest(k, m), UsedIn(ops, k + 1) \in Nat,
           NEW m1, m1 = Max({m, UsedIn(ops, k + 1)})
    PROVE  Highest(k + 1, m1) /\ m1 \in {m, UsedIn(ops, k + 1)} /\ m1 \in Nat
  <1> DEFINE new == UsedIn(ops, k + 1)
  <1>1. m1 \in {m, new} /\ m <= m1 /\ new <= m1
    <2>1. m \in Int /\ new \in Int
      OBVIOUS
    <2> HIDE DEF new
    <2>2. /\ Max({m, new}) \in {m, new} /\ m <= Max({m, new})
          /\ new <= Max({m, new})
      BY <2>1, GreaterOfTwo
    <2> QED BY <2>2 DEF new
  <1>2. \A a \in 0 .. k : UsedIn(ops, a) \in 0 .. m
    BY DEF Highest
  <1>3. PICK a0 \in 0 .. k : UsedIn(ops, a0) = m
    BY DEF Highest
  <1>4. m1 \in Nat
    BY <1>1
  <1>5. \A a \in 0 .. k + 1 : UsedIn(ops, a) \in 0 .. m1
    <2> SUFFICES ASSUME NEW a \in 0 .. k + 1 PROVE UsedIn(ops, a) \in 0 .. m1
      OBVIOUS
    <2>1. CASE a = k + 1
      BY <1>1, <1>4, <2>1
    <2>2. CASE a \in 0 .. k
      BY <1>1, <1>2, <1>4, <2>2
    <2> QED BY <2>1, <2>2
  <1>6. \E a \in 0 .. k + 1 : UsedIn(ops, a) = m1
    <2>1. a0 \in 0 .. k + 1 /\ k + 1 \in 0 .. k + 1
      BY <1>3
    <2> QED BY <1>1, <1>3, <2>1
  <1> QED BY <1>1, <1>4, <1>5, <1>6 DEF Highest

\* Sizes that are those of the requests add up to the same.
LEMMA UsedIsTotal ==
    ASSUME NEW s, NEW m, NEW szs, \A j \in LiveIn(s, m) : szs[j] = SizeIn(s, m, j)
    PROVE  UsedIn(s, m) = Cardinality(Cells(LiveIn(s, m), szs))
  <1> DEFINE L == LiveIn(s, m)
             szs1 == [j \in Ids |-> SizeIn(s, m, j)]
  <1>1. \A j \in L : szs[j] = szs1[j]
    BY DEF LiveIn
  <1> HIDE DEF L, szs1
  <1>2. Cells(L, szs) = Cells(L, szs1)
    BY <1>1, CellsSame
  <1> QED BY <1>2 DEF UsedIn, L, szs1

LEMMA StepMmUtil ==
    ASSUME HeapIs(heap), MmRuns, MmUtil, package = "mm", Util
    PROVE  HeapIs(heap') /\ MmRuns' /\ MmUtil' /\ phase' = "util"
  <1> DEFINE op == ops[k + 1]
  <1>1. /\ phase = "util" /\ k < num_ops /\ Serve(op) /\ UNCHANGED <<package, ops, num_ops>>
        /\ block_sizes' = IF op.type = "free" THEN block_sizes
                          ELSE [block_sizes EXCEPT ![op.index] = op.size]
        /\ total_size' = NewTotal(op)
        /\ max_total_size' = Max({max_total_size, NewTotal(op)})
    BY Zenon DEF Util, replayVars
  <1>2. /\ HeapIs(heap') /\ MmRuns' /\ phase' = phase /\ k' = k + 1
        /\ op.type = "free" => heap'.brk = heap.brk
        /\ op.type # "free" => op.size + heap.brk <= heap'.brk
    <2>1. phase \in {"util", "speed"}
      BY <1>1
    <2> QED BY <1>1, <2>1, StepMmRuns
  <1>3. /\ ops \in Seq(Requests) /\ Follow(ops) /\ k \in 0 .. Len(ops) - 1 /\ k \in Nat
    <2>1. ops \in Seq(Requests) /\ Follow(ops) /\ k \in 0 .. Len(ops) /\ num_ops = Len(ops)
      BY <1>1, Zenon DEF MmRuns
    <2> QED BY <1>1, <2>1
  <1>4. SizesKept /\ total_size <= heap.brk /\ max_total_size \in 0 .. heap.brk /\ Highest(k, max_total_size)
    BY <1>1, Zenon DEF MmUtil
  <1>5. /\ SizesKept' /\ total_size \in Nat /\ total_size' \in Nat
        /\ op.type = "free" => total_size' <= total_size
        /\ op.type # "free" => total_size' <= total_size + op.size
    BY <1>1, <1>2, <1>3, <1>4, SizesFollow
  <1>6. heap.brk \in Nat /\ heap'.brk \in Nat /\ op.size \in Nat
    <2>1. op \in Requests
      BY <1>3
    <2> QED BY <1>2, <2>1, SizesAreNat DEF HeapIs
  <1>7. total_size' <= heap'.brk /\ heap.brk <= heap'.brk
    <2> HIDE DEF op
    <2>1. CASE op.type = "free"
      BY <1>2, <1>4, <1>5, <1>6, <2>1
    <2>2. CASE op.type # "free"
      BY <1>2, <1>4, <1>5, <1>6, <2>2
    <2> QED BY <2>1, <2>2
  <1>8. UsedIn(ops, k + 1) = total_size'
    <2>1. /\ \A j \in LiveIn(ops', k') : block_sizes'[j] = SizeIn(ops', k', j)
          /\ total_size' = Cardinality(Cells(LiveIn(ops', k'), block_sizes'))
      BY <1>5 DEF SizesKept
    <2>2. UsedIn(ops', k') = total_size'
      BY <2>1, UsedIsTotal
    <2> QED BY <1>1, <1>2, <2>2
  <1>9. /\ Highest(k + 1, max_total_size') /\ max_total_size' \in {max_total_size, total_size'}
        /\ max_total_size' \in Nat
    <2> DEFINE m == max_total_size
               m1 == max_total_size'
    <2>1. m1 = Max({m, UsedIn(ops, k + 1)}) /\ m \in Nat /\ UsedIn(ops, k + 1) \in Nat
      BY <1>1, <1>4, <1>5, <1>6, <1>8
    <2>2. Highest(k, m)
      BY <1>4
    <2> HIDE DEF m, m1
    <2>3. Highest(k + 1, m1) /\ m1 \in {m, UsedIn(ops, k + 1)} /\ m1 \in Nat
      BY <1>3, <2>1, <2>2, HighestMoves
    <2> QED BY <1>8, <2>3 DEF m, m1
  <1> HIDE DEF op
  <1>10. max_total_size' \in 0 .. heap'.brk
    BY <1>4, <1>5, <1>6, <1>7, <1>9
  <1>11. Highest(k, max_total_size)'
    <2>1. ops' = ops /\ k' = k + 1
      BY <1>1, <1>2
    <2> QED BY <1>9, <2>1 DEF Highest, UsedIn, LiveIn, SizeIn
  <1>12. MmUtil'
    BY <1>5, <1>7, <1>10, <1>11, Zenon DEF MmUtil
  <1> QED BY <1>1, <1>2, <1>12

\* The blocks of mm.c stay whole.
LEMMA MmValidKeeps == MallocInv /\ MmValid => PayloadsKept
  <1> SUFFICES ASSUME MallocInv, MmValid, package = "mm", phase = "valid",
                      NEW j \in Live(Done)
               PROVE  /\ \A a \in Payload(j) : heap.mem[a] = Char(j)
                      /\ heap.mem[blocks[j] - SIZE_T_SIZE] = block_sizes[j]
    BY Zenon DEF PayloadsKept
  <1>1. ops \in Seq(Requests) /\ k \in 0 .. Len(ops)
    BY Zenon DEF MallocInv, ReadInv, ValidInv
  <1>2. j \in LiveIn(ops, k)
    BY <1>1, LiveOfPrefix DEF Done
  <1>3. Whole(j)
    BY <1>2, Zenon DEF MmValid
  <1> QED BY <1>3, HeaderSize, Zenon DEF Whole

LEMMA MmUtilIsHighWater == MmRuns /\ MmUtil /\ HeapIs(heap) => UtilIsHighWater
  <1> SUFFICES ASSUME MmRuns, MmUtil, HeapIs(heap), package = "mm", phase = "util"
               PROVE  /\ total_size = InUse(Done)
                      /\ max_total_size =
                             Max({InUse(SubSeq(Done, 1, a)) : a \in 0 .. k})
                      /\ max_total_size <= heap.brk
    BY Zenon DEF UtilIsHighWater
  <1>1. ops \in Seq(Requests) /\ k \in 0 .. Len(ops) /\ heap.brk \in Nat
    BY DEF MmRuns, HeapIs
  <1>2. SizesKept /\ max_total_size \in 0 .. heap.brk /\ Highest(k, max_total_size)
    BY Zenon DEF MmUtil
  <1>3. total_size = UsedIn(ops, k)
    <2>1. /\ \A j \in LiveIn(ops, k) : block_sizes[j] = SizeIn(ops, k, j)
          /\ total_size = Cardinality(Cells(LiveIn(ops, k), block_sizes))
      BY <1>2 DEF SizesKept
    <2> QED BY <2>1, UsedIsTotal
  <1>4. total_size = InUse(Done)
    BY <1>1, <1>3, UsedOfPrefix DEF Done
  <1>5. \A a \in 0 .. k : InUse(SubSeq(Done, 1, a)) = UsedIn(ops, a)
    <2> SUFFICES ASSUME NEW a \in 0 .. k PROVE InUse(SubSeq(Done, 1, a)) = UsedIn(ops, a)
      OBVIOUS
    <2>1. SubSeq(SubSeq(ops, 1, k), 1, a) = SubSeq(ops, 1, a) /\ a \in 0 .. Len(ops)
      BY <1>1
    <2> QED BY <1>1, <2>1, UsedOfPrefix DEF Done
  <1> DEFINE U == {InUse(SubSeq(Done, 1, a)) : a \in 0 .. k}
  <1>6. U = {UsedIn(ops, a) : a \in 0 .. k}
    BY <1>5
  <1>7. max_total_size \in U /\ \A x \in U : x \in Nat /\ max_total_size >= x
    <2>1. max_total_size \in Nat /\ \A a \in 0 .. k : UsedIn(ops, a) \in 0 .. max_total_size
      BY <1>1, <1>2 DEF Highest
    <2>2. PICK a \in 0 .. k : UsedIn(ops, a) = max_total_size
      BY <1>2 DEF Highest
    <2>3. max_total_size \in U
      BY <1>6, <2>2
    <2> HIDE DEF U
    <2> QED BY <1>6, <2>1, <2>3
  <1> HIDE DEF U
  <1>8. \A x \in U : (\A y \in U : x >= y) => x = max_total_size
    BY <1>2, <1>7
  <1>9. Max(U) = max_total_size
    <2>1. \E x \in U : \A y \in U : x >= y
      BY <1>7, Zenon
    <2>2. Max(U) \in U /\ \A y \in U : Max(U) >= y
      BY <2>1, Zenon DEF Max
    <2> QED BY <1>8, <2>2, Zenon
  <1> QED BY <1>2, <1>4, <1>9, <1>1 DEF U

\* Adding up numbers of which none is greater than b.
Adds(f, u, m) ==
    f = [a \in 0 .. m |-> IF a = 0 THEN 0 ELSE f[a - 1] + u[a]]

LEMMA SumsExist ==
    ASSUME NEW u, NEW m \in Nat
    PROVE  \E f : Adds(f, u, m)
  <1> DEFINE Bad == {a \in Nat : ~\E f : Adds(f, u, a)}
  <1> SUFFICES Bad = {}
    OBVIOUS
  <1> SUFFICES ASSUME Bad # {} PROVE FALSE
    OBVIOUS
  <1>1. PICK a \in Bad : \A b1 \in Bad : a <= b1
    <2>1. Bad \subseteq Nat
      OBVIOUS
    <2> HIDE DEF Bad
    <2> QED BY <2>1, LeastExists
  <1>2. a # 0
    <2> DEFINE f0 == [q \in 0 .. 0 |-> 0]
    <2>1. Adds(f0, u, 0)
      BY DEF Adds
    <2> QED BY <2>1
  <1>3. a - 1 \in Nat /\ a - 1 \notin Bad
    BY <1>1, <1>2
  <1>4. PICK f : Adds(f, u, a - 1)
    BY <1>3
  <1> DEFINE f1 == [q \in 0 .. a |-> IF q = a THEN f[a - 1] + u[a] ELSE f[q]]
  <1>5. Adds(f1, u, a)
    <2>1. \A q \in 0 .. a - 1 : f[q] = IF q = 0 THEN 0 ELSE f[q - 1] + u[q]
      BY <1>4 DEF Adds
    <2>2. \A q \in 0 .. a : f1[q] = IF q = 0 THEN 0 ELSE f1[q - 1] + u[q]
      BY <1>2, <1>3, <2>1
    <2>3. DOMAIN f1 = 0 .. a /\ f1 = [q \in 0 .. a |-> f1[q]]
      OBVIOUS
    <2> HIDE DEF f1
    <2> QED BY <2>2, <2>3 DEF Adds
  <1> QED BY <1>1, <1>5

LEMMA SumBounds ==
    ASSUME NEW b \in Nat, NEW u \in Seq(0 .. b)
    PROVE  SumOf(u) \in 0 .. b * Len(u)
  <1> DEFINE f == CHOOSE f : Adds(f, u, Len(u))
             Bad == {a \in 0 .. Len(u) : ~(f[a] \in Nat /\ b * a \in Nat /\ f[a] <= b * a)}
  <1>1. Len(u) \in Nat /\ \A a \in 1 .. Len(u) : u[a] \in 0 .. b
    OBVIOUS
  <1>2. Adds(f, u, Len(u))
    <2>1. \E f1 : Adds(f1, u, Len(u))
      BY <1>1, SumsExist
    <2> QED BY <2>1, Zenon
  <1>3. SumOf(u) = f[Len(u)]
    BY Zenon DEF SumOf, Adds
  <1> HIDE DEF f
  <1>4. f[0] = 0 /\ \A a \in 1 .. Len(u) : f[a] = f[a - 1] + u[a]
    <2>1. \A a \in 0 .. Len(u) : f[a] = IF a = 0 THEN 0 ELSE f[a - 1] + u[a]
      BY <1>2 DEF Adds
    <2>2. \A a \in 1 .. Len(u) : a \in 0 .. Len(u) /\ a # 0
      BY <1>1
    <2>3. 0 \in 0 .. Len(u)
      BY <1>1
    <2> QED BY <2>1, <2>2, <2>3
  <1>5. Bad = {}
    <2> SUFFICES ASSUME Bad # {} PROVE FALSE
      OBVIOUS
    <2>1. PICK a \in Bad : \A b1 \in Bad : a <= b1
      <3>1. Bad \subseteq Nat
        BY <1>1
      <3> HIDE DEF Bad
      <3> QED BY <3>1, LeastExists
    <2>2. a \in 1 .. Len(u)
      <3>1. b * 0 = 0
        OBVIOUS
      <3> QED BY <1>1, <1>4, <2>1, <3>1
    <2>3. a - 1 \in 0 .. Len(u) /\ a - 1 \notin Bad
      BY <1>1, <2>1, <2>2
    <2>4. f[a - 1] \in Nat /\ b * (a - 1) \in Nat /\ f[a - 1] <= b * (a - 1)
      BY <2>3
    <2>5. b * a = b * (a - 1) + b
      BY <2>2
    <2>6. f[a] = f[a - 1] + u[a] /\ u[a] \in 0 .. b
      BY <1>1, <1>4, <2>2
    <2>7. f[a] \in Nat /\ b * a \in Nat /\ f[a] <= b * a
      BY <2>4, <2>5, <2>6
    <2> QED BY <2>1, <2>7
  <1> QED BY <1>1, <1>3, <1>5

-----------------------------------------------------------------------------
(* What the driver scores                                                   *)

\* Where the driver can be with each allocator.
PassInv ==
    /\ phase \in {"read", "valid", "util", "speed", "libc_valid", "libc_speed", "next", "invalid",
               "app_error", "assertion_failed", "results", "exit"}
    /\ package = "libc" => phase \notin {"valid", "util", "speed", "invalid", "results", "exit"}
    /\ package # "libc" => phase \notin {"libc_valid", "libc_speed", "app_error"}
    /\ package = "any" => phase \notin {"util", "speed", "next"}

Results == [valid : BOOLEAN, hwm : Nat, heapsize : Nat]
AllValid == \A a \in DOMAIN stats : stats[a].valid

\* The results so far: one of each trace that was valid or not, none of them of the library's
\* allocator; an error for each that was not.
StatsInv ==
    /\ num_ops \in Nat \ {0} /\ traces \in Nat /\ errors \in Nat
    /\ stats \in Seq(Results)
    /\ \A a \in DOMAIN stats : stats[a].valid => stats[a].hwm <= stats[a].heapsize /\ stats[a].heapsize > 0
    /\ errors = 0 => AllValid
    /\ errors > 0 => phase = "invalid" \/ ~AllValid
    /\ phase = "invalid" => errors > 0
    /\ phase # "read" => traces > 0
    /\ package = "libc" => stats = <<>> /\ errors = 0
    /\ package # "libc" =>
          /\ phase \in {"read", "speed", "next", "results", "exit"} => Len(stats) = traces
          /\ phase \in {"valid", "util", "invalid"} => Len(stats) + 1 = traces

\* The points are out of 100.
PointsInv == phase = "exit" => IF AllValid THEN perfindex \in 0 .. 100 ELSE perfindex = 0

HeapInv == package # "any" => HeapIs(heap)

RunInv == HeapInv /\ MmValid /\ MmInvalid /\ MmRuns /\ MmUtil
ScoreInv == MallocInv /\ PassInv /\ RunInv /\ StatsInv /\ PointsInv

LEMMA InitScoreInv == MdriverInit => ScoreInv
  <1> SUFFICES ASSUME MdriverInit PROVE ScoreInv
    OBVIOUS
  <1>1. MallocInv
    BY InitMallocInv
  <1>2. /\ package \in {"libc", "mm", "any"} /\ phase = "read" /\ num_ops \in 1 .. MaxOps /\ traces = 0
        /\ heap = mem_init /\ errors = 0 /\ stats = <<>>
    BY DEF MdriverInit
  <1>3. HeapIs(mem_init)
    <2>1. MAX_HEAP \in Nat
      BY IntIsWide
    <2> DEFINE cells == [a \in 0 .. MAX_HEAP - 1 |-> CharMod]
    <2>2. mem_init = [brk |-> 0, mem |-> cells]
      BY DEF mem_init
    <2>3. cells = [a \in 0 .. MAX_HEAP - 1 |-> cells[a]]
      OBVIOUS
    <2> HIDE DEF cells
    <2> QED BY <2>1, <2>2, <2>3 DEF HeapIs
  <1>4. RunInv
    BY <1>2, <1>3 DEF RunInv, HeapInv, MmValid, MmInvalid, MmRuns, MmUtil
  <1>5. StatsInv
    BY <1>2, HeapOK DEF StatsInv, AllValid
  <1> QED BY <1>1, <1>2, <1>4, <1>5 DEF ScoreInv, PassInv, PointsInv

\* An empty heap, as each pass starts with.
LEMMA HeapReset ==
    ASSUME HeapIs(heap)
    PROVE  HeapIs(mem_reset_brk(heap)) /\ mem_reset_brk(heap).brk = 0
  <1>1. /\ heap = [brk |-> heap.brk, mem |-> heap.mem] /\ MAX_HEAP \in Nat
        /\ heap.mem = [a \in 0 .. MAX_HEAP - 1 |-> heap.mem[a]]
    BY IntIsWide DEF HeapIs
  <1>2. mem_reset_brk(heap) = [brk |-> 0, mem |-> heap.mem]
    BY <1>1 DEF mem_reset_brk
  <1> QED BY <1>1, <1>2 DEF HeapIs

LEMMA ScoreReadLine ==
    ASSUME ScoreInv, NEW op \in Requests, ReadLine(op)
    PROVE  ScoreInv'
  <1>1. phase = "read" /\ UNCHANGED <<package, num_ops, traces, stats, perfindex, phase, heap, errors>>
    BY DEF ReadLine, replayVars
  <1>2. MallocInv'
    BY StepReadLine DEF ScoreInv
  <1>3. RunInv'
    BY <1>1 DEF ScoreInv, RunInv, HeapInv, HeapIs, MmValid, MmInvalid, MmRuns, MmUtil
  <1>4. StatsInv' /\ PassInv' /\ PointsInv'
    BY <1>1 DEF ScoreInv, PassInv, StatsInv, PointsInv, AllValid
  <1> QED BY <1>2, <1>3, <1>4 DEF ScoreInv

LEMMA ScoreEndTrace ==
    ASSUME ScoreInv, EndTrace
    PROVE  ScoreInv'
  <1>1. /\ phase = "read" /\ k' = 0 /\ heap' = mem_reset_brk(heap) /\ traces' = traces + 1
        /\ UNCHANGED <<package, num_ops, ops, errors, stats, perfindex>>
        /\ phase' \in {"assertion_failed", "libc_valid", "valid"}
        /\ phase' = "libc_valid" => package = "libc"
        /\ phase' = "valid" => package # "libc"
    BY DEF EndTrace
  <1>2. MallocInv'
    BY StepEndTrace DEF ScoreInv
  <1>3. package # "any" => HeapIs(heap') /\ heap'.brk = 0
    BY <1>1, HeapReset DEF ScoreInv, RunInv, HeapInv
  <1>4. package = "mm" /\ phase' = "valid" => (\E g : Grown(g, k) /\ g[k] = heap.brk)'
    <2> DEFINE f == [a \in 0 .. 0 |-> 0]
    <2>1. Grown(f, 0) /\ f[0] = 0
      BY IntIsWide DEF Grown
    <2> HIDE DEF f
    <2>2. \E f1 : Grown(f1, 0) /\ f1[0] = 0
      BY <2>1
    <2> QED BY <1>1, <1>3, <2>2, Zenon DEF Grown
  <1>5. package = "mm" => HeapAligned'
    <2>1. package = "mm" => heap'.brk = ALIGNMENT * 0
      BY <1>3, HeapOK
    <2> QED BY <2>1 DEF HeapAligned
  <1>6. LiveIn(ops', k') = {}
    BY <1>1 DEF LiveIn
  <1>7. MmValid'
    <2>1. \A a \in 1 .. k' : ~Misread(ops'[a])
      BY <1>1
    <2> QED BY <1>1, <1>4, <1>5, <1>6, <2>1, Zenon DEF MmValid
  <1>8. RunInv'
    <2>1. HeapInv'
      BY <1>1, <1>3 DEF HeapInv
    <2> QED BY <1>1, <1>7, <2>1 DEF RunInv, MmInvalid, MmRuns, MmUtil
  <1>9. StatsInv' /\ PassInv' /\ PointsInv'
    BY <1>1 DEF ScoreInv, PassInv, StatsInv, PointsInv, AllValid
  <1> QED BY <1>2, <1>8, <1>9 DEF ScoreInv

LEMMA ValidOutcomes ==
    ASSUME Valid
    PROVE  /\ phase = "valid" /\ UNCHANGED <<package, num_ops, traces, stats, perfindex, ops>>
           /\ \/ phase' = "invalid" /\ errors' = errors + 1
              \/ phase' \in {"valid", "assertion_failed"} /\ errors' = errors
  <1>1. /\ phase = "valid" /\ UNCHANGED <<package, num_ops, traces, stats, perfindex, ops>>
        /\ ValidAlloc(ops[k + 1]) \/ ValidRealloc(ops[k + 1]) \/ ValidFree(ops[k + 1])
    BY DEF Valid, replayVars
  <1>2. ASSUME NEW list, NEW id, NEW r, NEW size, NEW kept, Take(list, id, r, size, kept)
        PROVE  \/ phase' = "invalid" /\ errors' = errors + 1
               \/ phase' \in {phase, "assertion_failed"} /\ errors' = errors
    BY <1>2 DEF Take, Fault
  <1>3. CASE ValidAlloc(ops[k + 1])
    BY <1>1, <1>2, <1>3 DEF ValidAlloc
  <1>4. CASE ValidRealloc(ops[k + 1])
    <2>1. PICK list, id, r, size, kept : Take(list, id, r, size, kept)
      BY <1>4, Zenon DEF ValidRealloc
    <2> QED BY <1>1, <1>2, <2>1
  <1>5. CASE ValidFree(ops[k + 1])
    BY <1>1, <1>5 DEF ValidFree
  <1> QED BY <1>1, <1>3, <1>4, <1>5

LEMMA ScoreValid ==
    ASSUME ScoreInv, Valid
    PROVE  ScoreInv'
  <1>1. /\ phase = "valid" /\ UNCHANGED <<package, num_ops, traces, stats, perfindex, ops>>
        /\ \/ phase' = "invalid" /\ errors' = errors + 1
           \/ phase' \in {"valid", "assertion_failed"} /\ errors' = errors
    BY ValidOutcomes
  <1>2. MallocInv'
    BY StepValid DEF ScoreInv
  <1>3. StatsInv' /\ PassInv' /\ PointsInv'
    BY <1>1 DEF ScoreInv, PassInv, StatsInv, PointsInv, AllValid
  <1>4. package \in {"mm", "any"}
    BY <1>1 DEF ScoreInv, PassInv, MallocInv
  <1>5. CASE package = "any"
    BY <1>1, <1>2, <1>3, <1>5 DEF ScoreInv, RunInv, HeapInv, MmValid, MmInvalid, MmRuns, MmUtil
  <1>6. CASE package = "mm"
    <2>1. HeapIs(heap') /\ MmValid' /\ MmInvalid'
      BY <1>6, StepMmValid DEF ScoreInv, RunInv, HeapInv
    <2>2. RunInv'
      BY <1>1, <2>1 DEF RunInv, HeapInv, MmRuns, MmUtil
    <2> QED BY <1>2, <1>3, <2>2 DEF ScoreInv
  <1> QED BY <1>4, <1>5, <1>6

LEMMA ScoreUtil ==
    ASSUME ScoreInv, Util
    PROVE  ScoreInv'
  <1>1. phase = "util" /\ UNCHANGED <<package, num_ops, traces, stats, perfindex, ops, errors>>
    BY DEF Util, replayVars
  <1>2. package = "mm"
    BY <1>1 DEF ScoreInv, PassInv, MallocInv
  <1>3. HeapIs(heap') /\ MmRuns' /\ MmUtil' /\ phase' = "util"
    BY <1>2, StepMmUtil DEF ScoreInv, RunInv, HeapInv
  <1>4. MallocInv'
    BY StepServed DEF ScoreInv
  <1>5. RunInv'
    BY <1>3 DEF RunInv, HeapInv, MmValid, MmInvalid
  <1>6. StatsInv' /\ PassInv' /\ PointsInv'
    BY <1>1, <1>3 DEF ScoreInv, PassInv, StatsInv, PointsInv, AllValid
  <1> QED BY <1>4, <1>5, <1>6 DEF ScoreInv

\* The library's allocator leaves the heap alone.
LEMMA LibcServes ==
    ASSUME package = "libc", NEW op, Serve(op)
    PROVE  heap' = heap /\ phase' \in {phase, "app_error"}
  <1>1. CASE op.type = "free"
    BY <1>1 DEF Serve
  <1>2. CASE op.type # "free"
    <2>1. PICK r \in IF op.type = "alloc" THEN Malloc(op.size)
                     ELSE Realloc(blocks[op.index], op.size) :
              /\ heap' = r.heap
              /\ IF r.p = NULL THEN app_error /\ UNCHANGED k ELSE k' = k + 1 /\ UNCHANGED phase
      BY <1>2, Zenon DEF Serve
    <2>2. /\ Malloc(op.size) = LibcMalloc(heap)
          /\ Realloc(blocks[op.index], op.size) = LibcMalloc(heap)
      BY DEF Malloc, Realloc
    <2>3. r.heap = heap
      BY <2>1, <2>2 DEF LibcMalloc
    <2> QED BY <2>1, <2>3 DEF app_error
  <1> QED BY <1>1, <1>2

LEMMA ScoreSpeed ==
    ASSUME ScoreInv, Speed
    PROVE  ScoreInv'
  <1>1. /\ phase \in {"speed", "libc_valid", "libc_speed"} /\ k < num_ops /\ Serve(ops[k + 1])
        /\ UNCHANGED <<package, num_ops, traces, stats, perfindex, ops, errors>>
    BY DEF Speed, replayVars
  <1>2. MallocInv'
    BY StepServed DEF ScoreInv
  <1>3. CASE package = "libc"
    <2>1. heap' = heap /\ phase' \in {phase, "app_error"}
      BY <1>1, <1>3, LibcServes
    <2>2. RunInv'
      BY <1>1, <1>3, <2>1 DEF ScoreInv, RunInv, HeapInv, HeapIs, MmValid, MmInvalid, MmRuns, MmUtil
    <2>3. StatsInv' /\ PassInv' /\ PointsInv'
      BY <1>1, <1>3, <2>1 DEF ScoreInv, PassInv, StatsInv, PointsInv, AllValid
    <2> QED BY <1>2, <2>2, <2>3 DEF ScoreInv
  <1>4. CASE package # "libc"
    <2>1. phase = "speed" /\ package = "mm"
      BY <1>1, <1>4 DEF ScoreInv, PassInv, MallocInv
    <2>2. HeapIs(heap') /\ MmRuns' /\ phase' = phase
      <3>1. HeapIs(heap) /\ MmRuns /\ phase \in {"util", "speed"}
        BY <2>1 DEF ScoreInv, RunInv, HeapInv
      <3> QED BY <1>1, <2>1, <3>1, StepMmRuns
    <2>3. RunInv'
      BY <2>1, <2>2 DEF RunInv, HeapInv, MmValid, MmInvalid, MmUtil
    <2>4. StatsInv' /\ PassInv' /\ PointsInv'
      BY <1>1, <2>1, <2>2 DEF ScoreInv, PassInv, StatsInv, PointsInv, AllValid
    <2> QED BY <1>2, <2>3, <2>4 DEF ScoreInv
  <1> QED BY <1>3, <1>4

\* The next pass over the trace starts with an empty heap that grows as before.
LEMMA NextPassRuns ==
    ASSUME ScoreInv, package = "mm", phase \in {"valid", "util", "speed"}, k = num_ops,
           package' = package, ops' = ops, num_ops' = num_ops, k' = 0, heap'.brk = 0
    PROVE  MmRuns'
  <1>1. /\ ops \in Seq(Requests) /\ Follow(ops) /\ num_ops = Len(ops)
        /\ \E g : Grown(g, Len(ops))
    <2>1. CASE phase = "valid"
      <3>1. ops \in Seq(Requests) /\ Follow(ops) /\ num_ops = Len(ops)
        BY <2>1, Zenon DEF ScoreInv, MallocInv, ReadInv, ValidInv
      <3>2. \E g : Grown(g, k)
        BY <2>1, Zenon DEF ScoreInv, RunInv, MmValid
      <3> QED BY <3>1, <3>2
    <2>2. CASE phase # "valid"
      <3>1. phase \in {"util", "speed"}
        BY <2>2
      <3> QED BY <3>1, Zenon DEF ScoreInv, RunInv, MmRuns
    <2> QED BY <2>1, <2>2
  <1>2. PICK g : Grown(g, Len(ops))
    BY <1>1
  <1>3. g[0] = heap'.brk
    BY <1>2 DEF Grown
  <1>4. (\E g1 : Grown(g1, Len(ops)) /\ g1[k] = heap.brk)'
    BY <1>2, <1>3, Zenon DEF Grown
  <1>5. /\ ops' \in Seq(Requests) /\ Follow(ops') /\ k' \in 0 .. Len(ops') /\ num_ops' = Len(ops')
        /\ ~(k' > 0)
    BY <1>1
  <1> QED BY <1>4, <1>5, Zenon DEF MmRuns

LEMMA ScoreEndPass ==
    ASSUME ScoreInv, EndPass
    PROVE  ScoreInv'
  <1>1. /\ phase \in {"libc_valid", "libc_speed", "valid", "util", "speed"} /\ k = num_ops /\ package # "any"
        /\ phase' \in After /\ k' = 0 /\ heap' = mem_reset_brk(heap)
        /\ total_size' = 0 /\ max_total_size' = 0
        /\ stats' = IF phase = "util"
                    THEN Append(stats, Stats(TRUE, max_total_size, mem_heapsize(heap)))
                    ELSE stats
        /\ UNCHANGED <<package, num_ops, traces, ops, blocks, block_sizes, errors, perfindex>>
    BY DEF EndPass
  <1>2. MallocInv'
    BY StepEndPass DEF ScoreInv
  <1>3. /\ phase = "valid" => phase' = "util"
        /\ phase = "util" => phase' = "speed"
        /\ phase = "libc_valid" => phase' = "libc_speed"
        /\ phase \in {"speed", "libc_speed"} => phase' \in {phase, "next"}
    <2>1. /\ phase = "valid" => After = {"util"}
          /\ phase = "util" => After = {"speed"}
          /\ phase = "libc_valid" => After = {"libc_speed"}
          /\ phase \in {"speed", "libc_speed"} => After = {phase, "next"}
      BY DEF After
    <2> QED BY <1>1, <2>1
  <1>4. HeapIs(heap') /\ heap'.brk = 0
    BY <1>1, HeapReset DEF ScoreInv, RunInv, HeapInv
  <1>5. MmRuns'
    <2>1. CASE package = "mm"
      <3>1. phase \in {"valid", "util", "speed"}
        BY <1>1, <2>1 DEF ScoreInv, PassInv
      <3> QED BY <1>1, <1>4, <2>1, <3>1, NextPassRuns
    <2>2. CASE package # "mm"
      BY <1>1, <2>2 DEF MmRuns
    <2> QED BY <2>1, <2>2
  <1>6. MmUtil'
    <2>1. CASE package = "mm" /\ phase = "valid"
      <3>1. LiveIn(ops', k') = {}
        BY <1>1 DEF LiveIn
      <3>2. Cells({}, block_sizes') = {}
        BY DEF Cells
      <3>3. IsFiniteSet({}) /\ Cardinality({}) = 0
        BY FS_EmptySet
      <3>4. block_sizes' \in [Ids -> Int]
        BY <1>1, <2>1, Zenon DEF ScoreInv, MallocInv, ReadInv
      <3>5. SizesKept'
        BY <1>1, <3>1, <3>2, <3>3, <3>4 DEF SizesKept
      <3>6. UsedIn(ops', 0) = 0
        <4>1. LiveIn(ops', 0) = {} /\ \A szs : Cells({}, szs) = {}
          BY DEF LiveIn, Cells
        <4> QED BY <3>3, <4>1, Zenon DEF UsedIn
      <3>7. Highest(k, max_total_size)'
        BY <1>1, <3>6 DEF Highest, UsedIn, LiveIn, SizeIn
      <3>8. total_size' <= heap'.brk /\ max_total_size' \in 0 .. heap'.brk
        BY <1>1, <1>4
      <3> QED BY <3>5, <3>7, <3>8, Zenon DEF MmUtil
    <2>2. CASE ~(package = "mm" /\ phase = "valid")
      <3>1. ~(package' = "mm" /\ phase' = "util")
        BY <1>1, <1>3, <2>2
      <3> QED BY <3>1, Zenon DEF MmUtil
    <2> QED BY <2>1, <2>2
  <1>7. RunInv'
    <2>1. phase' \notin {"valid", "invalid"}
      BY <1>1, <1>3
    <2> QED BY <1>4, <1>5, <1>6, <2>1 DEF RunInv, HeapInv, MmValid, MmInvalid
  <1>8. PassInv' /\ PointsInv'
    BY <1>1, <1>3 DEF ScoreInv, PassInv, PointsInv
  <1>9. StatsInv'
    <2>1. CASE phase # "util"
      BY <1>1, <1>3, <2>1 DEF ScoreInv, PassInv, StatsInv, AllValid
    <2>2. CASE phase = "util"
      <3> DEFINE new == Stats(TRUE, max_total_size, heap.brk)
      <3>1. stats' = Append(stats, new) /\ package = "mm" /\ phase' = "speed"
        BY <1>1, <1>3, <2>2 DEF ScoreInv, PassInv, MallocInv, mem_heapsize
      <3>2. heap.brk \in Nat \ {0} /\ max_total_size \in 0 .. heap.brk
        <4>1. k > 0
          BY <1>1 DEF ScoreInv, StatsInv
        <4>2. heap.brk > 0 /\ max_total_size \in 0 .. heap.brk
          BY <2>2, <3>1, <4>1 DEF ScoreInv, RunInv, MmRuns, MmUtil
        <4> QED BY <3>1, <4>2 DEF ScoreInv, RunInv, HeapInv, HeapIs
      <3>3. new \in Results /\ new.valid /\ new.hwm <= new.heapsize /\ new.heapsize > 0
        BY <3>2 DEF Stats, Results
      <3> HIDE DEF new
      <3>4. /\ stats \in Seq(Results)
            /\ \A a \in DOMAIN stats : stats[a].valid => stats[a].hwm <= stats[a].heapsize /\ stats[a].heapsize > 0
            /\ errors = 0 => AllValid
            /\ errors > 0 => ~AllValid
            /\ Len(stats) + 1 = traces
        BY <2>2, <3>1 DEF ScoreInv, StatsInv
      <3>5. /\ stats' \in Seq(Results) /\ Len(stats') = Len(stats) + 1
            /\ \A a \in DOMAIN stats' : stats'[a] = IF a \in DOMAIN stats THEN stats[a] ELSE new
            /\ DOMAIN stats \subseteq DOMAIN stats'
        BY <3>1, <3>3, <3>4
      <3>6. AllValid' <=> AllValid
        BY <3>3, <3>5 DEF AllValid
      <3>7. \A a \in DOMAIN stats' : stats'[a].valid =>
                stats'[a].hwm <= stats'[a].heapsize /\ stats'[a].heapsize > 0
        BY <3>3, <3>4, <3>5
      <3>8. num_ops' \in Nat \ {0} /\ traces' \in Nat /\ errors' \in Nat /\ traces' > 0 /\ errors' = errors
        BY <1>1, <2>2 DEF ScoreInv, StatsInv
      <3>9. Len(stats') = traces' /\ package' = "mm"
        BY <1>1, <3>1, <3>4, <3>5
      <3> QED BY <3>1, <3>4, <3>5, <3>6, <3>7, <3>8, <3>9 DEF StatsInv
    <2> QED BY <2>1, <2>2
  <1> QED BY <1>2, <1>7, <1>8, <1>9 DEF ScoreInv

LEMMA ScoreNextTrace ==
    ASSUME ScoreInv, NextTrace
    PROVE  ScoreInv'
  <1>1. /\ phase \in {"next", "invalid"}
        /\ stats' = IF phase = "next" THEN stats ELSE Append(stats, Stats(FALSE, 0, 0))
        /\ phase' = IF traces = MaxTraces /\ package # "libc" THEN "results" ELSE "read"
        /\ package' = IF traces = MaxTraces /\ package = "libc" THEN "mm" ELSE package
        /\ traces' = IF traces = MaxTraces /\ package = "libc" THEN 0 ELSE traces
        /\ num_ops' \in 1 .. Max({1, MaxOps - num_ops})
        /\ UNCHANGED <<heap, errors, perfindex>>
    BY DEF NextTrace
  <1>2. MallocInv'
    BY StepNextTrace DEF ScoreInv
  <1>3. num_ops' \in Nat \ {0}
    <2>1. MaxOps \in Nat /\ num_ops \in Nat
      BY HeapOK DEF ScoreInv, StatsInv
    <2> DEFINE rest == MaxOps - num_ops
    <2>2. rest \in Int /\ 1 \in Int
      BY <2>1
    <2> HIDE DEF rest
    <2>3. Max({1, rest}) \in {1, rest}
      BY <2>2, GreaterOfTwo
    <2>4. Max({1, rest}) \in Int
      BY <2>2, <2>3
    <2>5. num_ops' \in 1 .. Max({1, rest})
      BY <1>1 DEF rest
    <2> HIDE DEF Max
    <2> QED BY <2>4, <2>5
  <1>4. package \in {"libc", "mm", "any"} /\ (phase = "invalid" => package # "libc") /\ (package = "any" => phase # "next")
    BY DEF ScoreInv, PassInv, MallocInv
  <1>5. PassInv'
    BY <1>1, <1>4 DEF PassInv
  <1>6. RunInv'
    <2>1. HeapInv'
      BY <1>1, <1>4 DEF ScoreInv, RunInv, HeapInv, HeapIs
    <2>2. phase' \notin {"valid", "invalid", "util", "speed"}
      BY <1>1
    <2> QED BY <2>1, <2>2, Zenon DEF RunInv, MmValid, MmInvalid, MmRuns, MmUtil
  <1>7. StatsInv'
    <2>1. /\ stats \in Seq(Results) /\ traces \in Nat /\ errors \in Nat /\ traces > 0
          /\ \A a \in DOMAIN stats : stats[a].valid => stats[a].hwm <= stats[a].heapsize /\ stats[a].heapsize > 0
          /\ errors = 0 => AllValid
          /\ phase = "invalid" => errors > 0
          /\ phase = "next" /\ errors > 0 => ~AllValid
          /\ package = "libc" => stats = <<>> /\ errors = 0
          /\ package # "libc" /\ phase = "next" => Len(stats) = traces
          /\ package # "libc" /\ phase = "invalid" => Len(stats) + 1 = traces
      BY <1>1 DEF ScoreInv, StatsInv
    <2>2. CASE phase = "next"
      <3>1. stats' = stats /\ (AllValid' <=> AllValid)
        BY <1>1, <2>2 DEF AllValid
      <3>2. package = "libc" => Len(stats) = 0
        BY <2>1
      <3> QED BY <1>1, <1>3, <1>4, <2>1, <2>2, <3>1, <3>2 DEF StatsInv
    <2>3. CASE phase = "invalid"
      <3> DEFINE new == Stats(FALSE, 0, 0)
      <3>1. stats' = Append(stats, new) /\ package # "libc" /\ package' = package /\ traces' = traces
        BY <1>1, <1>4, <2>3
      <3>2. new \in Results /\ ~new.valid
        BY DEF Stats, Results
      <3> HIDE DEF new
      <3>3. /\ stats' \in Seq(Results) /\ Len(stats') = Len(stats) + 1 /\ Len(stats') \in DOMAIN stats'
            /\ \A a \in DOMAIN stats' : stats'[a] = IF a \in DOMAIN stats THEN stats[a] ELSE new
            /\ Len(stats') \notin DOMAIN stats
        BY <2>1, <3>1, <3>2
      <3>4. ~AllValid'
        BY <3>2, <3>3 DEF AllValid
      <3>5. \A a \in DOMAIN stats' : stats'[a].valid =>
                stats'[a].hwm <= stats'[a].heapsize /\ stats'[a].heapsize > 0
        BY <2>1, <3>2, <3>3
      <3>6. Len(stats') = traces' /\ phase' \in {"read", "results"} /\ errors' = errors
        BY <1>1, <2>1, <2>3, <3>1, <3>3
      <3> QED BY <1>3, <2>1, <2>3, <3>1, <3>3, <3>4, <3>5, <3>6 DEF StatsInv
    <2> QED BY <1>1, <2>2, <2>3
  <1>8. PointsInv'
    BY <1>1 DEF PointsInv
  <1> QED BY <1>2, <1>5, <1>6, <1>7, <1>8 DEF ScoreInv

\* No trace's utilisation is above 100 percent, and the points for it and for throughput are at
\* most 60 and 40.
LEMMA PointsAre ==
    ASSUME StatsInv, stats # <<>>, AllValid, NEW thru \in {0, 150}
    PROVE  (60 * SumOf(Utils)) \div (100 * Len(stats))
               + (40 * Min({thru, 100})) \div 100 \in 0 .. 100
  <1> DEFINE m == Len(stats)
             sum == SumOf(Utils)
             t == Min({thru, 100})
  <1>1. stats \in Seq(Results) /\ m \in Nat \ {0} /\ DOMAIN stats = 1 .. m
    BY DEF StatsInv
  <1>2. \A a \in 1 .. m : Utils[a] \in 0 .. 100
    <2> SUFFICES ASSUME NEW a \in 1 .. m PROVE Utils[a] \in 0 .. 100
      OBVIOUS
    <2>1. /\ stats[a] \in Results /\ stats[a].valid /\ stats[a].hwm <= stats[a].heapsize
          /\ stats[a].heapsize > 0
      <3>1. \A a1 \in DOMAIN stats : stats[a1].valid
        BY Zenon DEF AllValid
      <3>2. \A a1 \in DOMAIN stats : stats[a1].hwm <= stats[a1].heapsize /\ stats[a1].heapsize > 0
        <4>1. \A a1 \in DOMAIN stats : stats[a1].valid =>
                  stats[a1].hwm <= stats[a1].heapsize /\ stats[a1].heapsize > 0
          BY Zenon DEF StatsInv
        <4> QED BY <3>1, <4>1
      <3>3. a \in DOMAIN stats /\ stats[a] \in Results
        BY <1>1
      <3>4. stats[a].valid
        BY <3>1, <3>3
      <3>5. stats[a].hwm <= stats[a].heapsize /\ stats[a].heapsize > 0
        BY <3>2, <3>3
      <3> QED BY <3>3, <3>4, <3>5, Zenon
    <2> DEFINE x == stats[a].hwm
               d == stats[a].heapsize
    <2>2. x \in Nat /\ d \in Nat \ {0} /\ x <= d
      BY <2>1 DEF Results
    <2>3. Utils[a] = (100 * x) \div d
      BY <1>1, <2>1 DEF Utils
    <2> HIDE DEF x, d
    <2>4. 100 * x \in Nat /\ 100 * x <= 100 * d
      BY <2>2
    <2>5. (100 * x) \div d \in 0 .. 100
      BY <2>2, <2>4, QuotientBounds
    <2> QED BY <2>3, <2>5
  <1>3. Utils \in Seq(0 .. 100) /\ Len(Utils) = m
    <2>1. DOMAIN Utils = 1 .. m /\ Utils = [a \in 1 .. m |-> Utils[a]]
      BY <1>1 DEF Utils
    <2> HIDE DEF m
    <2>2. Utils \in [1 .. m -> 0 .. 100]
      BY <1>2, <2>1
    <2>3. m \in Nat
      BY <1>1
    <2> QED BY <2>1, <2>2, <2>3
  <1>4. sum \in 0 .. 100 * m
    <2> DEFINE b == 100
               u == Utils
    <2>1. b \in Nat /\ u \in Seq(0 .. b)
      BY <1>3
    <2> HIDE DEF b, u
    <2>2. SumOf(u) \in 0 .. b * Len(u)
      BY <2>1, SumBounds
    <2> QED BY <1>3, <2>2 DEF b, u
  <1> HIDE DEF m, sum
  <1>5. (60 * sum) \div (100 * m) \in 0 .. 60
    <2> DEFINE x == 60 * sum
               d == 100 * m
               b == 60
    <2>1. x \in Nat /\ d \in Nat \ {0} /\ b \in Nat /\ x <= b * d
      BY <1>1, <1>4
    <2> HIDE DEF x, d, b
    <2>2. x \div d \in 0 .. b
      BY <2>1, QuotientBounds
    <2> QED BY <2>2 DEF x, d, b
  <1>6. t \in {thru, 100} /\ t \in 0 .. 100
    <2> DEFINE b == 100
    <2>1. thru \in Int /\ b \in Int /\ thru >= 0
      OBVIOUS
    <2> HIDE DEF t, b
    <2>2. Min({thru, b}) \in {thru, b} /\ Min({thru, b}) <= b
      BY <2>1, LessOfTwo
    <2>3. t = Min({thru, b})
      BY DEF t, b
    <2>4. t \in {thru, b} /\ t <= b
      BY <2>2, <2>3, Zenon
    <2> QED BY <2>1, <2>4 DEF b
  <1> HIDE DEF t
  <1>7. (40 * t) \div 100 \in 0 .. 40
    <2> DEFINE x == 40 * t
               d == 100
               b == 40
    <2>1. x \in Nat /\ d \in Nat \ {0} /\ b \in Nat /\ x <= b * d
      BY <1>6
    <2> HIDE DEF x, d, b
    <2>2. x \div d \in 0 .. b
      BY <2>1, QuotientBounds
    <2> QED BY <2>2 DEF x, d, b
  <1>8. (60 * sum) \div (100 * m) + (40 * t) \div 100 \in 0 .. 100
    <2> DEFINE q == (60 * sum) \div (100 * m)
               w == (40 * t) \div 100
    <2> HIDE DEF q, w
    <2>1. q \in 0 .. 60 /\ w \in 0 .. 40
      BY <1>5, <1>7 DEF q, w
    <2>2. q + w \in 0 .. 100
      BY <2>1
    <2> QED BY <2>2 DEF q, w
  <1> QED BY <1>8 DEF m, sum, t

LEMMA ScoreResults ==
    ASSUME ScoreInv, NEW thru \in {0, 150}, PrintResults(thru)
    PROVE  ScoreInv'
  <1>1. /\ phase = "results" /\ phase' = "exit"
        /\ perfindex' = IF errors > 0 THEN 0
                        ELSE (60 * SumOf(Utils)) \div (100 * Len(stats))
                                 + (40 * Min({thru, 100})) \div 100
        /\ UNCHANGED <<package, num_ops, traces, heap, errors, stats>>
    BY DEF PrintResults
  <1>2. /\ StatsInv /\ package \in {"mm", "any"} /\ Len(stats) = traces /\ traces > 0
        /\ (errors > 0 <=> ~AllValid)
    BY <1>1 DEF ScoreInv, StatsInv, PassInv, MallocInv
  <1>3. MallocInv'
    <2>1. package' \in {"libc", "mm", "any"} /\ DOMAIN heap' = HeapFields /\ phase' \notin {"read", "valid"}
      BY <1>1, <1>2 DEF ScoreInv, MallocInv
    <2> QED BY <2>1, OutOfCheck DEF ScoreInv
  <1>4. RunInv'
    BY <1>1 DEF ScoreInv, RunInv, HeapInv, HeapIs, MmValid, MmInvalid, MmRuns, MmUtil
  <1>5. PassInv' /\ StatsInv'
    BY <1>1 DEF ScoreInv, PassInv, StatsInv, AllValid
  <1>6. AllValid' <=> AllValid
    BY <1>1 DEF AllValid
  <1>7. PointsInv'
    <2>1. CASE errors > 0
      BY <1>1, <1>2, <1>6, <2>1 DEF PointsInv
    <2>2. CASE ~(errors > 0)
      <3>1. AllValid /\ stats # <<>>
        BY <1>2, <2>2
      <3>2. perfindex' \in 0 .. 100
        BY <1>1, <1>2, <2>2, <3>1, PointsAre, Zenon
      <3> QED BY <1>6, <3>1, <3>2 DEF PointsInv
    <2> QED BY <2>1, <2>2
  <1> QED BY <1>3, <1>4, <1>5, <1>7 DEF ScoreInv

LEMMA StepScoreInv == ScoreInv /\ [MdriverNext]_(mdriverVars) => ScoreInv'
  <1> SUFFICES ASSUME ScoreInv, [MdriverNext]_(mdriverVars) PROVE ScoreInv'
    OBVIOUS
  <1>1. CASE UNCHANGED mdriverVars
    <2>1. UNCHANGED <<package, phase, num_ops, ops, traces, k, heap, ranges, blocks, block_sizes,
                      total_size, max_total_size, errors, stats, perfindex>>
      BY <1>1 DEF mdriverVars
    <2>2. MallocInv'
      BY <1>1, StepMallocInv DEF ScoreInv
    <2>3. RunInv'
      <3>1. HeapInv /\ MmValid /\ MmInvalid /\ MmRuns /\ MmUtil
        BY DEF ScoreInv, RunInv
      <3>2. MmValid'
        <4>1. /\ LiveIn(ops', k') = LiveIn(ops, k)
              /\ \A j : Whole(j) => Whole(j)'
          BY <2>1 DEF Whole, Payload
        <4>2. HeapAligned => HeapAligned'
          BY <2>1 DEF HeapAligned
        <4>3. (\E g : Grown(g, k) /\ g[k] = heap.brk) => (\E g : Grown(g, k) /\ g[k] = heap.brk)'
          BY <2>1, Zenon DEF Grown
        <4>4. (\A a \in 1 .. k : ~Misread(ops[a])) => \A a \in 1 .. k' : ~Misread(ops'[a])
          BY <2>1
        <4> QED BY <2>1, <3>1, <4>1, <4>2, <4>3, <4>4, Zenon DEF MmValid
      <3>3. MmRuns'
        <4>1. (\E g : Grown(g, Len(ops)) /\ g[k] = heap.brk)
                  => (\E g : Grown(g, Len(ops)) /\ g[k] = heap.brk)'
          BY <2>1, Zenon DEF Grown
        <4> QED BY <2>1, <3>1, <4>1, Zenon DEF MmRuns
      <3>4. MmUtil'
        BY <2>1, <3>1 DEF MmUtil, SizesKept, Highest
      <3>5. HeapInv' /\ MmInvalid'
        BY <2>1, <3>1 DEF HeapInv, MmInvalid, HeapIs
      <3> QED BY <3>2, <3>3, <3>4, <3>5 DEF RunInv
    <2>4. PassInv' /\ StatsInv' /\ PointsInv'
      BY <2>1 DEF ScoreInv, PassInv, StatsInv, PointsInv, AllValid
    <2> QED BY <2>2, <2>3, <2>4 DEF ScoreInv
  <1>2. ASSUME NEW op \in Requests, ReadLine(op) PROVE ScoreInv'
    BY <1>2, ScoreReadLine
  <1>3. ASSUME NEW thru \in {0, 150}, PrintResults(thru) PROVE ScoreInv'
    BY <1>3, ScoreResults
  <1>4. CASE EndTrace
    BY <1>4, ScoreEndTrace
  <1>5. CASE Valid
    BY <1>5, ScoreValid
  <1>6. CASE Util
    BY <1>6, ScoreUtil
  <1>7. CASE Speed
    BY <1>7, ScoreSpeed
  <1>8. CASE EndPass
    BY <1>8, ScoreEndPass
  <1>9. CASE NextTrace
    BY <1>9, ScoreNextTrace
  <1> QED BY <1>1, <1>2, <1>3, <1>4, <1>5, <1>6, <1>7, <1>8, <1>9, Zenon DEF MdriverNext

LEMMA ScoreInvScored == ScoreInv => MmScored
  <1> SUFFICES ASSUME ScoreInv PROVE MmScored
    OBVIOUS
  <1>1. /\ MallocInv /\ MmValid /\ MmInvalid /\ MmRuns /\ MmUtil /\ HeapInv
        /\ PassInv /\ StatsInv /\ PointsInv
    BY DEF ScoreInv, RunInv
  <1>2. PayloadsKept
    BY <1>1, MmValidKeeps
  <1>3. MmIsValid
    <2>1. phase = "app_error" => package = "libc"
      BY <1>1 DEF PassInv
    <2>2. package = "mm" /\ phase = "invalid" =>
              Misread(ops[k + 1]) \/ heap.brk + ALIGN(ops[k + 1].size + SIZE_T_SIZE) > MAX_HEAP
      BY <1>1, Zenon DEF MmInvalid, Rounded
    <2>3. package = "mm" /\ phase = "valid" => \A a \in 1 .. k : ~Misread(ops[a])
      BY <1>1, Zenon DEF MmValid
    <2> QED BY <2>1, <2>2, <2>3, Zenon DEF MmIsValid
  <1>4. UtilIsHighWater
    <2>1. CASE package = "mm"
      <3>1. HeapIs(heap)
        BY <1>1, <2>1 DEF HeapInv
      <3> QED BY <1>1, <3>1, MmUtilIsHighWater
    <2>2. CASE package # "mm"
      BY <2>2, Zenon DEF UtilIsHighWater
    <2> QED BY <2>1, <2>2
  <1>5. PointsEarned
    <2>1. phase = "exit" => Len(stats) = traces
      BY <1>1 DEF StatsInv, PassInv
    <2>2. phase = "exit" => IF \A a \in DOMAIN stats : stats[a].valid THEN perfindex \in 0 .. 100 ELSE perfindex = 0
      BY <1>1, Zenon DEF PointsInv, AllValid
    <2> QED BY <2>1, <2>2, Zenon DEF PointsEarned
  <1> QED BY <1>2, <1>3, <1>4, <1>5, Zenon DEF MmScored

-----------------------------------------------------------------------------
(* The theorems                                                             *)

\* mdriver.c: for an allocator that returns any address, a heap of any size and traces of any
\* length: in the validity pass the list of ranges holds the payloads of the blocks in use and
\* no others, and two of them overlap only where the later one encloses the other.
THEOREM CheckIsSound == MdriverSpec => []CheckSound
  BY InitMallocInv, StepMallocInv, MallocInvSound, PTL DEF MdriverSpec

\* mdriver.c and mm.c: for a heap and alignment of any size that an int holds twice, and any
\* traces: no block of mm.c is reached into by another, the driver finds a fault with it only where
\* memory has run out or where it misreads a resized block's number, its high-water mark is that of the sizes in use and no more than the heap
\* taken for them, and the points are for an allocator valid on every trace and at most 100.
THEOREM MmIsScored == MdriverSpec => []MmScored
  BY InitScoreInv, StepScoreInv, ScoreInvScored, PTL DEF MdriverSpec
=============================================================================
