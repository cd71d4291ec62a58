----------------------------- MODULE RioProofs ------------------------------
(***************************************************************************)
(* Proofs about Rio for any stream, any buffers and any short counts: the  *)
(* bytes are where the counters say they are, and every call returns what  *)
(* ByteStream promises.                                                    *)
(***************************************************************************)
EXTENDS Rio, SequenceTheorems, TLAPS

Bytes(a, b) == Abstract!Bytes(a, b)

\* Pieces of the stream, and how they are put together.
LEMMA BytesAre ==
    ASSUME NEW a \in Nat \ {0}, NEW b \in Nat, a <= b + 1, b <= N
    PROVE  /\ Bytes(a, b) \in Seq(1 .. N)
           /\ Len(Bytes(a, b)) = b - a + 1
           /\ \A k \in 1 .. b - a + 1 : Bytes(a, b)[k] = a + k - 1
  <1>1. b - a + 1 \in Nat /\ \A k \in 1 .. b - a + 1 : a + k - 1 \in 1 .. N
    BY Sizes
  <1>2. Bytes(a, b) \in [1 .. b - a + 1 -> 1 .. N]
    BY <1>1 DEF Bytes, Abstract!Bytes
  <1>3. Bytes(a, b) \in Seq(1 .. N) /\ Len(Bytes(a, b)) = b - a + 1
    <2> DEFINE s == Bytes(a, b)
               m == b - a + 1
    <2>1. s \in [1 .. m -> 1 .. N] /\ m \in Nat
      BY <1>1, <1>2
    <2> HIDE DEF s, m
    <2>2. s \in Seq(1 .. N)
      BY <2>1, SeqDef
    <2>3. Len(s) = m
      BY <2>1, <2>2, LenProperties
    <2> QED BY <2>2, <2>3 DEF s, m
  <1> QED BY <1>3 DEF Bytes, Abstract!Bytes

LEMMA BytesJoin ==
    ASSUME NEW a \in Nat \ {0}, NEW b \in Nat, NEW c \in Nat, a <= b + 1, b <= c, c <= N
    PROVE  Bytes(a, b) \o Bytes(b + 1, c) = Bytes(a, c)
  <1> DEFINE s == Bytes(a, b)
             t == Bytes(b + 1, c)
             u == Bytes(a, c)
  <1>0. b <= N /\ a <= c + 1 /\ b + 1 \in Nat \ {0}
    BY Sizes
  <1>1. s \in Seq(1 .. N) /\ Len(s) = b - a + 1 /\ \A k \in 1 .. b - a + 1 : s[k] = a + k - 1
    BY <1>0, BytesAre
  <1>2. t \in Seq(1 .. N) /\ Len(t) = c - b /\ \A k \in 1 .. c - b : t[k] = b + k
    <2>1. t \in Seq(1 .. N) /\ Len(t) = c - (b + 1) + 1
          /\ \A k \in 1 .. c - (b + 1) + 1 : t[k] = (b + 1) + k - 1
      <3>1. b + 1 <= c + 1
        OBVIOUS
      <3> QED BY <1>0, <3>1, BytesAre
    <2> QED BY <2>1
  <1>3. u \in Seq(1 .. N) /\ Len(u) = c - a + 1 /\ \A k \in 1 .. c - a + 1 : u[k] = a + k - 1
    BY <1>0, BytesAre
  <1> HIDE DEF s, t, u
  <1>4. s \o t \in Seq(1 .. N) /\ Len(s \o t) = Len(s) + Len(t)
        /\ \A i \in 1 .. Len(s) + Len(t) : (s \o t)[i] = IF i <= Len(s) THEN s[i] ELSE t[i - Len(s)]
    BY <1>1, <1>2, ConcatProperties
  <1>5. Len(s \o t) = Len(u)
    BY <1>1, <1>2, <1>3, <1>4
  <1>6. ASSUME NEW i \in 1 .. Len(s \o t) PROVE (s \o t)[i] = u[i]
    <2>1. i \in 1 .. c - a + 1 /\ u[i] = a + i - 1
      BY <1>3, <1>5
    <2>2. (s \o t)[i] = IF i <= Len(s) THEN s[i] ELSE t[i - Len(s)]
      BY <1>4
    <2>3. CASE i <= Len(s)
      BY <1>1, <2>1, <2>2, <2>3
    <2>4. CASE ~(i <= Len(s))
      <3>1. i - Len(s) \in 1 .. c - b /\ b + (i - Len(s)) = a + i - 1
        BY <1>1, <2>1, <2>4
      <3> QED BY <1>2, <2>1, <2>2, <2>4, <3>1
    <2> QED BY <2>3, <2>4
  <1>7. s \o t = u
    BY <1>3, <1>4, <1>5, <1>6, SeqEqual
  <1> QED BY <1>7 DEF s, t, u

LEMMA BytesAppend ==
    ASSUME NEW a \in Nat \ {0}, NEW b \in Nat, a <= b + 1, b + 1 <= N
    PROVE  Append(Bytes(a, b), b + 1) = Bytes(a, b + 1)
  <1> DEFINE s == Bytes(a, b)
             u == Bytes(a, b + 1)
  <1>1. s \in Seq(1 .. N) /\ Len(s) = b - a + 1 /\ \A k \in 1 .. b - a + 1 : s[k] = a + k - 1
    BY Sizes, BytesAre
  <1>2. u \in Seq(1 .. N) /\ Len(u) = b - a + 2 /\ \A k \in 1 .. b - a + 2 : u[k] = a + k - 1
    <2>1. b + 1 \in Nat /\ a <= (b + 1) + 1 /\ (b + 1) - a + 1 = b - a + 2
      OBVIOUS
    <2> QED BY <2>1, BytesAre
  <1> HIDE DEF s, u
  <1>3. b + 1 \in 1 .. N
    BY Sizes
  <1>4. Append(s, b + 1) \in Seq(1 .. N) /\ Len(Append(s, b + 1)) = Len(s) + 1
        /\ \A i \in 1 .. Len(s) : Append(s, b + 1)[i] = s[i]
        /\ Append(s, b + 1)[Len(s) + 1] = b + 1
    BY <1>1, <1>3, AppendProperties
  <1>5. ASSUME NEW i \in 1 .. Len(Append(s, b + 1)) PROVE Append(s, b + 1)[i] = u[i]
    <2>1. i \in 1 .. b - a + 2 /\ u[i] = a + i - 1
      BY <1>1, <1>2, <1>4
    <2>2. i # Len(s) + 1 => i \in 1 .. b - a + 1
      BY <1>1, <2>1
    <2> QED BY <1>1, <1>4, <2>1, <2>2
  <1>6. Append(s, b + 1) = u
    BY <1>1, <1>2, <1>4, <1>5, SeqEqual
  <1> QED BY <1>6 DEF s, u

LEMMA BytesPart ==
    ASSUME NEW a \in Nat \ {0}, NEW b \in Nat, a <= b + 1, b <= N,
           NEW i \in Nat \ {0}, NEW j \in Nat, i <= j + 1, j <= b - a + 1
    PROVE  SubSeq(Bytes(a, b), i, j) = Bytes(a + i - 1, a + j - 1)
  <1> DEFINE s == Bytes(a, b)
             u == Bytes(a + i - 1, a + j - 1)
  <1>1. s \in Seq(1 .. N) /\ Len(s) = b - a + 1 /\ \A k \in 1 .. b - a + 1 : s[k] = a + k - 1
    BY BytesAre
  <1>2. u \in Seq(1 .. N) /\ Len(u) = j - i + 1 /\ \A k \in 1 .. j - i + 1 : u[k] = a + i + k - 2
    <2>1. /\ a + i - 1 \in Nat \ {0} /\ a + j - 1 \in Nat
          /\ a + i - 1 <= (a + j - 1) + 1 /\ a + j - 1 <= N
      BY Sizes
    <2>2. u \in Seq(1 .. N) /\ Len(u) = (a + j - 1) - (a + i - 1) + 1
          /\ \A k \in 1 .. (a + j - 1) - (a + i - 1) + 1 : u[k] = (a + i - 1) + k - 1
      BY <2>1, BytesAre
    <2> QED BY <2>2
  <1> HIDE DEF s, u
  <1>3. \A k \in i .. j : s[k] \in 1 .. N
    <2> TAKE k \in i .. j
    <2>1. k \in 1 .. Len(s)
      BY <1>1
    <2> QED BY <1>1, <2>1, ElementOfSeq
  <1>4. /\ SubSeq(s, i, j) \in Seq(1 .. N)
        /\ Len(SubSeq(s, i, j)) = IF i <= j THEN j - i + 1 ELSE 0
        /\ \A k \in 1 .. j - i + 1 : SubSeq(s, i, j)[k] = s[i + k - 1]
    BY <1>3, SubSeqProperties
  <1>5. Len(SubSeq(s, i, j)) = Len(u)
    BY <1>2, <1>4
  <1>6. \A k \in 1 .. Len(SubSeq(s, i, j)) : SubSeq(s, i, j)[k] = u[k]
    BY <1>1, <1>2, <1>4, <1>5
  <1>7. SubSeq(s, i, j) = u
    BY <1>2, <1>4, <1>5, <1>6, SeqEqual
  <1> QED BY <1>7 DEF s, u

\* The least of a set, as Min chooses it.
LEMMA MinIs ==
    ASSUME NEW S, NEW m \in S, S \subseteq Int, \A x \in S : m <= x
    PROVE  Min(S) = m /\ Abstract!Min(S) = m
  <1> DEFINE c == CHOOSE x \in S : \A y \in S : x <= y
  <1>1. c \in S /\ \A y \in S : c <= y
    OBVIOUS
  <1> HIDE DEF c
  <1>2. c = m
    BY <1>1
  <1> QED BY <1>2 DEF c, Min, Abstract!Min

LEMMA MinOfTwo ==
    ASSUME NEW a \in Int, NEW b \in Int
    PROVE  Min({a, b}) = IF a <= b THEN a ELSE b
  <1>1. CASE a <= b
    BY <1>1, MinIs
  <1>2. CASE ~(a <= b)
    BY <1>2, MinIs
  <1> QED BY <1>1, <1>2

LEMMA MaxOfTwo ==
    ASSUME NEW a \in Int, NEW b \in Int
    PROVE  Max({a, b}) = IF a > b THEN a ELSE b
  <1> DEFINE m == IF a > b THEN a ELSE b
             c == CHOOSE x \in {a, b} : \A y \in {a, b} : x >= y
  <1>1. m \in {a, b} /\ \A y \in {a, b} : m >= y
    OBVIOUS
  <1>2. c \in {a, b} /\ \A y \in {a, b} : c >= y
    BY <1>1
  <1> HIDE DEF c
  <1>3. c = m
    BY <1>2
  <1> QED BY <1>3 DEF c, Max

-----------------------------------------------------------------------------
(* The invariant                                                            *)

\* What is in rio_buf, and the bytes calls have taken from the stream.
Cnt == IF rio_cnt > 0 THEN rio_cnt ELSE 0

Delivered == pos - Cnt

InBuffer ==
    /\ Cnt <= pos
    /\ rio_cnt > 0 =>
           /\ rio_bufptr + rio_cnt <= BufSize
           /\ \A k \in 0 .. rio_cnt - 1 : rio_buf[rio_bufptr + k] = Delivered + 1 + k

\* The caller's buffer holds the last of them, also while it writes them back.
InCall ==
    /\ Len(usr) <= Delivered
    /\ usr = Bytes(Delivered - Len(usr) + 1, Delivered)

\* The peer has been sent all of them but the pending ones.
Pending == IF Reading THEN Len(usr) ELSE IF at = "write" THEN nleft ELSE 0

SentAll == sent = Bytes(1, Delivered - Pending)

\* How far a call is.
Asked ==
    /\ at = "readlineb" => /\ nleft >= 1 /\ Len(usr) + nleft = MaxLine - 1
                           /\ \A k \in 1 .. Len(usr) : usr[k] \notin newlines
    /\ at \in {"readnb", "readn"} => nleft >= 1 /\ Len(usr) + nleft \in ReadSizes
    /\ at = "write" => nleft \in 1 .. Len(usr)

\* rio_readn never finds bytes in rio_buf.
Alone ==
    /\ Reading => at \in caller
    /\ "readn" \in caller => rio_cnt = 0

IInv == TypeOK /\ InBuffer /\ InCall /\ SentAll /\ Asked /\ Alone

LEMMA Known ==
    ASSUME IInv
    PROVE  /\ Cnt \in 0 .. BufSize /\ Delivered \in 0 .. N /\ Len(usr) \in 0 .. Delivered
           /\ Cnt = (IF rio_cnt > 0 THEN rio_cnt ELSE 0) /\ pos = Delivered + Cnt
  <1>1. Cnt \in 0 .. BufSize /\ Len(usr) \in Nat
    BY Sizes, LenProperties DEF IInv, TypeOK, Cnt
  <1>2. Delivered = pos - Cnt /\ Delivered \in 0 .. N
    BY <1>1, Sizes DEF IInv, TypeOK, InBuffer, Delivered
  <1>3. Len(usr) <= Delivered
    BY DEF IInv, InCall
  <1> QED BY <1>1, <1>2, <1>3 DEF IInv, TypeOK, Cnt

\* A call takes bytes of the stream and goes on,
LEMMA GoesOn ==
    ASSUME IInv, Reading, NEW r, NEW left, NEW p \in Delivered .. N, Delivered' = p,
           r = Bytes(Delivered - Len(usr) + 1, p), KeepReading(r, left), UNCHANGED sent
    PROVE  /\ r \in Seq(1 .. N) /\ Len(r) = p - Delivered + Len(usr)
           /\ InCall' /\ SentAll'
  <1>1. Delivered \in 0 .. N /\ Len(usr) \in 0 .. Delivered
    BY Known
  <1>2. r \in Seq(1 .. N) /\ Len(r) = p - Delivered + Len(usr)
    <2>1. /\ Delivered - Len(usr) + 1 \in Nat \ {0} /\ p \in Nat
          /\ Delivered - Len(usr) + 1 <= p + 1 /\ p <= N
      BY <1>1, Sizes
    <2>2. r \in Seq(1 .. N) /\ Len(r) = p - (Delivered - Len(usr) + 1) + 1
      BY <2>1, BytesAre
    <2> QED BY <1>1, <2>1, <2>2
  <1>3. usr' = r /\ p - Len(r) = Delivered - Len(usr)
    BY <1>1, <1>2 DEF KeepReading
  <1>4. InCall'
    BY <1>1, <1>2, <1>3 DEF InCall
  <1>5. Reading' /\ Pending' = Len(r) /\ Pending = Len(usr)
    BY <1>3 DEF KeepReading, Pending, Reading, Buffered
  <1>6. SentAll'
    <2>1. Delivered' - Pending' = Delivered - Pending
      BY <1>1, <1>2, <1>3, <1>5
    <2> QED BY <2>1 DEF IInv, SentAll
  <1> QED BY <1>2, <1>4, <1>6

\* or returns them.
LEMMA Returns ==
    ASSUME IInv, Reading, NEW r, NEW p \in Delivered .. N, Delivered' = p,
           r = Bytes(Delivered - Len(usr) + 1, p), Return(r), UNCHANGED sent
    PROVE  /\ usr' \in Seq(1 .. N) /\ got' \in Seq(Seq(1 .. N)) /\ nleft' \in Nat
           /\ at' \in {"write", "done"}
           /\ InCall' /\ SentAll' /\ Asked'
  <1>1. Delivered \in 0 .. N /\ Len(usr) \in 0 .. Delivered
    BY Known
  <1>2. r \in Seq(1 .. N) /\ Len(r) = p - Delivered + Len(usr)
    <2>1. /\ Delivered - Len(usr) + 1 \in Nat \ {0} /\ p \in Nat
          /\ Delivered - Len(usr) + 1 <= p + 1 /\ p <= N
      BY <1>1, Sizes
    <2>2. r \in Seq(1 .. N) /\ Len(r) = p - (Delivered - Len(usr) + 1) + 1
      BY <2>1, BytesAre
    <2> QED BY <1>1, <2>1, <2>2
  <1>3. /\ usr' = r /\ nleft' = Len(r) /\ p - Len(r) = Delivered - Len(usr) /\ Len(r) \in Nat
        /\ at' = IF r = <<>> THEN "done" ELSE "write"
    BY <1>1, <1>2 DEF Return
  <1>4. got' \in Seq(Seq(1 .. N))
    <2>1. got \in Seq(Seq(1 .. N)) /\ got' = Append(got, r)
      BY DEF IInv, TypeOK, Return
    <2> QED BY <1>2, <2>1, AppendProperties
  <1>5. InCall'
    BY <1>1, <1>2, <1>3 DEF InCall
  <1>6. r = <<>> <=> Len(r) = 0
    BY <1>2, EmptySeq
  <1>7. Pending' = Len(r) /\ Pending = Len(usr)
    BY <1>3, <1>6 DEF Pending, Reading, Buffered
  <1>8. SentAll'
    <2>1. Delivered' - Pending' = Delivered - Pending
      BY <1>1, <1>2, <1>3, <1>7
    <2> QED BY <2>1 DEF IInv, SentAll
  <1>9. Asked'
    BY <1>3, <1>6 DEF Asked
  <1> QED BY <1>2, <1>3, <1>4, <1>5, <1>8, <1>9

LEMMA InitIInv == Init => IInv
  <1> SUFFICES ASSUME Init PROVE IInv
    OBVIOUS
  <1>1. Cnt = 0 /\ Delivered = 0 /\ Len(usr) = 0 /\ ~Reading /\ Pending = 0
    BY DEF Init, Cnt, Delivered, Reading, Buffered, Pending
  <1>2. Bytes(1, 0) = <<>>
    BY Sizes, BytesAre, EmptySeq
  <1>3. TypeOK
    BY Sizes DEF Init, TypeOK
  <1>4. InBuffer /\ InCall /\ SentAll /\ Asked /\ Alone
    BY <1>1, <1>2 DEF Init, InBuffer, InCall, SentAll, Asked, Alone
  <1> QED BY <1>3, <1>4 DEF IInv

-----------------------------------------------------------------------------
(* The steps                                                                *)

\* A step that leaves the bytes and the caller's buffer alone.
LEMMA Frame ==
    ASSUME IInv, UNCHANGED <<newlines, caller, at, usr, nleft, sent, got>>,
           Delivered' = Delivered
    PROVE  InCall' /\ SentAll' /\ Asked'
  BY DEF IInv, InCall, SentAll, Asked, Pending, Reading, Buffered

LEMMA StepCall ==
    ASSUME IInv, CallLine \/ \E n \in ReadSizes : CallRead(n)
    PROVE  IInv'
  <1>1. PICK f \in {"readlineb", "readnb", "readn"}, n \in Nat \ {0} :
            /\ Call(f, n)
            /\ f = "readlineb" => n = MaxLine - 1
            /\ f # "readlineb" => n \in ReadSizes
    BY Sizes DEF CallLine, CallRead
  <1>2. /\ at = "idle" /\ at' = f /\ f \in caller /\ usr' = <<>> /\ nleft' = n
        /\ UNCHANGED <<newlines, caller, rio_cnt, rio_bufptr, rio_buf, pos, got, sent, interrupts, up>>
    BY <1>1 DEF Call, rio
  <1>3. Delivered' = Delivered /\ Cnt' = Cnt /\ Delivered \in 0 .. N
    BY <1>2, Known DEF Delivered, Cnt
  <1>4. TypeOK'
    BY <1>2, EmptySeq DEF IInv, TypeOK
  <1>5. InBuffer'
    BY <1>2, <1>3 DEF IInv, InBuffer
  <1>6. InCall'
    <2>1. Bytes(Delivered + 1, Delivered) = <<>>
      BY <1>3, BytesAre, EmptySeq, Sizes
    <2> QED BY <1>2, <1>3, <2>1, EmptySeq DEF InCall
  <1>7. SentAll'
    BY <1>2, <1>3 DEF IInv, SentAll, Pending, Reading, Buffered
  <1>8. Asked' /\ Alone'
    BY <1>1, <1>2, Sizes DEF IInv, Asked, Alone, Reading, Buffered
  <1> QED BY <1>4, <1>5, <1>6, <1>7, <1>8 DEF IInv

LEMMA StepRefill ==
    ASSUME IInv, NEW k \in 1 .. N, Refill(k)
    PROVE  IInv'
  <1>1. /\ Buffered /\ rio_cnt <= 0 /\ k <= BufSize /\ pos + k <= N
        /\ rio_cnt' = k /\ rio_bufptr' = 0 /\ pos' = pos + k
        /\ rio_buf' = [b \in DOMAIN rio_buf |-> IF b < k THEN pos + b + 1 ELSE rio_buf[b]]
        /\ UNCHANGED <<newlines, caller, at, usr, nleft, got, sent, interrupts, up>>
    BY DEF Refill
  <1>2. Cnt = 0 /\ Cnt' = k /\ Delivered' = Delivered /\ Delivered = pos
    BY <1>1, Sizes DEF Cnt, Delivered, IInv, TypeOK
  <1>3. TypeOK'
    <2>1. rio_buf' \in [0 .. BufSize - 1 -> 0 .. N]
      BY <1>1, Sizes DEF IInv, TypeOK
    <2> QED BY <1>1, <2>1, Sizes DEF IInv, TypeOK
  <1>4. InBuffer'
    <2>1. \A b \in 0 .. k - 1 : rio_buf'[b] = pos + b + 1
      BY <1>1, Sizes DEF IInv, TypeOK
    <2> QED BY <1>1, <1>2, <2>1, Sizes DEF InBuffer, IInv, TypeOK
  <1>5. InCall' /\ SentAll' /\ Asked'
    BY <1>1, <1>2, Frame
  <1>6. Alone'
    BY <1>1, CallersOK DEF IInv, TypeOK, Alone, Buffered, Reading
  <1> QED BY <1>3, <1>4, <1>5, <1>6 DEF IInv

LEMMA StepRefillInterrupted == IInv /\ RefillInterrupted => IInv'
  <1> SUFFICES ASSUME IInv, RefillInterrupted PROVE IInv'
    OBVIOUS
  <1>1. /\ Buffered /\ rio_cnt <= 0 /\ rio_cnt' = -1 /\ interrupts' = interrupts + 1
        /\ interrupts < MaxInterrupts
        /\ UNCHANGED <<newlines, caller, at, rio_bufptr, rio_buf, pos, usr, nleft, got, sent, up>>
    BY DEF RefillInterrupted
  <1>2. Cnt = 0 /\ Cnt' = 0 /\ Delivered' = Delivered /\ ~(rio_cnt' > 0)
    BY <1>1 DEF Cnt, Delivered, IInv, TypeOK
  <1>3. TypeOK'
    BY <1>1, Sizes DEF IInv, TypeOK
  <1>4. InBuffer'
    BY <1>1, <1>2 DEF IInv, InBuffer
  <1>5. InCall' /\ SentAll' /\ Asked'
    BY <1>1, <1>2, Frame
  <1>6. Alone'
    BY <1>1, CallersOK DEF IInv, TypeOK, Alone, Buffered, Reading
  <1> QED BY <1>3, <1>4, <1>5, <1>6 DEF IInv

\* The call ends with the stream.
LEMMA StepEOF ==
    ASSUME IInv, RefillEOF \/ ReadIntoEOF
    PROVE  IInv'
  <1>1. /\ Reading /\ pos = N /\ Return(usr) /\ (rio_cnt' = 0 \/ rio_cnt' = rio_cnt) /\ rio_cnt <= 0
        /\ UNCHANGED <<newlines, caller, rio_bufptr, rio_buf, pos, sent, interrupts, up>>
    <2>1. CASE RefillEOF
      BY <2>1 DEF RefillEOF, Reading
    <2>2. CASE ReadIntoEOF
      <3>1. at = "readn" /\ Reading
        BY <2>2 DEF ReadIntoEOF, Reading
      <3>2. rio_cnt = 0
        BY <3>1 DEF IInv, Alone
      <3> QED BY <2>2, <3>1, <3>2 DEF ReadIntoEOF, rio
    <2> QED BY <2>1, <2>2
  <1>2. rio_cnt \in -1 .. 0 /\ rio_cnt' \in -1 .. 0
    <2>1. rio_cnt \in -1 .. 0
      BY <1>1, Sizes DEF IInv, TypeOK
    <2> QED BY <1>1, <2>1
  <1>3. Cnt = 0 /\ Cnt' = 0 /\ Delivered' = Delivered
    BY <1>1, <1>2 DEF Cnt, Delivered
  <1>4. /\ usr' \in Seq(1 .. N) /\ got' \in Seq(Seq(1 .. N)) /\ nleft' \in Nat
        /\ at' \in {"write", "done"} /\ InCall' /\ SentAll' /\ Asked'
    <2>1. usr = Bytes(Delivered - Len(usr) + 1, Delivered)
      BY DEF IInv, InCall
    <2>2. Delivered \in Delivered .. N
      BY Known
    <2> QED BY <1>1, <1>3, <2>1, <2>2, Returns
  <1>5. TypeOK'
    <2>1. rio_cnt' \in -1 .. BufSize
      BY <1>2, Sizes
    <2> QED BY <1>1, <1>4, <2>1 DEF IInv, TypeOK
  <1>6. InBuffer'
    <2>1. ~(rio_cnt' > 0)
      BY <1>2
    <2>2. Cnt' <= pos'
      BY <1>1, <1>3, Sizes
    <2> QED BY <2>1, <2>2 DEF InBuffer
  <1>7. Alone'
    BY <1>1, <1>4 DEF IInv, Alone, Buffered, Reading
  <1> QED BY <1>4, <1>5, <1>6, <1>7 DEF IInv

\* A byte of rio_buf goes to the caller.
LEMMA StepCopyByte == IInv /\ CopyByte => IInv'
  <1> SUFFICES ASSUME IInv, CopyByte PROVE IInv'
    OBVIOUS
  <1> DEFINE c == rio_buf[rio_bufptr]
             r == Append(usr, c)
  <1>1. /\ at = "readlineb" /\ Reading /\ rio_cnt > 0
        /\ rio_bufptr' = rio_bufptr + 1 /\ rio_cnt' = rio_cnt - 1
        /\ UNCHANGED <<rio_buf, pos, newlines, caller, sent, interrupts, up>>
        /\ \/ (c \in newlines \/ nleft = 1) /\ Return(r)
           \/ ~(c \in newlines \/ nleft = 1) /\ KeepReading(r, nleft - 1)
    BY DEF CopyByte, Consume, Reading, Buffered
  <1>2. /\ Cnt \in 0 .. BufSize /\ Delivered \in 0 .. N /\ Len(usr) \in 0 .. Delivered
        /\ Cnt = rio_cnt /\ pos = Delivered + Cnt
    BY <1>1, Known
  <1>3. rio_cnt \in 1 .. BufSize /\ Cnt' = rio_cnt - 1 /\ Delivered' = Delivered + 1
        /\ Delivered + 1 \in Delivered .. N
    <2>1. rio_cnt \in 1 .. BufSize
      BY <1>1, Sizes DEF IInv, TypeOK
    <2>2. Cnt' = rio_cnt - 1
      BY <1>1, <2>1 DEF Cnt
    <2>3. pos \in 0 .. N
      BY DEF IInv, TypeOK
    <2> QED BY <1>1, <1>2, <2>1, <2>2, <2>3, Sizes DEF Delivered
  <1>4. /\ rio_bufptr \in 0 .. BufSize /\ rio_bufptr + rio_cnt <= BufSize
        /\ \A k \in 0 .. rio_cnt - 1 : rio_buf[rio_bufptr + k] = Delivered + 1 + k
    BY <1>1 DEF IInv, TypeOK, InBuffer
  <1>5. c = Delivered + 1
    <2>1. 0 \in 0 .. rio_cnt - 1 /\ rio_bufptr + 0 = rio_bufptr
      BY <1>3, <1>4, Sizes
    <2>2. rio_buf[rio_bufptr + 0] = Delivered + 1 + 0
      BY <1>4, <2>1
    <2> QED BY <1>2, <2>1, <2>2
  <1>6. r = Bytes(Delivered - Len(usr) + 1, Delivered + 1)
    <2>1. usr = Bytes(Delivered - Len(usr) + 1, Delivered)
      BY DEF IInv, InCall
    <2>2. /\ Delivered - Len(usr) + 1 \in Nat \ {0} /\ Delivered \in Nat
          /\ Delivered - Len(usr) + 1 <= Delivered + 1 /\ Delivered + 1 <= N
      BY <1>2, <1>3, Sizes
    <2>3. Append(Bytes(Delivered - Len(usr) + 1, Delivered), Delivered + 1)
            = Bytes(Delivered - Len(usr) + 1, Delivered + 1)
      BY <2>2, BytesAppend
    <2> QED BY <1>5, <2>1, <2>3
  <1>7. InBuffer'
    <2>1. \A k \in 0 .. rio_cnt' - 1 : rio_buf'[rio_bufptr' + k] = Delivered' + 1 + k
      <3> TAKE k \in 0 .. rio_cnt' - 1
      <3>1. k + 1 \in 0 .. rio_cnt - 1 /\ rio_bufptr + (k + 1) = rio_bufptr' + k
        BY <1>1, <1>3, <1>4, Sizes
      <3>2. rio_buf[rio_bufptr + (k + 1)] = Delivered + 1 + (k + 1)
        BY <1>4, <3>1
      <3> QED BY <1>1, <1>2, <1>3, <3>1, <3>2
    <2> QED BY <1>1, <1>2, <1>3, <1>4, <2>1, Sizes DEF InBuffer
  <1>8. rio_bufptr' \in 0 .. BufSize /\ rio_cnt' \in -1 .. BufSize
    BY <1>1, <1>3, <1>4, Sizes
  <1> HIDE DEF c, r
  <1>9. CASE Return(r)
    <2>1. /\ usr' \in Seq(1 .. N) /\ got' \in Seq(Seq(1 .. N)) /\ nleft' \in Nat
          /\ at' \in {"write", "done"} /\ InCall' /\ SentAll' /\ Asked'
      BY <1>1, <1>3, <1>6, <1>9, Returns
    <2>2. TypeOK'
      BY <1>1, <1>8, <2>1 DEF IInv, TypeOK
    <2>3. Alone'
      BY <1>1, <2>1, CallersOK DEF IInv, TypeOK, Alone, Buffered, Reading
    <2> QED BY <1>7, <2>1, <2>2, <2>3 DEF IInv
  <1>10. CASE ~(c \in newlines \/ nleft = 1) /\ KeepReading(r, nleft - 1)
    <2>1. r \in Seq(1 .. N) /\ Len(r) = (Delivered + 1) - Delivered + Len(usr) /\ InCall' /\ SentAll'
      BY <1>1, <1>3, <1>6, <1>10, GoesOn
    <2>2. at' = at /\ got' = got /\ usr' = r /\ nleft' = nleft - 1
      BY <1>10 DEF KeepReading
    <2>3. /\ nleft >= 1 /\ nleft \in Nat /\ Len(usr) + nleft = MaxLine - 1
          /\ \A k \in 1 .. Len(usr) : usr[k] \notin newlines
      BY <1>1 DEF IInv, TypeOK, Asked
    <2>4. TypeOK'
      BY <1>1, <1>8, <2>1, <2>2, <2>3, <1>10 DEF IInv, TypeOK
    <2>5. Asked'
      <3>1. \A k \in 1 .. Len(r) : r[k] \notin newlines
        <4>1. usr \in Seq(1 .. N) /\ c \in 1 .. N
          BY <1>2, <1>3, <1>5, Sizes DEF IInv, TypeOK
        <4>2. /\ Len(r) = Len(usr) + 1 /\ \A k \in 1 .. Len(usr) : r[k] = usr[k]
              /\ r[Len(usr) + 1] = c
          BY <4>1, AppendProperties DEF r
        <4> QED BY <1>2, <1>10, <2>3, <4>2
      <3>2. nleft # 1 /\ nleft' >= 1 /\ Len(usr') + nleft' = MaxLine - 1
        <4>1. nleft # 1
          BY <1>10
        <4>2. Len(r) = Len(usr) + 1
          BY <1>2, <2>1
        <4> QED BY <1>2, <2>2, <2>3, <4>1, <4>2, Sizes
      <3> QED BY <1>1, <2>2, <3>1, <3>2 DEF Asked
    <2>6. Alone'
      BY <1>1, <2>2, CallersOK DEF IInv, TypeOK, Alone, Buffered, Reading
    <2> QED BY <1>7, <2>1, <2>4, <2>5, <2>6 DEF IInv
  <1> QED BY <1>1, <1>9, <1>10

\* A block of them does.
LEMMA StepCopyBlock == IInv /\ CopyBlock => IInv'
  <1> SUFFICES ASSUME IInv, CopyBlock PROVE IInv'
    OBVIOUS
  <1>0. nleft \in Nat /\ rio_cnt \in -1 .. BufSize /\ rio_bufptr \in 0 .. BufSize
        /\ nleft >= 1 /\ Len(usr) + nleft \in ReadSizes
    BY DEF IInv, TypeOK, Asked, CopyBlock
  <1> DEFINE m == IF nleft <= rio_cnt THEN nleft ELSE rio_cnt
             r == usr \o Taken(m)
  <1>1. /\ at = "readnb" /\ Reading /\ rio_cnt > 0
        /\ rio_bufptr' = rio_bufptr + m /\ rio_cnt' = rio_cnt - m
        /\ UNCHANGED <<rio_buf, pos, newlines, caller, sent, interrupts, up>>
        /\ \/ m = nleft /\ Return(r)
           \/ m # nleft /\ KeepReading(r, nleft - m)
    <2>1. Min({nleft, rio_cnt}) = m
      BY <1>0, MinOfTwo, Sizes
    <2> QED BY <2>1 DEF CopyBlock, Consume, Reading, Buffered
  <1>2. /\ Cnt \in 0 .. BufSize /\ Delivered \in 0 .. N /\ Len(usr) \in 0 .. Delivered
        /\ Cnt = rio_cnt /\ pos = Delivered + Cnt
    BY <1>1, Known
  <1>3. m \in 1 .. rio_cnt /\ m <= nleft
    BY <1>0, <1>1, Sizes
  <1>4. rio_cnt \in 1 .. BufSize /\ Cnt' = rio_cnt - m /\ Delivered' = Delivered + m
        /\ Delivered + m \in Delivered .. N
    <2>1. rio_cnt \in 1 .. BufSize
      BY <1>0, <1>1, Sizes
    <2>2. Cnt' = rio_cnt - m
      BY <1>1, <1>3, <2>1 DEF Cnt
    <2>3. pos \in 0 .. N
      BY DEF IInv, TypeOK
    <2> HIDE DEF m
    <2> QED BY <1>1, <1>2, <1>3, <2>1, <2>2, <2>3, Sizes DEF Delivered
  <1>5. /\ rio_bufptr + rio_cnt <= BufSize
        /\ \A k \in 0 .. rio_cnt - 1 : rio_buf[rio_bufptr + k] = Delivered + 1 + k
    BY <1>1 DEF IInv, InBuffer
  <1>6. r = Bytes(Delivered - Len(usr) + 1, Delivered + m)
    <2>1. usr = Bytes(Delivered - Len(usr) + 1, Delivered)
      BY DEF IInv, InCall
    <2>2. Taken(m) = Bytes(Delivered + 1, Delivered + m)
      <3> HIDE DEF m
      <3>1. \A k \in 1 .. m : rio_buf[rio_bufptr + k - 1] = Delivered + k
        <4> TAKE k \in 1 .. m
        <4>1. k - 1 \in 0 .. rio_cnt - 1 /\ rio_bufptr + (k - 1) = rio_bufptr + k - 1
          BY <1>0, <1>3, <1>4, Sizes
        <4>2. rio_buf[rio_bufptr + (k - 1)] = Delivered + 1 + (k - 1)
          BY <1>5, <4>1
        <4> QED BY <1>2, <1>3, <4>1, <4>2
      <3>2. (Delivered + m) - (Delivered + 1) + 1 = m
        BY <1>2, <1>3
      <3>3. \A k \in 1 .. m : (Delivered + 1) + k - 1 = Delivered + k
        BY <1>2, <1>3
      <3> QED BY <3>1, <3>2, <3>3 DEF Taken, Bytes, Abstract!Bytes
    <2>3. /\ Delivered - Len(usr) + 1 \in Nat \ {0} /\ Delivered \in Nat /\ Delivered + m \in Nat
          /\ Delivered - Len(usr) + 1 <= Delivered + 1 /\ Delivered <= Delivered + m
          /\ Delivered + m <= N
      BY <1>2, <1>3, <1>4, Sizes
    <2>4. Bytes(Delivered - Len(usr) + 1, Delivered) \o Bytes(Delivered + 1, Delivered + m)
            = Bytes(Delivered - Len(usr) + 1, Delivered + m)
      BY <2>3, BytesJoin
    <2> QED BY <2>1, <2>2, <2>4
  <1> HIDE DEF m, r
  <1>7. InBuffer'
    <2>1. \A k \in 0 .. rio_cnt' - 1 : rio_buf'[rio_bufptr' + k] = Delivered' + 1 + k
      <3> TAKE k \in 0 .. rio_cnt' - 1
      <3>1. k + m \in 0 .. rio_cnt - 1 /\ rio_bufptr + (k + m) = rio_bufptr' + k
        BY <1>0, <1>1, <1>3, <1>4, Sizes
      <3>2. rio_buf[rio_bufptr + (k + m)] = Delivered + 1 + (k + m)
        BY <1>5, <3>1
      <3> QED BY <1>1, <1>2, <1>3, <1>4, <3>1, <3>2
    <2> QED BY <1>0, <1>1, <1>2, <1>3, <1>4, <1>5, <2>1, Sizes DEF InBuffer
  <1>8. rio_bufptr' \in 0 .. BufSize /\ rio_cnt' \in -1 .. BufSize
    BY <1>0, <1>1, <1>3, <1>4, <1>5, Sizes
  <1>9. CASE Return(r)
    <2>1. /\ usr' \in Seq(1 .. N) /\ got' \in Seq(Seq(1 .. N)) /\ nleft' \in Nat
          /\ at' \in {"write", "done"} /\ InCall' /\ SentAll' /\ Asked'
      BY <1>1, <1>4, <1>6, <1>9, Returns
    <2>2. TypeOK'
      BY <1>1, <1>8, <2>1 DEF IInv, TypeOK
    <2>3. Alone'
      BY <1>1, <2>1, CallersOK DEF IInv, TypeOK, Alone, Buffered, Reading
    <2> QED BY <1>7, <2>1, <2>2, <2>3 DEF IInv
  <1>10. CASE m # nleft /\ KeepReading(r, nleft - m)
    <2>1. r \in Seq(1 .. N) /\ Len(r) = (Delivered + m) - Delivered + Len(usr) /\ InCall' /\ SentAll'
      BY <1>1, <1>4, <1>6, <1>10, GoesOn
    <2>2. at' = at /\ got' = got /\ usr' = r /\ nleft' = nleft - m
      BY <1>10 DEF KeepReading
    <2>3. nleft' \in Nat /\ nleft' >= 1
      BY <1>0, <1>3, <1>4, <1>10, <2>2
    <2>4. TypeOK'
      BY <1>1, <1>8, <2>1, <2>2, <2>3 DEF IInv, TypeOK
    <2>5. Asked'
      <3>1. Len(usr') + nleft' = Len(usr) + nleft
        BY <1>0, <1>2, <1>3, <1>4, <2>1, <2>2
      <3> QED BY <1>0, <1>1, <2>2, <2>3, <3>1 DEF Asked
    <2>6. Alone'
      BY <1>1, <2>2, CallersOK DEF IInv, TypeOK, Alone, Buffered, Reading
    <2> QED BY <1>7, <2>1, <2>4, <2>5, <2>6 DEF IInv
  <1> QED BY <1>1, <1>9, <1>10

\* read() puts bytes straight into the caller's buffer.
LEMMA StepReadInto == ASSUME IInv, NEW k \in 1 .. N, ReadInto(k) PROVE IInv'
  <1> DEFINE r == usr \o [b \in 1 .. k |-> pos + b]
  <1>1. /\ at = "readn" /\ Reading /\ k <= nleft /\ pos + k <= N /\ pos' = pos + k
        /\ UNCHANGED <<newlines, caller, rio_cnt, rio_bufptr, rio_buf, sent, interrupts, up>>
        /\ \/ k = nleft /\ Return(r)
           \/ k # nleft /\ KeepReading(r, nleft - k)
    BY DEF ReadInto, Reading
  <1>2. /\ Delivered \in 0 .. N /\ Len(usr) \in 0 .. Delivered /\ rio_cnt = 0
        /\ Cnt = 0 /\ Cnt' = 0 /\ pos = Delivered
    <2>1. rio_cnt = 0
      BY <1>1 DEF IInv, Alone
    <2> QED BY <1>1, <2>1, Known DEF Cnt
  <1>3. nleft \in Nat /\ nleft >= 1 /\ Len(usr) + nleft \in ReadSizes /\ pos \in Nat
    BY <1>1, <1>2, Sizes DEF IInv, TypeOK, Asked
  <1>4. Delivered' = Delivered + k /\ Delivered + k \in Delivered .. N
    BY <1>1, <1>2, Sizes DEF Delivered
  <1>5. r = Bytes(Delivered - Len(usr) + 1, Delivered + k)
    <2>1. usr = Bytes(Delivered - Len(usr) + 1, Delivered)
      BY DEF IInv, InCall
    <2>2. [b \in 1 .. k |-> pos + b] = Bytes(Delivered + 1, Delivered + k)
      <3>1. (Delivered + k) - (Delivered + 1) + 1 = k
        BY <1>2
      <3>2. \A b \in 1 .. k : (Delivered + 1) + b - 1 = pos + b
        BY <1>2
      <3> QED BY <3>1, <3>2 DEF Bytes, Abstract!Bytes
    <2>3. /\ Delivered - Len(usr) + 1 \in Nat \ {0} /\ Delivered \in Nat /\ Delivered + k \in Nat
          /\ Delivered - Len(usr) + 1 <= Delivered + 1 /\ Delivered <= Delivered + k
          /\ Delivered + k <= N
      BY <1>2, <1>4, Sizes
    <2>4. Bytes(Delivered - Len(usr) + 1, Delivered) \o Bytes(Delivered + 1, Delivered + k)
            = Bytes(Delivered - Len(usr) + 1, Delivered + k)
      BY <2>3, BytesJoin
    <2> QED BY <2>1, <2>2, <2>4
  <1> HIDE DEF r
  <1>6. InBuffer' /\ pos' \in 0 .. N
    BY <1>1, <1>2, <1>3, Sizes DEF InBuffer
  <1>7. CASE Return(r)
    <2>1. /\ usr' \in Seq(1 .. N) /\ got' \in Seq(Seq(1 .. N)) /\ nleft' \in Nat
          /\ at' \in {"write", "done"} /\ InCall' /\ SentAll' /\ Asked'
      BY <1>1, <1>4, <1>5, <1>7, Returns
    <2>2. TypeOK'
      BY <1>1, <1>6, <2>1 DEF IInv, TypeOK
    <2>3. Alone'
      BY <1>1, <2>1 DEF IInv, Alone, Buffered, Reading
    <2> QED BY <1>6, <2>1, <2>2, <2>3 DEF IInv
  <1>8. CASE k # nleft /\ KeepReading(r, nleft - k)
    <2>1. r \in Seq(1 .. N) /\ Len(r) = (Delivered + k) - Delivered + Len(usr) /\ InCall' /\ SentAll'
      BY <1>1, <1>4, <1>5, <1>8, GoesOn
    <2>2. at' = at /\ got' = got /\ usr' = r /\ nleft' = nleft - k
      BY <1>8 DEF KeepReading
    <2>3. nleft' \in Nat /\ nleft' >= 1
      BY <1>1, <1>3, <1>8, <2>2
    <2>4. TypeOK'
      BY <1>1, <1>6, <2>1, <2>2, <2>3 DEF IInv, TypeOK
    <2>5. Asked'
      <3>1. Len(usr') + nleft' = Len(usr) + nleft
        BY <1>2, <1>3, <2>1, <2>2
      <3> QED BY <1>1, <1>3, <2>2, <2>3, <3>1 DEF Asked
    <2>6. Alone'
      BY <1>1, <2>2 DEF IInv, Alone, Buffered, Reading
    <2> QED BY <1>6, <2>1, <2>4, <2>5, <2>6 DEF IInv
  <1> QED BY <1>1, <1>7, <1>8

\* rio_writen, a part at a time.
LEMMA StepWrite == ASSUME IInv, NEW k \in 1 .. N, Write(k) PROVE IInv'
  <1> DEFINE bufp == Len(usr) - nleft
             first == Delivered - Len(usr) + 1
  <1>1. /\ at = "write" /\ k <= nleft /\ nleft' = nleft - k
        /\ sent' = sent \o SubSeq(usr, bufp + 1, bufp + k)
        /\ at' = IF k = nleft THEN "idle" ELSE "write"
        /\ UNCHANGED <<newlines, caller, rio_cnt, rio_bufptr, rio_buf, pos, usr, got, interrupts, up>>
    BY DEF Write, rio
  <1>2. /\ nleft \in 1 .. Len(usr) /\ ~Reading /\ ~Reading' /\ Pending = nleft
    BY <1>1 DEF IInv, Asked, Reading, Buffered, Pending
  <1>3. Delivered \in 0 .. N /\ Len(usr) \in 0 .. Delivered /\ Delivered' = Delivered /\ Cnt' = Cnt
    BY <1>1, Known DEF Delivered, Cnt
  <1>4. SubSeq(usr, bufp + 1, bufp + k) = Bytes(Delivered - nleft + 1, Delivered - nleft + k)
    <2>1. usr = Bytes(first, Delivered)
      BY DEF IInv, InCall
    <2>2. /\ first \in Nat \ {0} /\ Delivered \in Nat /\ first <= Delivered + 1 /\ Delivered <= N
          /\ bufp + 1 \in Nat \ {0} /\ bufp + k \in Nat /\ bufp + 1 <= (bufp + k) + 1
          /\ bufp + k <= Delivered - first + 1
      BY <1>1, <1>2, <1>3, Sizes
    <2>3. first + (bufp + 1) - 1 = Delivered - nleft + 1 /\ first + (bufp + k) - 1 = Delivered - nleft + k
      BY <1>1, <1>2, <1>3
    <2> HIDE DEF first, bufp
    <2>4. SubSeq(Bytes(first, Delivered), bufp + 1, bufp + k)
            = Bytes(first + (bufp + 1) - 1, first + (bufp + k) - 1)
      BY <2>2, BytesPart
    <2> QED BY <2>1, <2>3, <2>4
  <1>5. sent' = Bytes(1, Delivered - nleft + k) /\ sent' \in Seq(1 .. N)
    <2>1. sent = Bytes(1, Delivered - nleft)
      BY <1>2 DEF IInv, SentAll
    <2>2. /\ 1 \in Nat \ {0} /\ Delivered - nleft \in Nat /\ Delivered - nleft + k \in Nat
          /\ 1 <= (Delivered - nleft) + 1 /\ Delivered - nleft <= Delivered - nleft + k
          /\ Delivered - nleft + k <= N /\ 1 <= (Delivered - nleft + k) + 1
      BY <1>1, <1>2, <1>3, Sizes
    <2>3. Bytes(1, Delivered - nleft) \o Bytes(Delivered - nleft + 1, Delivered - nleft + k)
            = Bytes(1, Delivered - nleft + k)
      BY <2>2, BytesJoin
    <2>4. Bytes(1, Delivered - nleft + k) \in Seq(1 .. N)
      BY <2>2, BytesAre
    <2> QED BY <1>1, <1>4, <2>1, <2>3, <2>4
  <1>6. nleft' \in Nat /\ (at' = "write" => nleft' \in 1 .. Len(usr))
    BY <1>1, <1>2, <1>3
  <1>7. SentAll'
    <2>1. Delivered' - Pending' = Delivered - nleft + k
      <3>1. at' = "write" => Pending' = nleft - k
        BY <1>1, <1>2 DEF Pending
      <3>2. at' # "write" => Pending' = 0 /\ k = nleft
        BY <1>1, <1>2 DEF Pending
      <3> QED BY <1>2, <1>3, <3>1, <3>2
    <2> QED BY <1>5, <2>1 DEF SentAll
  <1>8. TypeOK'
    BY <1>1, <1>5, <1>6 DEF IInv, TypeOK
  <1>9. InBuffer' /\ InCall'
    BY <1>1, <1>3 DEF IInv, InBuffer, InCall
  <1>10. Asked' /\ Alone'
    BY <1>1, <1>2, <1>6 DEF IInv, Asked, Alone
  <1> QED BY <1>7, <1>8, <1>9, <1>10 DEF IInv

LEMMA StepQuiet == IInv /\ (Interrupted \/ Reset \/ UNCHANGED vars) => IInv'
  <1> SUFFICES ASSUME IInv, Interrupted \/ Reset \/ UNCHANGED vars PROVE IInv'
    OBVIOUS
  <1>1. /\ UNCHANGED <<newlines, caller, at, rio_cnt, rio_bufptr, rio_buf, pos, usr, nleft, got, sent>>
        /\ \/ interrupts < MaxInterrupts /\ interrupts' = interrupts + 1 /\ up' = up
           \/ interrupts' = interrupts /\ (up' = up \/ up' = FALSE)
    <2>1. CASE Interrupted
      BY <2>1 DEF Interrupted, rio
    <2>2. CASE Reset
      BY <2>2 DEF Reset, rio
    <2>3. CASE UNCHANGED vars
      BY <2>3 DEF vars, rio
    <2> QED BY <2>1, <2>2, <2>3
  <1>2. TypeOK'
    <2>1. interrupts' \in 0 .. MaxInterrupts
      BY <1>1, Sizes DEF IInv, TypeOK
    <2>2. up' \in BOOLEAN
      <3>1. up \in BOOLEAN /\ (up' = up \/ up' = FALSE)
        BY <1>1 DEF IInv, TypeOK
      <3> QED BY <3>1, Zenon
    <2> QED BY <1>1, <2>1, <2>2 DEF IInv, TypeOK
  <1>3. Delivered' = Delivered /\ Cnt' = Cnt
    BY <1>1 DEF Delivered, Cnt
  <1>4. InBuffer' /\ Alone'
    BY <1>1, <1>3 DEF IInv, InBuffer, Alone, Reading, Buffered
  <1>5. InCall' /\ SentAll' /\ Asked'
    BY <1>1, <1>3, Frame
  <1> QED BY <1>2, <1>4, <1>5 DEF IInv

LEMMA StepIInv == IInv /\ [Next]_vars => IInv'
  BY StepCall, StepRefill, StepRefillInterrupted, StepEOF, StepCopyByte, StepCopyBlock,
     StepReadInto, StepWrite, StepQuiet, Zenon DEF Next, Progress, Signal

LEMMA Invariance == Spec => []IInv
  BY InitIInv, StepIInv, PTL DEF Spec

-----------------------------------------------------------------------------
(* What the run checks                                                      *)

LEMMA NextByteIs == IInv => NextByte = Delivered - (IF Reading THEN Len(usr) ELSE 0) + 1
  <1> SUFFICES ASSUME IInv PROVE NextByte = Delivered - (IF Reading THEN Len(usr) ELSE 0) + 1
    OBVIOUS
  <1>1. rio_cnt \in Int /\ pos \in Int
    BY Sizes DEF IInv, TypeOK
  <1>2. Max({rio_cnt, 0}) = Cnt
    BY <1>1, MaxOfTwo DEF Cnt
  <1> QED BY <1>2 DEF NextByte, Delivered

LEMMA InPlace == IInv => BytesInPlace
  <1> SUFFICES ASSUME IInv PROVE BytesInPlace
    OBVIOUS
  <1>1. /\ Cnt \in 0 .. BufSize /\ Delivered \in 0 .. N /\ Len(usr) \in 0 .. Delivered
        /\ Cnt = (IF rio_cnt > 0 THEN rio_cnt ELSE 0) /\ pos = Delivered + Cnt
    BY Known
  <1>2. Max({rio_cnt, 0}) = Cnt
    <2>1. rio_cnt \in Int
      BY Sizes DEF IInv, TypeOK
    <2> QED BY <2>1, MaxOfTwo DEF Cnt
  <1>3. Cnt > 0 => rio_bufptr + Cnt <= BufSize /\ Taken(Cnt) = Abstract!Bytes(pos - Cnt + 1, pos)
    <2> SUFFICES ASSUME Cnt > 0
                 PROVE  rio_bufptr + Cnt <= BufSize /\ Taken(Cnt) = Abstract!Bytes(pos - Cnt + 1, pos)
      OBVIOUS
    <2>1. /\ Cnt = rio_cnt /\ rio_bufptr + rio_cnt <= BufSize /\ rio_bufptr \in Nat
          /\ \A k \in 0 .. rio_cnt - 1 : rio_buf[rio_bufptr + k] = Delivered + 1 + k
      BY <1>1 DEF IInv, TypeOK, InBuffer
    <2>2. \A k \in 1 .. Cnt : rio_buf[rio_bufptr + k - 1] = Delivered + k
      <3> TAKE k \in 1 .. Cnt
      <3>1. k - 1 \in 0 .. rio_cnt - 1 /\ rio_bufptr + (k - 1) = rio_bufptr + k - 1
        BY <1>1, <2>1, Sizes
      <3>2. rio_buf[rio_bufptr + (k - 1)] = Delivered + 1 + (k - 1)
        BY <2>1, <3>1
      <3> QED BY <1>1, <3>1, <3>2
    <2>3. pos - (pos - Cnt + 1) + 1 = Cnt /\ \A k \in 1 .. Cnt : (pos - Cnt + 1) + k - 1 = Delivered + k
      BY <1>1
    <2>4. Taken(Cnt) = Abstract!Bytes(pos - Cnt + 1, pos)
      BY <2>2, <2>3 DEF Taken, Abstract!Bytes
    <2> QED BY <2>1, <2>4
  <1>4. Reading => usr = Abstract!Bytes(NextByte, pos - Cnt)
    <2> SUFFICES ASSUME Reading PROVE usr = Abstract!Bytes(NextByte, pos - Cnt)
      OBVIOUS
    <2>1. NextByte = Delivered - Len(usr) + 1
      BY NextByteIs
    <2>2. usr = Bytes(Delivered - Len(usr) + 1, Delivered)
      BY DEF IInv, InCall
    <2> QED BY <2>1, <2>2 DEF Bytes, Delivered
  <1>5. sent = Abstract!Bytes(1, NextByte - 1 - (IF at = "write" THEN nleft ELSE 0))
    <2>1. NextByte - 1 - (IF at = "write" THEN nleft ELSE 0) = Delivered - Pending
      <3>1. NextByte = Delivered - (IF Reading THEN Len(usr) ELSE 0) + 1
        BY NextByteIs
      <3>2. at = "write" => ~Reading
        BY DEF Reading, Buffered
      <3>3. nleft \in Nat
        BY DEF IInv, TypeOK
      <3>4. CASE Reading
        BY <1>1, <3>1, <3>2, <3>4 DEF Pending
      <3>5. CASE ~Reading /\ at = "write"
        BY <1>1, <3>1, <3>3, <3>5 DEF Pending
      <3>6. CASE ~Reading /\ at # "write"
        BY <1>1, <3>1, <3>6 DEF Pending
      <3> QED BY <3>4, <3>5, <3>6
    <2> QED BY <2>1 DEF IInv, SentAll, Bytes
  <1> QED BY <1>2, <1>3, <1>4, <1>5 DEF BytesInPlace

\* csapp.c, rio_read, rio_readnb, rio_readlineb, rio_readn and rio_writen: however read() and
\* write() cut the stream, and whatever interrupts them, the counters of rio_t and of the calls
\* say where the bytes are, and none is lost, repeated or sent out of its place.
THEOREM BytesAreInPlace == Spec => []ReadInv
  <1>1. IInv => ReadInv
    BY InPlace DEF IInv, ReadInv
  <1> QED BY <1>1, Invariance, PTL

-----------------------------------------------------------------------------
(* The refinement                                                           *)

LEMMA NextByteWillBe ==
    ASSUME IInv'
    PROVE  NextByte' = Delivered' - (IF Reading' THEN Len(usr') ELSE 0) + 1
  <1>1. rio_cnt' \in Int /\ pos' \in Int
    BY Sizes DEF IInv, TypeOK
  <1>2. Max({rio_cnt', 0}) = Cnt'
    BY <1>1, MaxOfTwo DEF Cnt
  <1> QED BY <1>2 DEF NextByte, Delivered

\* A call that returns does so at the end of what it has taken.
LEMMA ReturnMaps ==
    ASSUME IInv, IInv', Reading, NEW r, Return(r), UNCHANGED newlines,
           Delivered' - Len(r) = Delivered - Len(usr)
    PROVE  Abstract!Return(Delivered')
  <1>1. /\ Delivered \in 0 .. N /\ Len(usr) \in 0 .. Delivered
        /\ Delivered' \in Int /\ Len(r) \in Int /\ usr' = r
    <2>1. usr' = r /\ r \in Seq(1 .. N)
      BY DEF Return, IInv, TypeOK
    <2>2. Len(r) \in Int
      BY <2>1, LenProperties
    <2>3. Delivered' \in Int
      <3>1. pos' \in 0 .. N /\ rio_cnt' \in -1 .. BufSize
        BY DEF IInv, TypeOK
      <3>2. Cnt' \in Int
        BY <3>1, Sizes DEF Cnt
      <3> QED BY <3>1, <3>2, Sizes DEF Delivered
    <2> QED BY <2>1, <2>2, <2>3, Known
  <1>2. ~Reading'
    BY DEF Return, Reading, Buffered
  <1>3. NextByte = Delivered - Len(usr) + 1 /\ NextByte' = Delivered' + 1
    BY <1>1, <1>2, NextByteIs, NextByteWillBe
  <1>4. r = Bytes(Delivered' - Len(r) + 1, Delivered')
    BY <1>1 DEF IInv, InCall
  <1>5. got' = Append(got, Abstract!Bytes(NextByte, Delivered'))
    BY <1>1, <1>3, <1>4 DEF Return, Bytes
  <1> QED BY <1>3, <1>5 DEF Abstract!Return

\* The byte that ends a line, or the end of the stream, is the first that can.
LEMMA LineEnds ==
    ASSUME IInv, at = "readlineb", NEW e,
           \/ e = Delivered + 1 /\ e <= N /\ (e \in newlines \/ nleft = 1)
           \/ e = Delivered /\ e = N
    PROVE  Abstract!LineEnd = e
  <1>1. /\ Delivered \in 0 .. N /\ Len(usr) \in 0 .. Delivered
        /\ NextByte = Delivered - Len(usr) + 1
    BY Known, NextByteIs DEF Reading, Buffered
  <1>2. /\ nleft \in Nat /\ nleft >= 1 /\ Len(usr) + nleft = MaxLine - 1
        /\ \A k \in 1 .. Len(usr) : usr[k] \notin newlines
    BY DEF IInv, TypeOK, Asked
  <1>3. \A x \in NextByte .. Delivered : x \notin newlines
    <2> TAKE x \in NextByte .. Delivered
    <2>1. usr = Bytes(NextByte, Delivered)
      BY <1>1 DEF IInv, InCall
    <2>2. x - NextByte + 1 \in 1 .. Len(usr) /\ x - NextByte + 1 \in 1 .. Delivered - NextByte + 1
          /\ NextByte + (x - NextByte + 1) - 1 = x
      BY <1>1, Sizes
    <2>3. usr[x - NextByte + 1] = x
      <3>1. NextByte \in Nat \ {0} /\ Delivered \in Nat /\ NextByte <= Delivered + 1 /\ Delivered <= N
        BY <1>1, Sizes
      <3>2. \A k \in 1 .. Delivered - NextByte + 1 : Bytes(NextByte, Delivered)[k] = NextByte + k - 1
        BY <3>1, BytesAre
      <3> QED BY <2>1, <2>2, <3>2
    <2> QED BY <1>2, <2>2, <2>3
  <1> DEFINE S == {b \in NextByte .. N : b \in newlines \/ b = NextByte + MaxLine - 2} \cup {N}
  <1>4. NextByte + MaxLine - 2 = Delivered + nleft
    <2>1. MaxLine \in Nat
      BY Sizes
    <2> QED BY <1>1, <1>2, <2>1
  <1>5. e \in S
    <2>1. CASE e = N
      BY <2>1
    <2>2. CASE e = Delivered + 1 /\ e <= N /\ (e \in newlines \/ nleft = 1)
      <3>1. e \in NextByte .. N
        BY <1>1, <2>2, Sizes
      <3>2. e \in newlines \/ e = NextByte + MaxLine - 2
        BY <1>4, <2>2
      <3> QED BY <3>1, <3>2
    <2> QED BY <2>1, <2>2
  <1>6. S \subseteq Int /\ \A x \in S : e <= x
    <2>1. S \subseteq Int
      BY <1>1, Sizes
    <2>2. ASSUME NEW x \in S PROVE e <= x
      <3>1. CASE x = N
        BY <1>1, <3>1, Sizes
      <3>2. CASE x \in NextByte .. N /\ (x \in newlines \/ x = Delivered + nleft)
        <4>1. x > Delivered
          BY <1>1, <1>2, <1>3, <3>2, Sizes
        <4> QED BY <1>1, <3>2, <4>1, Sizes
      <3> QED BY <1>4, <3>1, <3>2
    <2> QED BY <2>1, <2>2
  <1> HIDE DEF S
  <1>7. Abstract!Min(S) = e
    BY <1>5, <1>6, MinIs
  <1> QED BY <1>7 DEF S, Abstract!LineEnd

\* So is the byte that ends a read.
LEMMA ReadEnds ==
    ASSUME IInv, at \in {"readnb", "readn"}, NEW e,
           \/ e = Delivered + nleft /\ e <= N
           \/ e = Delivered /\ e = N
    PROVE  \E n \in ReadSizes : e = Abstract!Min({NextByte + n - 1, N})
  <1> DEFINE n == Len(usr) + nleft
             S == {NextByte + n - 1, N}
  <1>1. /\ Delivered \in 0 .. N /\ Len(usr) \in 0 .. Delivered
        /\ NextByte = Delivered - Len(usr) + 1
    BY Known, NextByteIs DEF Reading, Buffered
  <1>2. nleft \in Nat /\ nleft >= 1 /\ n \in ReadSizes
    BY DEF IInv, TypeOK, Asked
  <1>3. NextByte + n - 1 = Delivered + nleft
    BY <1>1, <1>2
  <1>4. e \in S /\ S \subseteq Int /\ \A x \in S : e <= x
    <2> HIDE DEF n
    <2> QED BY <1>1, <1>2, <1>3, Sizes
  <1> HIDE DEF S
  <1>5. Abstract!Min(S) = e
    BY <1>4, MinIs
  <1> QED BY <1>2, <1>5 DEF S

LEMMA CopyByteMaps ==
    ASSUME IInv, IInv', CopyByte
    PROVE  [Abstract!Next]_(Abstract!vars)
  <1> DEFINE c == rio_buf[rio_bufptr]
             r == Append(usr, c)
  <1>1. /\ at = "readlineb" /\ Reading /\ rio_cnt > 0 /\ rio_cnt' = rio_cnt - 1
        /\ pos' = pos /\ newlines' = newlines
        /\ \/ (c \in newlines \/ nleft = 1) /\ Return(r)
           \/ ~(c \in newlines \/ nleft = 1) /\ KeepReading(r, nleft - 1)
    BY DEF CopyByte, Consume, Reading, Buffered
  <1>2. /\ rio_cnt \in 1 .. BufSize /\ Delivered = pos - rio_cnt /\ Delivered' = Delivered + 1
        /\ pos \in 0 .. N /\ Delivered + 1 <= N
    <2>1. rio_cnt \in 1 .. BufSize /\ pos \in 0 .. N
      BY <1>1, Sizes DEF IInv, TypeOK
    <2>2. Cnt = rio_cnt /\ Cnt' = rio_cnt - 1
      BY <1>1, <2>1 DEF Cnt
    <2> QED BY <1>1, <2>1, <2>2, Sizes DEF Delivered
  <1>3. c = Delivered + 1
    <2>1. /\ rio_bufptr \in 0 .. BufSize
          /\ \A k \in 0 .. rio_cnt - 1 : rio_buf[rio_bufptr + k] = Delivered + 1 + k
      BY <1>1 DEF IInv, TypeOK, InBuffer
    <2>2. 0 \in 0 .. rio_cnt - 1 /\ rio_bufptr + 0 = rio_bufptr
      BY <1>2, <2>1, Sizes
    <2>3. rio_buf[rio_bufptr + 0] = Delivered + 1 + 0
      BY <2>1, <2>2
    <2> QED BY <1>2, <2>2, <2>3
  <1>4. Len(r) = Len(usr) + 1 /\ Len(usr) \in Nat
    <2>1. usr \in Seq(1 .. N) /\ c \in 1 .. N
      <3>1. Delivered \in 0 .. N
        BY Known
      <3> QED BY <1>2, <1>3, <3>1, Sizes DEF IInv, TypeOK
    <2> HIDE DEF c
    <2> QED BY <2>1, AppendProperties, LenProperties DEF r
  <1> HIDE DEF c, r
  <1>5. CASE (c \in newlines \/ nleft = 1) /\ Return(r)
    <2>1. Abstract!Return(Delivered')
      <3>1. Delivered' - Len(r) = Delivered - Len(usr)
        BY <1>2, <1>4
      <3> QED BY <1>1, <1>5, <3>1, ReturnMaps
    <2>2. Abstract!LineEnd = Delivered + 1
      BY <1>1, <1>2, <1>3, <1>5, LineEnds
    <2> QED BY <1>2, <2>1, <2>2 DEF Abstract!Next, Abstract!ReadLine
  <1>6. CASE KeepReading(r, nleft - 1)
    <2>1. usr' = r /\ at' = at /\ got' = got
      BY <1>6 DEF KeepReading
    <2>2. Reading'
      BY <1>1, <2>1 DEF Reading, Buffered
    <2>3. NextByte' = NextByte
      BY <1>1, <1>2, <1>4, <2>1, <2>2, NextByteIs, NextByteWillBe
    <2> QED BY <1>1, <2>1, <2>3 DEF Abstract!vars
  <1> QED BY <1>1, <1>5, <1>6

LEMMA CopyBlockMaps ==
    ASSUME IInv, IInv', CopyBlock
    PROVE  [Abstract!Next]_(Abstract!vars)
  <1>0. nleft \in Nat /\ rio_cnt \in -1 .. BufSize /\ nleft >= 1 /\ rio_cnt > 0 /\ pos \in 0 .. N
    BY DEF IInv, TypeOK, Asked, CopyBlock
  <1> DEFINE m == IF nleft <= rio_cnt THEN nleft ELSE rio_cnt
             r == usr \o Taken(m)
  <1>1. /\ at = "readnb" /\ Reading /\ rio_cnt' = rio_cnt - m /\ pos' = pos /\ newlines' = newlines
        /\ \/ m = nleft /\ Return(r)
           \/ m # nleft /\ KeepReading(r, nleft - m)
    <2>1. Min({nleft, rio_cnt}) = m
      BY <1>0, MinOfTwo, Sizes
    <2> QED BY <2>1 DEF CopyBlock, Consume, Reading, Buffered
  <1>2. m \in 1 .. rio_cnt /\ rio_cnt \in Nat
    BY <1>0, Sizes
  <1>3. Delivered \in Int /\ Delivered' = Delivered + m /\ Delivered + m <= N
    <2> HIDE DEF m
    <2>1. Cnt = rio_cnt /\ Cnt' = rio_cnt - m
      BY <1>0, <1>1, <1>2 DEF Cnt
    <2> QED BY <1>0, <1>1, <1>2, <2>1, Sizes DEF Delivered
  <1>4. Len(r) = Len(usr) + m /\ Len(usr) \in Nat
    <2>1. usr' = r /\ r \in Seq(1 .. N)
      BY <1>1 DEF Return, KeepReading, IInv, TypeOK
    <2>2. rio_bufptr + rio_cnt <= BufSize /\ rio_bufptr \in Nat /\ rio_buf \in [0 .. BufSize - 1 -> 0 .. N]
      BY <1>0 DEF IInv, TypeOK, InBuffer
    <2> HIDE DEF m
    <2>3. \A k \in 1 .. m : rio_buf[rio_bufptr + k - 1] \in 0 .. N
      <3> TAKE k \in 1 .. m
      <3>1. rio_bufptr + k - 1 \in 0 .. BufSize - 1
        BY <1>0, <1>2, <2>2, Sizes
      <3> QED BY <2>2, <3>1
    <2>4. Taken(m) \in [1 .. m -> 0 .. N] /\ m \in Nat
      BY <1>2, <2>3 DEF Taken
    <2>5. Taken(m) \in Seq(0 .. N)
      BY <2>4, SeqDef
    <2>6. Len(Taken(m)) = m
      BY <2>4, <2>5, LenProperties
    <2>7. usr \in Seq(0 .. N) /\ Len(usr) \in Nat
      <3>1. usr \in Seq(1 .. N) /\ (1 .. N) \subseteq (0 .. N)
        BY Sizes DEF IInv, TypeOK
      <3> QED BY <3>1, SeqMonotonic, LenProperties
    <2>8. Len(usr \o Taken(m)) = Len(usr) + Len(Taken(m))
      BY <2>5, <2>7, ConcatProperties
    <2> QED BY <2>6, <2>7, <2>8
  <1> HIDE DEF m, r
  <1>5. CASE m = nleft /\ Return(r)
    <2>1. Abstract!Return(Delivered')
      <3>1. Delivered' - Len(r) = Delivered - Len(usr)
        BY <1>2, <1>3, <1>4
      <3> QED BY <1>1, <1>5, <3>1, ReturnMaps
    <2>2. \E n \in ReadSizes : Delivered' = Abstract!Min({NextByte + n - 1, N})
      BY <1>1, <1>3, <1>5, ReadEnds
    <2> QED BY <2>1, <2>2 DEF Abstract!Next, Abstract!Read
  <1>6. CASE KeepReading(r, nleft - m)
    <2>1. usr' = r /\ at' = at /\ got' = got
      BY <1>6 DEF KeepReading
    <2>2. Reading'
      BY <1>1, <2>1 DEF Reading, Buffered
    <2>3. NextByte' = NextByte
      BY <1>1, <1>2, <1>3, <1>4, <2>1, <2>2, NextByteIs, NextByteWillBe
    <2> QED BY <1>1, <2>1, <2>3 DEF Abstract!vars
  <1> QED BY <1>1, <1>5, <1>6

LEMMA ReadIntoMaps ==
    ASSUME IInv, IInv', NEW k \in 1 .. N, ReadInto(k)
    PROVE  [Abstract!Next]_(Abstract!vars)
  <1> DEFINE r == usr \o [b \in 1 .. k |-> pos + b]
  <1>1. /\ at = "readn" /\ Reading /\ k <= nleft /\ pos + k <= N /\ pos' = pos + k
        /\ rio_cnt' = rio_cnt /\ newlines' = newlines
        /\ \/ k = nleft /\ Return(r)
           \/ k # nleft /\ KeepReading(r, nleft - k)
    BY DEF ReadInto, Reading
  <1>2. Cnt = 0 /\ Cnt' = 0 /\ pos \in 0 .. N /\ nleft \in Nat
    <2>1. rio_cnt = 0
      BY <1>1 DEF IInv, Alone
    <2> QED BY <1>1, <2>1 DEF Cnt, IInv, TypeOK
  <1>3. Delivered \in Nat /\ Delivered' = Delivered + k /\ Delivered + k <= N
    BY <1>1, <1>2, Sizes DEF Delivered
  <1>4. Len(r) = Len(usr) + k /\ Len(usr) \in Nat
    <2> DEFINE t == [b \in 1 .. k |-> pos + b]
    <2>1. t \in [1 .. k -> 1 .. N] /\ k \in Nat
      BY <1>1, <1>2, Sizes
    <2> HIDE DEF t
    <2>2. t \in Seq(1 .. N)
      BY <2>1, SeqDef
    <2>3. Len(t) = k
      BY <2>1, <2>2, LenProperties
    <2>4. usr \in Seq(1 .. N) /\ Len(usr) \in Nat
      BY LenProperties DEF IInv, TypeOK
    <2>5. Len(usr \o t) = Len(usr) + Len(t)
      BY <2>2, <2>4, ConcatProperties
    <2> QED BY <2>3, <2>4, <2>5 DEF t
  <1> HIDE DEF r
  <1>5. CASE k = nleft /\ Return(r)
    <2>1. Abstract!Return(Delivered')
      <3>1. Delivered' - Len(r) = Delivered - Len(usr)
        BY <1>3, <1>4
      <3> QED BY <1>1, <1>5, <3>1, ReturnMaps
    <2>2. \E n \in ReadSizes : Delivered' = Abstract!Min({NextByte + n - 1, N})
      BY <1>1, <1>3, <1>5, ReadEnds
    <2> QED BY <2>1, <2>2 DEF Abstract!Next, Abstract!Read
  <1>6. CASE KeepReading(r, nleft - k)
    <2>1. usr' = r /\ at' = at /\ got' = got
      BY <1>6 DEF KeepReading
    <2>2. Reading'
      BY <1>1, <2>1 DEF Reading, Buffered
    <2>3. NextByte' = NextByte
      BY <1>1, <1>3, <1>4, <2>1, <2>2, NextByteIs, NextByteWillBe
    <2> QED BY <1>1, <2>1, <2>3 DEF Abstract!vars
  <1> QED BY <1>1, <1>5, <1>6

LEMMA EOFMaps ==
    ASSUME IInv, IInv', RefillEOF \/ ReadIntoEOF
    PROVE  [Abstract!Next]_(Abstract!vars)
  <1>1. /\ Reading /\ pos = N /\ Return(usr) /\ pos' = pos /\ newlines' = newlines
        /\ rio_cnt <= 0 /\ rio_cnt' <= 0
    <2>1. CASE RefillEOF
      BY <2>1 DEF RefillEOF, Reading
    <2>2. CASE ReadIntoEOF
      <3>1. at = "readn" /\ Reading
        BY <2>2 DEF ReadIntoEOF, Reading
      <3>2. rio_cnt = 0
        BY <3>1 DEF IInv, Alone
      <3> QED BY <2>2, <3>1, <3>2 DEF ReadIntoEOF, rio
    <2> QED BY <2>1, <2>2
  <1>2. Delivered = N /\ Delivered' = Delivered
    <2>1. rio_cnt \in Int /\ rio_cnt' \in Int
      BY Sizes DEF IInv, TypeOK
    <2>2. Cnt = 0 /\ Cnt' = 0
      BY <1>1, <2>1 DEF Cnt
    <2> QED BY <1>1, <2>2, Sizes DEF Delivered
  <1>3. Abstract!Return(Delivered')
    BY <1>1, <1>2, ReturnMaps
  <1>4. CASE at = "readlineb"
    <2>1. Abstract!LineEnd = Delivered'
      BY <1>2, <1>4, LineEnds
    <2> QED BY <1>3, <2>1 DEF Abstract!Next, Abstract!ReadLine
  <1>5. CASE at \in {"readnb", "readn"}
    <2>1. \E n \in ReadSizes : Delivered' = Abstract!Min({NextByte + n - 1, N})
      BY <1>2, <1>5, ReadEnds
    <2> QED BY <1>3, <2>1 DEF Abstract!Next, Abstract!Read
  <1> QED BY <1>1, <1>4, <1>5 DEF Reading, Buffered

\* What else happens does not show in what the calls return.
LEMMA OthersStutter ==
    ASSUME IInv, IInv',
           \/ CallLine \/ \E n \in ReadSizes : CallRead(n)
           \/ \E k \in 1 .. N : Refill(k) \/ Write(k)
           \/ RefillInterrupted \/ Interrupted \/ Reset \/ UNCHANGED vars
    PROVE  UNCHANGED Abstract!vars
  <1>1. newlines' = newlines /\ got' = got
    BY DEF CallLine, CallRead, Call, Refill, Write, RefillInterrupted, Interrupted, Reset, vars
  <1>2. ASSUME Delivered' = Delivered, Reading' = Reading, Reading => usr' = usr
        PROVE  NextByte' = NextByte
    BY <1>2, NextByteIs, NextByteWillBe
  <1>3. CASE CallLine \/ \E n \in ReadSizes : CallRead(n)
    <2>1. at = "idle" /\ usr' = <<>> /\ rio_cnt' = rio_cnt /\ pos' = pos
      BY <1>3 DEF CallLine, CallRead, Call, rio
    <2>2. Delivered' = Delivered /\ Delivered \in Int
      BY <2>1, Known DEF Delivered, Cnt
    <2>3. ~Reading
      BY <2>1 DEF Reading, Buffered
    <2>4. Len(usr') = 0
      BY <2>1, EmptySeq
    <2> QED BY <1>1, <2>2, <2>3, <2>4, NextByteIs, NextByteWillBe DEF Abstract!vars
  <1>4. ASSUME NEW k \in 1 .. N, Refill(k) PROVE NextByte' = NextByte
    <2>1. rio_cnt \in Int /\ rio_cnt <= 0 /\ rio_cnt' = k /\ pos' = pos + k /\ pos \in Int
      BY <1>4, Sizes DEF Refill, IInv, TypeOK
    <2>2. Cnt = 0 /\ Cnt' = k
      BY <2>1 DEF Cnt
    <2>3. Delivered' = Delivered
      BY <2>1, <2>2 DEF Delivered
    <2>4. at' = at /\ usr' = usr
      BY <1>4 DEF Refill
    <2> QED BY <1>2, <2>3, <2>4 DEF Reading, Buffered
  <1>5. ASSUME NEW k \in 1 .. N, Write(k) PROVE NextByte' = NextByte
    <2>1. /\ at = "write" /\ at' \in {"idle", "write"} /\ rio_cnt' = rio_cnt /\ pos' = pos
          /\ usr' = usr
      BY <1>5 DEF Write, rio
    <2>2. Delivered' = Delivered /\ ~Reading /\ ~Reading'
      BY <2>1 DEF Delivered, Cnt, Reading, Buffered
    <2> QED BY <2>2, NextByteIs, NextByteWillBe
  <1>6. CASE RefillInterrupted
    <2>1. /\ rio_cnt \in Int /\ rio_cnt <= 0 /\ rio_cnt' = -1 /\ pos' = pos /\ at' = at /\ usr' = usr
      BY <1>6, Sizes DEF RefillInterrupted, IInv, TypeOK
    <2>2. Cnt = 0 /\ Cnt' = 0
      BY <2>1 DEF Cnt
    <2>3. Delivered' = Delivered
      BY <2>1, <2>2 DEF Delivered
    <2> QED BY <1>1, <1>2, <2>1, <2>3 DEF Reading, Buffered, Abstract!vars
  <1>7. CASE Interrupted \/ Reset \/ UNCHANGED vars
    <2>1. rio_cnt' = rio_cnt /\ pos' = pos /\ at' = at /\ usr' = usr
      <3>1. CASE Interrupted
        BY <3>1 DEF Interrupted, rio
      <3>2. CASE Reset
        BY <3>2 DEF Reset, rio
      <3>3. CASE UNCHANGED vars
        BY <3>3 DEF vars, rio
      <3> QED BY <1>7, <3>1, <3>2, <3>3
    <2>2. Delivered' = Delivered
      BY <2>1 DEF Delivered, Cnt
    <2> QED BY <1>1, <1>2, <2>1, <2>2 DEF Reading, Buffered, Abstract!vars
  <1> QED BY <1>1, <1>3, <1>4, <1>5, <1>6, <1>7 DEF Abstract!vars

\* csapp.c: rio_readlineb returns a line or MAXLINE - 1 bytes of one, rio_readnb and rio_readn the
\* bytes asked for, and fewer only at the end of the stream; refills, short counts and interrupts
\* are steps of the stream that do not show.
THEOREM Refinement == Spec => ImplementsStream
  <1>1. Init => Abstract!Init
    <2> SUFFICES ASSUME Init PROVE Abstract!Init
      OBVIOUS
    <2>1. NextByte = 1
      BY InitIInv, NextByteIs DEF Init, Delivered, Cnt, Reading, Buffered
    <2> QED BY <2>1 DEF Init, Abstract!Init
  <1>2. IInv /\ IInv' /\ [Next]_vars => [Abstract!Next]_(Abstract!vars)
    BY CopyByteMaps, CopyBlockMaps, ReadIntoMaps, EOFMaps, OthersStutter, Zenon
       DEF Next, Progress, Signal
  <1> QED BY <1>1, <1>2, Invariance, PTL DEF Spec, ImplementsStream, Abstract!Spec
=============================================================================
