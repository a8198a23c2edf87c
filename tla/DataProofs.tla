----------------------------- MODULE DataProofs -----------------------------
(***************************************************************************)
(* Proofs about the parts that are data: about SafeBuffer, that a careful  *)
(* user's bytes never run over a block, that a zero byte follows them, and *)
(* that the read offset stays within them, for every width of an unsigned  *)
(* long and every size of a block that BufferAssumption allows; and about  *)
(* UvErrno, that no error code is taken for another, for any number of     *)
(* units, whichever macros each of them misses.                            *)
(***************************************************************************)
EXTENDS SafeBuffer, UvErrno, TLAPS

-----------------------------------------------------------------------------
(* Unsigned arithmetic.                                                    *)

LEMMA WrapInRange ==
  ASSUME NEW n \in Int
  PROVE  /\ Wrap(n) \in Size
         /\ 0 <= n /\ n < ULONG => Wrap(n) = n
<1>1. ULONG \in Nat /\ ULONG > 0
  BY BufferAssumption
<1> QED BY <1>1 DEF Wrap, Size

\* RoundUp is above its argument, by no more than a block.
LEMMA RoundUpBounds ==
  ASSUME NEW len \in Nat, len + DEFAULT_BUFFER_LEN < ULONG
  PROVE  /\ RoundUp(len) \in Nat
         /\ len < RoundUp(len) /\ RoundUp(len) <= len + DEFAULT_BUFFER_LEN
<1> DEFINE q == len \div DEFAULT_BUFFER_LEN
<1>1. DEFAULT_BUFFER_LEN \in Nat /\ DEFAULT_BUFFER_LEN > 0 /\ ULONG \in Nat
  BY BufferAssumption
<1>2. q \in Nat /\ q * DEFAULT_BUFFER_LEN <= len
                /\ len < q * DEFAULT_BUFFER_LEN + DEFAULT_BUFFER_LEN
  BY <1>1, SMTT(30)
<1> HIDE DEF q
<1>3. (q + 1) * DEFAULT_BUFFER_LEN = q * DEFAULT_BUFFER_LEN + DEFAULT_BUFFER_LEN
  BY <1>1, <1>2
<1>4. PICK m \in Int : m = q * DEFAULT_BUFFER_LEN
  BY <1>1, <1>2
<1>5. Wrap((q + 1) * DEFAULT_BUFFER_LEN) = m + DEFAULT_BUFFER_LEN
  BY <1>1, <1>2, <1>3, <1>4, WrapInRange
<1>6. RoundUp(len) = m + DEFAULT_BUFFER_LEN
  BY <1>5 DEF RoundUp, q
<1> QED BY <1>1, <1>2, <1>4, <1>6

-----------------------------------------------------------------------------
(* What the operations do to a buffer within its bounds.                   *)

Members == [mem : BOOLEAN, bufferlen : Size, datalen : Size, offset : Size, tail : Tail]

\* The data fit in the block with a byte to spare, and another block may be
\* added to their length.
Good(b) ==
  /\ b \in Members
  /\ b.datalen <= b.bufferlen
  /\ b.datalen > 0 => b.mem /\ b.datalen < b.bufferlen
  /\ b.datalen + DEFAULT_BUFFER_LEN < ULONG

Within(o) == ~o.over /\ Good(o.buf)

\* An operation that makes c of b touches neither what follows the data, but
\* to clear it, nor the offset, but to reset it; data go when memory does.
KeepsTail(b, c) == c.tail \in {"zero", b.tail}
KeepsOffset(b, c) ==
  \/ c.offset = 0
  \/ c.offset = b.offset /\ (c.mem \/ ~b.mem => b.datalen <= c.datalen)
Keeps(b, c) == KeepsTail(b, c) /\ KeepsOffset(b, c)

LEMMA Numbers ==
  /\ ULONG \in Nat /\ DEFAULT_BUFFER_LEN \in Nat /\ 0 \in Size
  /\ DEFAULT_BUFFER_LEN < ULONG
  /\ \A n : n \in Size <=> n \in Nat /\ n < ULONG
BY BufferAssumption DEF Size

LEMMA EmptyIsGood ==
  ASSUME NEW len \in Size, NEW offset \in Size
  PROVE  /\ Good(Block(len, offset)) /\ Good(Null(offset))
         /\ Good([Block(len, offset) EXCEPT !.tail = "garbage"])
<1>1. 0 <= len /\ 0 \in Size /\ 0 + DEFAULT_BUFFER_LEN < ULONG
  BY Numbers
<1>2. /\ Block(len, offset) \in Members /\ Null(offset) \in Members
      /\ [Block(len, offset) EXCEPT !.tail = "garbage"] \in Members
  BY <1>1 DEF Members, Block, Null, Tail
<1>3. /\ Block(len, offset).datalen = 0 /\ Block(len, offset).bufferlen = len
      /\ Null(offset).datalen = 0 /\ Null(offset).bufferlen = 0
  BY DEF Block, Null
<1>4. /\ [Block(len, offset) EXCEPT !.tail = "garbage"].datalen = 0
      /\ [Block(len, offset) EXCEPT !.tail = "garbage"].bufferlen = len
  BY DEF Block
<1>5. 0 <= 0
  OBVIOUS
<1>6. ~(0 > 0)
  OBVIOUS
<1> QED BY <1>1, <1>2, <1>3, <1>4, <1>5, <1>6 DEF Good

LEMMA ClearIsGood ==
  ASSUME NEW b, Good(b)
  PROVE  /\ Within(ClearMem(b)) /\ Keeps(b, ClearMem(b).buf)
         /\ ClearMem(b).buf.datalen = 0 /\ ClearMem(b).buf.offset = 0
         /\ ClearMem(b).buf.mem = b.mem /\ ClearMem(b).buf.tail = b.tail
<1>1. /\ ClearMem(b).buf \in Members
      /\ ClearMem(b).buf.datalen = 0 /\ ClearMem(b).buf.bufferlen = b.bufferlen
      /\ ClearMem(b).buf.offset = 0 /\ ClearMem(b).buf.tail = b.tail
      /\ ClearMem(b).buf.mem = b.mem
  BY Numbers DEF Good, Members, ClearMem, Outcome
<1>2. /\ b.datalen \in Nat /\ b.bufferlen \in Nat /\ b.datalen <= b.bufferlen
  BY Numbers DEF Good, Members
<1>3. ~(b.datalen > b.bufferlen)
  BY <1>2
<1>4. ~ClearMem(b).over
  BY <1>3 DEF ClearMem, Outcome
<1>5. Good(ClearMem(b).buf)
  <2>1. 0 <= b.bufferlen /\ 0 + DEFAULT_BUFFER_LEN < ULONG /\ ~(0 > 0)
    BY <1>2, Numbers
  <2> QED BY <1>1, <2>1 DEF Good
<1> QED BY <1>1, <1>4, <1>5 DEF Within, Keeps, KeepsTail, KeepsOffset

\* resize never cuts data off, because it never makes a block smaller.
LEMMA ResizeIsGood ==
  ASSUME NEW b, Good(b), NEW len \in Size, NEW o \in resize(b, len)
  PROVE  /\ Within(o) /\ Keeps(b, o.buf) /\ o.buf.offset = b.offset
         /\ b.mem => o.buf.mem \/ o.buf.tail = "zero"
         /\ o.buf.mem => /\ o.buf.datalen = b.datalen /\ len <= o.buf.bufferlen
                         /\ b.bufferlen <= o.buf.bufferlen
<1>1. /\ b \in Members /\ b.datalen \in Nat /\ b.bufferlen \in Nat /\ b.datalen <= b.bufferlen
      /\ b.datalen + DEFAULT_BUFFER_LEN < ULONG /\ b.offset \in Size /\ len \in Nat
      /\ b.datalen > 0 => b.mem /\ b.datalen < b.bufferlen
  BY Numbers DEF Good, Members
<1>2. CASE len <= b.bufferlen
  <2>1. o = Outcome(b, FALSE)
    BY <1>2 DEF resize
  <2>2. o.buf = b /\ ~o.over /\ b.datalen <= b.datalen /\ b.bufferlen <= b.bufferlen
    BY <1>1, <2>1 DEF Outcome
  <2> QED BY <1>2, <2>2 DEF Within, Keeps, KeepsTail, KeepsOffset
<1>3. CASE ~(len <= b.bufferlen)
  <2> DEFINE grown == [b EXCEPT !.mem = TRUE, !.bufferlen = len, !.tail = "zero"]
  <2>1. o = Outcome(grown, b.datalen > len) \/ o = Outcome(Null(b.offset), FALSE)
    BY <1>3 DEF resize
  <2>2. CASE o = Outcome(grown, b.datalen > len)
    <3>1. /\ grown \in Members /\ grown.datalen = b.datalen /\ grown.bufferlen = len
          /\ grown.offset = b.offset /\ grown.tail = "zero" /\ grown.mem
      BY <1>1 DEF Members, Tail
    <3>2. ~(b.datalen > len) /\ b.datalen <= len /\ b.bufferlen <= len /\ b.datalen < len
      BY <1>1, <1>3
    <3> HIDE DEF grown
    <3>3. o.buf = grown /\ ~o.over
      <4>1. o.buf = grown
        BY <2>2 DEF Outcome
      <4>2. ~o.over
        BY <2>2, <3>2, Zenon DEF Outcome
      <4> QED BY <4>1, <4>2
    <3>4. Good(grown)
      BY <1>1, <3>1, <3>2 DEF Good
    <3>5. b.datalen <= b.datalen /\ len <= len
      BY <1>1
    <3> QED BY <3>1, <3>2, <3>3, <3>4, <3>5 DEF Within, Keeps, KeepsTail, KeepsOffset
  <2>3. CASE o = Outcome(Null(b.offset), FALSE)
    <3>1. /\ o.buf = Null(b.offset) /\ o.over = FALSE /\ ~o.buf.mem
          /\ o.buf.offset = b.offset /\ o.buf.tail = "zero" /\ o.buf.datalen = 0
      BY <2>3 DEF Outcome, Null
    <3>2. Good(Null(b.offset))
      BY <1>1, EmptyIsGood, Numbers
    <3>3. ~b.mem => b.datalen <= 0
      BY <1>1
    <3> QED BY <3>1, <3>2, <3>3 DEF Within, Keeps, KeepsTail, KeepsOffset
  <2> QED BY <2>1, <2>2, <2>3
<1> QED BY <1>2, <1>3

\* readmem makes room for what it appends, with a byte to spare.
LEMMA ReadIsGood ==
  ASSUME NEW b, Good(b), NEW len \in Size,
         (IF b.mem THEN b.datalen ELSE 0) + len + DEFAULT_BUFFER_LEN < ULONG,
         NEW r \in readmem(b, len)
  PROVE  /\ Within(r) /\ Keeps(b, r.buf) /\ r.buf.offset = b.offset
         /\ r.buf.mem \/ r.buf.tail = "zero"
<1> DEFINE start == IF b.mem THEN b ELSE Block(RoundUp(len), b.offset)
<1>1. /\ len \in Nat /\ b.datalen \in Nat /\ b.bufferlen \in Nat /\ b.offset \in Size
      /\ ULONG \in Nat /\ DEFAULT_BUFFER_LEN \in Nat
  BY Numbers DEF Good, Members
<1>2. len + DEFAULT_BUFFER_LEN < ULONG
  BY <1>1
<1>3. /\ RoundUp(len) \in Size /\ RoundUp(len) \in Nat
      /\ len < RoundUp(len) /\ RoundUp(len) <= len + DEFAULT_BUFFER_LEN
  BY <1>1, <1>2, RoundUpBounds, Numbers
<1>4. /\ Good(start) /\ start.datalen + len + DEFAULT_BUFFER_LEN < ULONG
      /\ start.mem /\ start.offset = b.offset /\ start.tail \in {"zero", b.tail}
      /\ b.mem => start.datalen = b.datalen
  <2>1. CASE b.mem
    BY <2>1
  <2>2. CASE ~b.mem
    <3>1. start = Block(RoundUp(len), b.offset)
      BY <2>2
    <3>2. start.datalen = 0 /\ start.mem /\ start.offset = b.offset /\ start.tail = "zero"
      BY <3>1 DEF Block
    <3> QED BY <1>1, <1>3, <2>2, <3>1, <3>2, EmptyIsGood
  <2> QED BY <2>1, <2>2
<1> DEFINE Grow == IF NoRoom(start, len) THEN resize(start, GrownSize(start, len))
                                         ELSE {Outcome(start, FALSE)}
<1>5. PICK o \in Grow :
        r = IF o.buf.mem
            THEN Outcome([o.buf EXCEPT !.datalen = Wrap(@ + len)],
                         o.over \/ o.buf.datalen + len > o.buf.bufferlen)
            ELSE o
  BY DEF readmem
<1> HIDE DEF start
<1>6. /\ start.datalen \in Nat /\ start.bufferlen \in Size /\ start.bufferlen \in Nat
      /\ start.datalen <= start.bufferlen
  BY <1>4, Numbers DEF Good, Members
<1>7. /\ Within(o) /\ Keeps(start, o.buf) /\ o.buf.offset = b.offset
      /\ o.buf.mem \/ o.buf.tail = "zero"
      /\ o.buf.mem => /\ o.buf.datalen = start.datalen
                      /\ start.datalen + len < o.buf.bufferlen
  <2>1. CASE NoRoom(start, len)
    <3>1. /\ GrownSize(start, len) = start.datalen + RoundUp(len)
          /\ GrownSize(start, len) \in Size
      <4>1. /\ start.datalen + RoundUp(len) \in Int
            /\ 0 <= start.datalen + RoundUp(len)
            /\ start.datalen + RoundUp(len) < ULONG
        BY <1>1, <1>3, <1>4, <1>6
      <4> QED BY <4>1, WrapInRange DEF GrownSize
    <3>2. PICK size \in Size : size = GrownSize(start, len)
      BY <3>1
    <3>3. o \in resize(start, size)
      BY <2>1, <3>2
    <3>4. /\ Within(o) /\ Keeps(start, o.buf) /\ o.buf.offset = b.offset
          /\ o.buf.mem \/ o.buf.tail = "zero"
          /\ o.buf.mem => o.buf.datalen = start.datalen /\ size <= o.buf.bufferlen
      BY <1>4, <3>3, ResizeIsGood
    <3>5. o.buf.bufferlen \in Nat
      BY <3>4, Numbers DEF Within, Good, Members
    <3>6. start.datalen + len < size
      BY <1>1, <1>3, <1>6, <3>1, <3>2
    <3>7. o.buf.mem => start.datalen + len < o.buf.bufferlen
      <4>1. ASSUME size <= o.buf.bufferlen
            PROVE  start.datalen + len < o.buf.bufferlen
        <5>1. size \in Nat
          BY Numbers
        <5> QED BY <1>1, <1>6, <3>5, <3>6, <4>1, <5>1
      <4> QED BY <3>4, <4>1
    <3> QED BY <3>4, <3>7
  <2>2. CASE ~NoRoom(start, len)
    <3>1. o = Outcome(start, FALSE)
      BY <2>2
    <3>2. o.buf = start /\ o.over = FALSE
      BY <3>1 DEF Outcome
    <3>3. start.bufferlen - start.datalen \in Int /\ 0 <= start.bufferlen - start.datalen
          /\ start.bufferlen - start.datalen < ULONG
      BY <1>1, <1>6, Numbers
    <3>4. ~(len >= start.bufferlen - start.datalen)
      BY <2>2, <3>3, WrapInRange DEF NoRoom
    <3>5. start.datalen + len < start.bufferlen /\ start.datalen <= start.datalen
      BY <1>1, <1>6, <3>4
    <3> QED BY <1>4, <3>2, <3>5 DEF Within, Keeps, KeepsTail, KeepsOffset
  <2> QED BY <2>1, <2>2
<1>8. CASE ~o.buf.mem
  <2>1. r = o
    BY <1>5, <1>8
  <2>2. ~b.mem => b.datalen <= o.buf.datalen
    <3>1. ~b.mem => b.datalen = 0
      BY <1>1 DEF Good
    <3>2. o.buf.datalen \in Nat
      BY <1>7, Numbers DEF Within, Good, Members
    <3> QED BY <3>1, <3>2
  <2> QED BY <1>4, <1>7, <1>8, <2>1, <2>2 DEF Keeps, KeepsTail, KeepsOffset
<1>9. CASE o.buf.mem
  <2>1. /\ o.buf \in Members /\ ~o.over /\ o.buf.bufferlen \in Nat
        /\ o.buf.datalen = start.datalen
        /\ start.datalen + len < o.buf.bufferlen
    BY <1>7, <1>9, Numbers DEF Within, Good, Members
  <2>2. Wrap(start.datalen + len) = start.datalen + len
    BY <1>1, <1>4, <1>6, WrapInRange
  <2> DEFINE filled == [o.buf EXCEPT !.datalen = Wrap(@ + len)]
  <2>3. r = Outcome(filled, o.over \/ o.buf.datalen + len > o.buf.bufferlen)
    BY <1>5, <1>9
  <2>4. start.datalen + len \in Size
    BY <1>1, <1>4, <1>6, Numbers
  <2>5. /\ filled \in Members /\ filled.datalen = start.datalen + len
        /\ filled.bufferlen = o.buf.bufferlen /\ filled.mem = o.buf.mem
        /\ filled.offset = o.buf.offset /\ filled.tail = o.buf.tail
    BY <2>1, <2>2, <2>4 DEF Members
  <2>6. ~(o.buf.datalen + len > o.buf.bufferlen)
    BY <1>1, <1>6, <2>1
  <2> HIDE DEF filled
  <2>7. r.buf = filled /\ r.over = FALSE
    BY <2>1, <2>3, <2>6 DEF Outcome
  <2>8. Good(filled)
    <3>1. start.datalen + len <= o.buf.bufferlen
      BY <1>1, <1>6, <2>1
    <3> QED BY <1>4, <1>9, <2>1, <2>5, <3>1 DEF Good
  <2>9. Keeps(b, filled)
    <3>1. b.datalen <= start.datalen + len
      <4>1. CASE b.mem
        BY <1>1, <1>4, <4>1
      <4>2. CASE ~b.mem
        <5>1. b.datalen = 0
          BY <1>1, <4>2 DEF Good
        <5> QED BY <1>1, <1>6, <5>1
      <4> QED BY <4>1, <4>2
    <3>2. filled.tail \in {"zero", b.tail}
      BY <1>4, <1>7, <2>5 DEF Keeps, KeepsTail, KeepsOffset
    <3> QED BY <1>7, <2>5, <3>1, <3>2 DEF Keeps, KeepsTail, KeepsOffset
  <2> QED BY <1>7, <1>9, <2>5, <2>7, <2>8, <2>9 DEF Within
<1> QED BY <1>8, <1>9

\* operator= clears the object before it appends, and the other's data fit.
LEMMA AssignIsGood ==
  ASSUME NEW b, Good(b), NEW other, Good(other), NEW r \in assign(b, other)
  PROVE  /\ Within(r)
         /\ KeepsOffset(b, r.buf)
         /\ KeepsTail(b, r.buf) \/ (~b.mem /\ r.buf.mem)
<1>1. /\ other.datalen \in Size /\ 0 + other.datalen + DEFAULT_BUFFER_LEN < ULONG
      /\ other.bufferlen \in Size /\ b.offset \in Size
  BY Numbers DEF Good, Members
<1>2. CASE ~b.mem
  <2>1. CASE ~other.mem
    <3>1. r.buf = b /\ ~r.over
      BY <1>2, <2>1 DEF assign, Outcome
    <3>2. b.datalen <= b.datalen
      BY Numbers DEF Good, Members
    <3> QED BY <3>1, <3>2 DEF Within, KeepsTail, KeepsOffset
  <2>2. CASE other.mem
    <3> DEFINE fresh == [Block(other.bufferlen, b.offset) EXCEPT !.tail = "garbage"]
    <3>1. r \in readmem(fresh, other.datalen)
      BY <1>2, <2>2 DEF assign
    <3>2. Good(fresh)
      BY <1>1, EmptyIsGood
    <3>3. fresh.mem /\ fresh.datalen = 0
      BY DEF Block
    <3> HIDE DEF fresh
    <3>4. Within(r) /\ r.buf.offset = fresh.offset /\ (r.buf.mem \/ r.buf.tail = "zero")
      BY <1>1, <3>1, <3>2, <3>3, ReadIsGood
    <3>5. fresh.offset = b.offset
      BY DEF fresh, Block
    <3>6. b.datalen <= r.buf.datalen
      <4>1. b.datalen = 0 /\ r.buf.datalen \in Nat
        BY <1>2, <3>4, Numbers DEF Within, Good, Members
      <4> QED BY <4>1
    <3> QED BY <1>2, <3>4, <3>5, <3>6 DEF KeepsOffset, KeepsTail
  <2> QED BY <2>1, <2>2
<1>3. CASE b.mem
  <2> DEFINE cleared == IF b.datalen # 0 THEN ClearMem(b) ELSE Outcome(b, FALSE)
  <2>1. /\ Within(cleared) /\ cleared.buf.datalen = 0
        /\ cleared.buf.mem = b.mem /\ cleared.buf.tail = b.tail
        /\ cleared.buf.offset = 0 \/ (cleared.buf.offset = b.offset /\ b.datalen = 0)
    <3>1. CASE b.datalen # 0
      BY <3>1, ClearIsGood
    <3>2. CASE b.datalen = 0
      BY <3>2 DEF Within, Outcome
    <3> QED BY <3>1, <3>2
  <2>2. PICK o \in readmem(cleared.buf, other.datalen) :
          r = Outcome(o.buf, o.over \/ cleared.over)
    BY <1>3 DEF assign
  <2> HIDE DEF cleared
  <2>3. Within(o) /\ Keeps(cleared.buf, o.buf) /\ o.buf.offset = cleared.buf.offset
    BY <1>1, <2>1, <2>2, ReadIsGood DEF Within
  <2>4. r.buf = o.buf
    BY <2>2 DEF Outcome
  <2>5. ~r.over
    BY <2>1, <2>2, <2>3, Zenon DEF Outcome, Within
  <2>6. b.datalen = 0 => b.datalen <= o.buf.datalen
    <3>1. o.buf.datalen \in Nat
      BY <2>3, Numbers DEF Within, Good, Members
    <3> QED BY <3>1
  <2> QED BY <2>1, <2>3, <2>4, <2>5, <2>6 DEF Within, Keeps, KeepsTail, KeepsOffset
<1> QED BY <1>2, <1>3

-----------------------------------------------------------------------------
(* The invariant.                                                          *)

\* What is not as it should be in a buffer has an event of its past to blame.
Traced(b, events) ==
  /\ b.tail = "zero" \/ "malloc not cleared" \in events
  /\ b.offset <= b.datalen \/ events \cap {"offset not set", "realloc failed"} # {}

SafeInv ==
  careful => /\ ~overrun
             /\ buf = [o \in Buffer |-> buf[o]] /\ past = [o \in Buffer |-> past[o]]
             /\ \A o \in Buffer : Good(buf[o]) /\ Traced(buf[o], past[o])

\* A buffer just made, and one whose offset the constructor did not set.
LEMMA FreshIsTraced ==
  ASSUME NEW len \in Size, NEW offset \in Size, NEW events
  PROVE  /\ Traced(Block(len, 0), events)
         /\ Traced([Block(len, offset) EXCEPT !.datalen = len], {"offset not set"})
<1>1. 0 <= 0
  OBVIOUS
<1> QED BY <1>1 DEF Traced, Block

LEMMA GoodNumbers ==
  ASSUME NEW b, Good(b)
  PROVE  /\ b.datalen \in Nat /\ b.offset \in Nat /\ b.bufferlen \in Nat /\ b.mem \in BOOLEAN
         /\ 0 <= b.datalen
<1>1. b.datalen \in Nat /\ b.offset \in Nat /\ b.bufferlen \in Nat /\ b.mem \in BOOLEAN
  BY Numbers DEF Good, Members
<1> QED BY <1>1

LEMMA ReachesFurther ==
  ASSUME NEW b, NEW c, Good(b), Good(c), b.offset <= b.datalen, b.datalen <= c.datalen
  PROVE  b.offset <= c.datalen
<1>1. /\ b.datalen \in Nat /\ b.offset \in Nat /\ c.datalen \in Nat
  BY GoodNumbers
<1> QED BY <1>1

\* Events are remembered, and the operations do no harm but by an event.
LEMMA KeptIsTraced ==
  ASSUME NEW b, NEW c, NEW events, NEW more,
         Good(b), Good(c), Traced(b, events), KeepsOffset(b, c),
         KeepsTail(b, c) \/ "malloc not cleared" \in more,
         events \subseteq more, b.mem /\ ~c.mem => "realloc failed" \in more
  PROVE  Traced(c, more)
<1>0. 0 <= c.datalen /\ b.mem \in BOOLEAN /\ c.mem \in BOOLEAN
  BY GoodNumbers
<1>1. c.tail = "zero" \/ "malloc not cleared" \in more
  BY DEF Traced, KeepsTail
<1>2. CASE c.offset = 0
  <2> QED BY <1>0, <1>1, <1>2 DEF Traced
<1>3. CASE c.offset = b.offset /\ (c.mem \/ ~b.mem => b.datalen <= c.datalen)
  <2>1. CASE b.mem /\ ~c.mem
    BY <1>1, <2>1 DEF Traced
  <2>2. CASE b.offset <= b.datalen /\ b.datalen <= c.datalen
    <3>1. b.offset <= c.datalen
      BY <2>2, ReachesFurther
    <3> QED BY <1>1, <1>3, <3>1 DEF Traced
  <2>3. CASE events \cap {"offset not set", "realloc failed"} # {}
    BY <1>1, <2>3 DEF Traced
  <2> QED BY <1>0, <1>3, <2>1, <2>2, <2>3 DEF Traced
<1> QED BY <1>2, <1>3 DEF KeepsOffset

LEMMA FailureIsTraced ==
  ASSUME NEW o, NEW r, Good(buf[o]), Traced(buf[o], past[o]),
         Good(r.buf), Keeps(buf[o], r.buf)
  PROVE  Traced(r.buf, past[o] \cup Failure(o, r))
<1> DEFINE more == past[o] \cup Failure(o, r)
<1>1. past[o] \subseteq more /\ (buf[o].mem /\ ~r.buf.mem => "realloc failed" \in more)
  BY DEF Failure
<1>2. KeepsTail(buf[o], r.buf) /\ KeepsOffset(buf[o], r.buf)
  BY DEF Keeps
<1> HIDE DEF more
<1>3. Traced(r.buf, more)
  BY <1>1, <1>2, KeptIsTraced
<1> QED BY <1>3 DEF more

LEMMA InitSafe == Init => SafeInv
<1> SUFFICES ASSUME Init PROVE SafeInv
  OBVIOUS
<1>1. PICK len \in Size : buf = [o \in Buffer |-> Block(len, 0)]
  BY DEF Init
<1>2. Good(Block(len, 0))
  BY EmptyIsGood, Numbers
<1>3. ~overrun /\ past = [o \in Buffer |-> past[o]]
  BY DEF Init
<1>4. \A o \in Buffer : buf[o] = Block(len, 0) /\ Traced(Block(len, 0), past[o])
  BY <1>1, FreshIsTraced, Numbers
<1> QED BY <1>1, <1>2, <1>3, <1>4 DEF SafeInv

\* A call that leaves its object within bounds keeps the invariant.
LEMMA BecomesSafe ==
  ASSUME SafeInv, NEW o \in Buffer, NEW outcome, NEW events,
         Becomes(o, outcome, events),
         careful => Within(outcome) /\ Traced(outcome.buf, events)
  PROVE  SafeInv'
<1> SUFFICES ASSUME careful'
             PROVE  /\ ~overrun' /\ buf' = [p \in Buffer |-> buf'[p]]
                    /\ past' = [p \in Buffer |-> past'[p]]
                    /\ \A p \in Buffer : Good(buf'[p]) /\ Traced(buf'[p], past'[p])
  BY DEF SafeInv, Good, Traced
<1>1. /\ careful /\ buf' = [buf EXCEPT ![o] = outcome.buf] /\ overrun' = outcome.over
      /\ past' = [past EXCEPT ![o] = events]
  BY DEF Becomes, Call
<1>2. /\ buf = [p \in Buffer |-> buf[p]] /\ past = [p \in Buffer |-> past[p]]
      /\ \A p \in Buffer : Good(buf[p]) /\ Traced(buf[p], past[p])
      /\ ~outcome.over /\ Good(outcome.buf) /\ Traced(outcome.buf, events)
  BY <1>1 DEF SafeInv, Within
<1>3. \A p \in Buffer : /\ buf'[p] = (IF p = o THEN outcome.buf ELSE buf[p])
                        /\ past'[p] = (IF p = o THEN events ELSE past[p])
  BY <1>1, <1>2
<1>4. buf' = [p \in Buffer |-> buf'[p]]
  BY <1>1, <1>2
<1>5. past' = [p \in Buffer |-> past'[p]]
  BY <1>1, <1>2
<1>6. \A p \in Buffer : Good(buf'[p]) /\ Traced(buf'[p], past'[p])
  BY <1>2, <1>3
<1>7. ~overrun'
  BY <1>1, <1>2
<1> QED BY <1>4, <1>5, <1>6, <1>7

LEMMA NextSafe ==
  ASSUME SafeInv, [Next]_vars
  PROVE  SafeInv'
<1>1. CASE UNCHANGED vars
  BY <1>1 DEF SafeInv, vars, Good, Traced
<1>2. CASE Next
  <2> PICK o \in Buffer :
        \/ Clear(o)
        \/ \E len \in Size : \/ ConstructEmpty(o, len) \/ ConstructFrom(o, len)
                             \/ Read(o, len) \/ Resize(o, len) \/ StepOffset(o, len)
        \/ \E other \in Buffer : ConstructCopy(o, other) \/ Assign(o, other) \/ swap(o, other)
    BY <1>2 DEF Next
  <2>0. /\ careful => \A p \in Buffer : Good(buf[p]) /\ Traced(buf[p], past[p])
        /\ Junk \subseteq Size
    BY BufferAssumption DEF SafeInv, Junk, Size
  <2>1. CASE Clear(o)
    <3>1. ASSUME careful
          PROVE  Within(ClearMem(buf[o])) /\ Traced(ClearMem(buf[o]).buf, past[o])
      <4>1. /\ Within(ClearMem(buf[o])) /\ Keeps(buf[o], ClearMem(buf[o]).buf)
            /\ ClearMem(buf[o]).buf.mem = buf[o].mem
        BY <2>0, <3>1, ClearIsGood
      <4> QED BY <2>0, <3>1, <4>1, KeptIsTraced DEF Within, Keeps
    <3> QED BY <2>1, <3>1, BecomesSafe DEF Clear
  <2>2. ASSUME NEW len \in Size, ConstructEmpty(o, len)
        PROVE  SafeInv'
    <3>1. Good(Block(len, 0))
      BY EmptyIsGood, Numbers
    <3>2. LET out == Outcome(Block(len, 0), FALSE) IN Within(out) /\ Traced(out.buf, {})
      BY <3>1, FreshIsTraced, Numbers DEF Within, Outcome
    <3> QED BY <2>2, <3>2, BecomesSafe DEF ConstructEmpty
  <2>3. ASSUME NEW len \in Size, ConstructFrom(o, len)
        PROVE  SafeInv'
    <3>1. PICK junk \in Junk :
            Becomes(o, Outcome([Block(RoundUp(len), junk) EXCEPT !.datalen = len],
                               len > RoundUp(len)), {"offset not set"})
      BY <2>3 DEF ConstructFrom
    <3> DEFINE made == [Block(RoundUp(len), junk) EXCEPT !.datalen = len]
    <3>2. ASSUME careful
          PROVE  LET out == Outcome(made, len > RoundUp(len)) IN
                   Within(out) /\ Traced(out.buf, {"offset not set"})
      <4>1. len \in Nat /\ len + DEFAULT_BUFFER_LEN < ULONG
        BY <2>3, <3>2, Numbers DEF ConstructFrom, Fits
      <4>2. RoundUp(len) \in Nat /\ len < RoundUp(len)
        BY <4>1, RoundUpBounds
      <4>3. RoundUp(len) \in Size
        BY <4>1, <4>2, RoundUpBounds, Numbers
      <4>4. junk \in Size
        BY <2>0
      <4>5. /\ made \in Members /\ made.datalen = len /\ made.bufferlen = RoundUp(len)
            /\ made.mem /\ made.tail = "zero"
        BY <4>3, <4>4 DEF Members, Block, Tail
      <4>6. len <= RoundUp(len) /\ ~(len > RoundUp(len))
        BY <4>1, <4>2
      <4> HIDE DEF made
      <4>7. Good(made)
        BY <4>1, <4>2, <4>5, <4>6 DEF Good
      <4>8. Outcome(made, len > RoundUp(len)).buf = made
        BY DEF Outcome
      <4>9. ~Outcome(made, len > RoundUp(len)).over
        BY <4>6, Zenon DEF Outcome
      <4> QED BY <4>5, <4>7, <4>8, <4>9 DEF Within, Traced
    <3> QED BY <3>1, <3>2, BecomesSafe
  <2>4. ASSUME NEW len \in Size, Read(o, len)
        PROVE  SafeInv'
    <3>1. PICK r \in readmem(buf[o], len) : Becomes(o, r, past[o] \cup Failure(o, r))
      BY <2>4 DEF Read
    <3>2. ASSUME careful
          PROVE  Within(r) /\ Traced(r.buf, past[o] \cup Failure(o, r))
      <4>1. Good(buf[o]) /\ buf[o].datalen \in Nat /\ len \in Nat
        BY <2>0, <3>2, Numbers DEF Good, Members
      <4>2. buf[o].datalen + len + DEFAULT_BUFFER_LEN < ULONG
        BY <2>4, <3>2 DEF Read, Fits
      <4>3. (IF buf[o].mem THEN buf[o].datalen ELSE 0) + len + DEFAULT_BUFFER_LEN < ULONG
        BY <4>1, <4>2, Numbers
      <4>4. Within(r) /\ Keeps(buf[o], r.buf)
        BY <3>1, <4>1, <4>3, ReadIsGood
      <4> QED BY <2>0, <3>2, <4>4, FailureIsTraced DEF Within
    <3> QED BY <3>1, <3>2, BecomesSafe
  <2>5. ASSUME NEW len \in Size, Resize(o, len)
        PROVE  SafeInv'
    <3>1. PICK r \in resize(buf[o], len) : Becomes(o, r, past[o] \cup Failure(o, r))
      BY <2>5 DEF Resize
    <3>2. careful => Within(r) /\ Keeps(buf[o], r.buf)
      BY <2>0, <3>1, ResizeIsGood
    <3>3. careful => Traced(r.buf, past[o] \cup Failure(o, r))
      BY <2>0, <3>2, FailureIsTraced DEF Within
    <3> QED BY <3>1, <3>2, <3>3, BecomesSafe
  <2>6. ASSUME NEW len \in Size, StepOffset(o, len)
        PROVE  SafeInv'
    <3> DEFINE stepped == [buf[o] EXCEPT !.offset = Wrap(@ + len)]
    <3>1. Becomes(o, Outcome(stepped, FALSE), past[o])
      BY <2>6 DEF StepOffset
    <3>2. ASSUME careful
          PROVE  LET out == Outcome(stepped, FALSE) IN
                   Within(out) /\ Traced(out.buf, past[o])
      <4>1. Good(buf[o]) /\ buf[o] \in Members /\ buf[o].offset + len \in Int
        BY <2>0, <3>2, Numbers DEF Good, Members
      <4>2. Wrap(buf[o].offset + len) \in Size
        BY <4>1, WrapInRange
      <4>5. Wrap(buf[o].offset + len) <= buf[o].datalen
        <5>1. /\ buf[o].offset + len <= buf[o].datalen /\ 0 <= buf[o].offset + len
              /\ buf[o].offset + len < ULONG
          BY <2>6, <3>2, <4>1, Numbers DEF StepOffset, Members
        <5> QED BY <4>1, <5>1, WrapInRange
      <4>3. /\ stepped \in Members /\ stepped.datalen = buf[o].datalen
            /\ stepped.bufferlen = buf[o].bufferlen /\ stepped.mem = buf[o].mem
            /\ stepped.tail = buf[o].tail /\ stepped.offset = Wrap(buf[o].offset + len)
        BY <4>1, <4>2 DEF Members
      <4> HIDE DEF stepped
      <4>4. Good(stepped)
        BY <4>1, <4>3 DEF Good
      <4>6. Traced(stepped, past[o])
        BY <2>0, <3>2, <4>3, <4>5 DEF Traced
      <4> QED BY <4>4, <4>6 DEF Within, Outcome
    <3> QED BY <3>1, <3>2, BecomesSafe
  <2>7. ASSUME NEW other \in Buffer, ConstructCopy(o, other)
        PROVE  SafeInv'
    <3> DEFINE that == buf[other]
    <3>1. PICK junk \in Junk :
            Becomes(o, Outcome([Block(that.bufferlen, junk) EXCEPT !.datalen = that.datalen],
                               that.datalen > that.bufferlen), {"offset not set"})
      BY <2>7 DEF ConstructCopy
    <3> DEFINE made == [Block(that.bufferlen, junk) EXCEPT !.datalen = that.datalen]
    <3>2. ASSUME careful
          PROVE  LET out == Outcome(made, that.datalen > that.bufferlen) IN
                   Within(out) /\ Traced(out.buf, {"offset not set"})
      <4>1. /\ that.datalen \in Nat /\ that.bufferlen \in Nat
            /\ that.datalen \in Size /\ that.bufferlen \in Size
            /\ that.datalen <= that.bufferlen
            /\ that.datalen + DEFAULT_BUFFER_LEN < ULONG
            /\ that.datalen > 0 => that.datalen < that.bufferlen
        BY <2>0, <3>2, Numbers DEF Good, Members
      <4>2. junk \in Size
        BY <2>0
      <4>3. /\ made \in Members /\ made.datalen = that.datalen
            /\ made.bufferlen = that.bufferlen /\ made.mem /\ made.tail = "zero"
        BY <4>1, <4>2 DEF Members, Block, Tail
      <4>4. ~(that.datalen > that.bufferlen)
        BY <4>1
      <4> HIDE DEF made, that
      <4>5. Good(made)
        BY <4>1, <4>3 DEF Good
      <4>6. Outcome(made, that.datalen > that.bufferlen).buf = made
        BY DEF Outcome
      <4>7. ~Outcome(made, that.datalen > that.bufferlen).over
        BY <4>4, Zenon DEF Outcome
      <4> QED BY <4>3, <4>5, <4>6, <4>7 DEF Within, Traced
    <3> QED BY <3>1, <3>2, BecomesSafe
  <2>8. ASSUME NEW other \in Buffer, Assign(o, other)
        PROVE  SafeInv'
    <3>1. PICK r \in assign(buf[o], buf[other]) :
            Becomes(o, r, past[o] \cup Failure(o, r) \cup
                          (IF ~buf[o].mem /\ r.buf.mem THEN {"malloc not cleared"} ELSE {}))
      BY <2>8 DEF Assign
    <3> DEFINE events == past[o] \cup Failure(o, r) \cup
                 (IF ~buf[o].mem /\ r.buf.mem THEN {"malloc not cleared"} ELSE {})
    <3>2. careful => /\ Within(r) /\ KeepsOffset(buf[o], r.buf)
                     /\ KeepsTail(buf[o], r.buf) \/ (~buf[o].mem /\ r.buf.mem)
      BY <2>0, <3>1, AssignIsGood
    <3>3. /\ past[o] \subseteq events
          /\ buf[o].mem /\ ~r.buf.mem => "realloc failed" \in events
          /\ ~buf[o].mem /\ r.buf.mem => "malloc not cleared" \in events
      BY DEF Failure
    <3>4. Becomes(o, r, events)
      BY <3>1
    <3> HIDE DEF events
    <3>5. careful => Traced(r.buf, events)
      BY <2>0, <3>2, <3>3, KeptIsTraced DEF Within
    <3> QED BY <3>2, <3>4, <3>5, BecomesSafe
  <2>9. ASSUME NEW other \in Buffer, swap(o, other)
        PROVE  SafeInv'
    BY <2>9 DEF swap, Call, SafeInv
  <2> QED BY <2>1, <2>2, <2>3, <2>4, <2>5, <2>6, <2>7, <2>8, <2>9
<1> QED BY <1>1, <1>2

-----------------------------------------------------------------------------
LEMMA Invariance == Spec => []SafeInv
BY InitSafe, NextSafe, PTL DEF Spec

\* However the calls of a careful user follow each other, and whichever of
\* their allocations fails, no byte past the end of a block is touched: the
\* rounding in readmem and the unsigned subtraction that tells whether there
\* is room never let data outgrow their block.
THEOREM CarefulNeverOverruns == Spec => []NoOverrun
<1>1. SafeInv => NoOverrun
  BY DEF SafeInv, NoOverrun
<1> QED BY <1>1, Invariance, PTL

\* For the same user a zero byte follows the data of every buffer, inside its
\* block, unless the block came from the malloc of operator=, which is not
\* cleared (safebuffer.cpp:25-48, 97-128).
THEOREM DataEndInZero == Spec => []EndsInZero
<1>1. SafeInv => EndsInZero
  BY DEF SafeInv, Good, Traced, EndsInZero
<1> QED BY <1>1, Invariance, PTL

\* And the read offset stays within the data, unless a constructor left it
\* unset or a failed realloc lost the data.
THEOREM OffsetStaysInData == Spec => []OffsetInData
<1>1. SafeInv => OffsetInData
  BY DEF SafeInv, Traced, OffsetInData
<1> QED BY <1>1, Invariance, PTL

-----------------------------------------------------------------------------
(* The types, for careful users and for others.                            *)

Typed(o) == o.buf \in Members /\ o.over \in BOOLEAN

LEMMA OutcomeIsTyped ==
  ASSUME NEW b \in Members, NEW over \in BOOLEAN
  PROVE  Typed(Outcome(b, over))
BY Zenon DEF Typed, Outcome

LEMMA EmptyIsTyped ==
  ASSUME NEW len \in Size, NEW offset \in Size
  PROVE  /\ Block(len, offset) \in Members /\ Null(offset) \in Members
         /\ \A n \in Size : [Block(len, offset) EXCEPT !.datalen = n] \in Members
         /\ [Block(len, offset) EXCEPT !.tail = "garbage"] \in Members
BY Numbers DEF Members, Block, Null, Tail

LEMMA ClearIsTyped ==
  ASSUME NEW b \in Members
  PROVE  Typed(ClearMem(b))
<1>1. [b EXCEPT !.datalen = 0, !.offset = 0] \in Members
  BY Numbers DEF Members
<1>2. (b.datalen > b.bufferlen) \in BOOLEAN
  OBVIOUS
<1> QED BY <1>1, <1>2, OutcomeIsTyped, Zenon DEF ClearMem

LEMMA ResizeIsTyped ==
  ASSUME NEW b \in Members, NEW len \in Size, NEW o \in resize(b, len)
  PROVE  Typed(o)
<1>1. [b EXCEPT !.mem = TRUE, !.bufferlen = len, !.tail = "zero"] \in Members
  BY DEF Members, Tail
<1>2. Null(b.offset) \in Members
  BY EmptyIsTyped, Numbers DEF Members
<1>3. (b.datalen > len) \in BOOLEAN
  OBVIOUS
<1>4. CASE len <= b.bufferlen
  BY <1>4, OutcomeIsTyped DEF resize
<1>5. CASE ~(len <= b.bufferlen)
  BY <1>1, <1>2, <1>3, <1>5, OutcomeIsTyped, Zenon DEF resize
<1> QED BY <1>4, <1>5

LEMMA ReadIsTyped ==
  ASSUME NEW b \in Members, NEW len \in Size, NEW r \in readmem(b, len)
  PROVE  Typed(r)
<1> DEFINE start == IF b.mem THEN b ELSE Block(RoundUp(len), b.offset)
<1>1. /\ b.offset \in Size /\ len \in Nat /\ RoundUp(len) \in Size
  <2>1. b.offset \in Size /\ len \in Nat /\ DEFAULT_BUFFER_LEN \in Nat \ {0}
    BY Numbers, BufferAssumption DEF Members
  <2>2. (len \div DEFAULT_BUFFER_LEN + 1) * DEFAULT_BUFFER_LEN \in Int
    BY <2>1
  <2> QED BY <2>1, <2>2, WrapInRange DEF RoundUp
<1>2. start \in Members
  BY <1>1, EmptyIsTyped
<1> DEFINE Grow == IF NoRoom(start, len) THEN resize(start, GrownSize(start, len))
                                         ELSE {Outcome(start, FALSE)}
<1>3. PICK o \in Grow :
        r = IF o.buf.mem
            THEN Outcome([o.buf EXCEPT !.datalen = Wrap(@ + len)],
                         o.over \/ o.buf.datalen + len > o.buf.bufferlen)
            ELSE o
  BY DEF readmem
<1> HIDE DEF start
<1>4. Typed(o)
  <2>1. start.datalen + RoundUp(len) \in Int
    BY <1>1, <1>2, Numbers DEF Members
  <2>2. GrownSize(start, len) \in Size
    BY <2>1, WrapInRange DEF GrownSize
  <2> QED BY <1>2, <2>2, ResizeIsTyped, OutcomeIsTyped
<1>5. Wrap(o.buf.datalen + len) \in Size
  <2>1. o.buf.datalen + len \in Int
    BY <1>1, <1>4, Numbers DEF Typed, Members
  <2> QED BY <2>1, WrapInRange
<1>6. [o.buf EXCEPT !.datalen = Wrap(@ + len)] \in Members
  BY <1>4, <1>5 DEF Typed, Members
<1> QED BY <1>3, <1>4, <1>6, OutcomeIsTyped

LEMMA AssignIsTyped ==
  ASSUME NEW b \in Members, NEW other \in Members, NEW r \in assign(b, other)
  PROVE  Typed(r)
<1>1. b.offset \in Size /\ other.datalen \in Size /\ other.bufferlen \in Size
  BY DEF Members
<1>2. CASE ~b.mem
  <2>1. [Block(other.bufferlen, b.offset) EXCEPT !.tail = "garbage"] \in Members
    BY <1>1, EmptyIsTyped
  <2> QED BY <1>1, <1>2, <2>1, ReadIsTyped, OutcomeIsTyped DEF assign
<1>3. CASE b.mem
  <2> DEFINE cleared == IF b.datalen # 0 THEN ClearMem(b) ELSE Outcome(b, FALSE)
  <2>1. Typed(cleared)
    BY ClearIsTyped, OutcomeIsTyped
  <2>2. PICK o \in readmem(cleared.buf, other.datalen) :
          r = Outcome(o.buf, o.over \/ cleared.over)
    BY <1>3 DEF assign
  <2> HIDE DEF cleared
  <2>3. Typed(o)
    BY <1>1, <2>1, ReadIsTyped DEF Typed
  <2> QED BY <2>2, <2>3, OutcomeIsTyped DEF Typed
<1> QED BY <1>2, <1>3

Events == {"offset not set", "malloc not cleared", "realloc failed"}

TypeInv ==
  /\ buf \in [Buffer -> Members] /\ overrun \in BOOLEAN /\ careful \in BOOLEAN
  /\ calls \in 0 .. MaxCalls /\ past \in [Buffer -> SUBSET Events]

LEMMA EventTypes ==
  /\ {} \in SUBSET Events /\ {"offset not set"} \in SUBSET Events
  /\ {"malloc not cleared"} \in SUBSET Events
  /\ \A o \in Buffer : \A r : Failure(o, r) \in SUBSET Events
BY Zenon DEF Events, Failure

LEMMA CallIsCounted ==
  ASSUME TypeInv, Call
  PROVE  calls' \in 0 .. MaxCalls /\ careful' \in BOOLEAN
BY BufferAssumption DEF Call, TypeInv

LEMMA BecomesIsTyped ==
  ASSUME TypeInv, NEW o \in Buffer, NEW outcome, NEW events \in SUBSET Events,
         Becomes(o, outcome, events), Typed(outcome)
  PROVE  TypeInv'
<1>1. calls' \in 0 .. MaxCalls /\ careful' \in BOOLEAN
  BY CallIsCounted DEF Becomes
<1> QED BY <1>1 DEF TypeInv, Becomes, Typed

LEMMA NextTyped ==
  ASSUME TypeInv, [Next]_vars
  PROVE  TypeInv'
<1>1. CASE UNCHANGED vars
  BY <1>1 DEF TypeInv, vars
<1>2. CASE Next
  <2> PICK o \in Buffer :
        \/ Clear(o)
        \/ \E len \in Size : \/ ConstructEmpty(o, len) \/ ConstructFrom(o, len)
                             \/ Read(o, len) \/ Resize(o, len) \/ StepOffset(o, len)
        \/ \E other \in Buffer : ConstructCopy(o, other) \/ Assign(o, other) \/ swap(o, other)
    BY <1>2 DEF Next
  <2>0. /\ \A p \in Buffer : buf[p] \in Members /\ past[p] \in SUBSET Events
        /\ Junk \subseteq Size /\ 0 \in Size
        /\ \A more \in SUBSET Events : past[o] \cup more \in SUBSET Events
    BY BufferAssumption DEF TypeInv, Junk, Size
  <2>1. CASE Clear(o)
    BY <2>0, <2>1, ClearIsTyped, BecomesIsTyped DEF Clear
  <2>2. ASSUME NEW len \in Size, ConstructEmpty(o, len)
        PROVE  TypeInv'
    <3>1. Typed(Outcome(Block(len, 0), FALSE))
      BY <2>0, EmptyIsTyped, OutcomeIsTyped
    <3> QED BY <2>2, <3>1, EventTypes, BecomesIsTyped DEF ConstructEmpty
  <2>3. ASSUME NEW len \in Size, ConstructFrom(o, len)
        PROVE  TypeInv'
    <3>1. PICK junk \in Junk :
            Becomes(o, Outcome([Block(RoundUp(len), junk) EXCEPT !.datalen = len],
                               len > RoundUp(len)), {"offset not set"})
      BY <2>3 DEF ConstructFrom
    <3>2. RoundUp(len) \in Size
      <4>1. len \in Nat /\ DEFAULT_BUFFER_LEN \in Nat \ {0}
        BY Numbers, BufferAssumption
      <4>2. (len \div DEFAULT_BUFFER_LEN + 1) * DEFAULT_BUFFER_LEN \in Int
        BY <4>1
      <4> QED BY <4>2, WrapInRange DEF RoundUp
    <3>3. [Block(RoundUp(len), junk) EXCEPT !.datalen = len] \in Members
      BY <2>0, <3>2, EmptyIsTyped
    <3>4. (len > RoundUp(len)) \in BOOLEAN
      OBVIOUS
    <3> QED BY <3>1, <3>3, <3>4, OutcomeIsTyped, EventTypes, BecomesIsTyped, Zenon
  <2>4. ASSUME NEW len \in Size, Read(o, len)
        PROVE  TypeInv'
    BY <2>0, <2>4, ReadIsTyped, EventTypes, BecomesIsTyped DEF Read
  <2>5. ASSUME NEW len \in Size, Resize(o, len)
        PROVE  TypeInv'
    BY <2>0, <2>5, ResizeIsTyped, EventTypes, BecomesIsTyped DEF Resize
  <2>6. ASSUME NEW len \in Size, StepOffset(o, len)
        PROVE  TypeInv'
    <3>1. buf[o].offset + len \in Int
      BY <2>0, Numbers DEF Members
    <3>2. [buf[o] EXCEPT !.offset = Wrap(@ + len)] \in Members
      BY <2>0, <3>1, WrapInRange DEF Members
    <3> QED BY <2>0, <2>6, <3>2, OutcomeIsTyped, BecomesIsTyped DEF StepOffset
  <2>7. ASSUME NEW other \in Buffer, ConstructCopy(o, other)
        PROVE  TypeInv'
    <3>1. PICK junk \in Junk :
            Becomes(o, Outcome([Block(buf[other].bufferlen, junk) EXCEPT
                                  !.datalen = buf[other].datalen],
                               buf[other].datalen > buf[other].bufferlen), {"offset not set"})
      BY <2>7 DEF ConstructCopy
    <3>2. buf[other].bufferlen \in Size /\ buf[other].datalen \in Size
      BY <2>0 DEF Members
    <3>3. [Block(buf[other].bufferlen, junk) EXCEPT !.datalen = buf[other].datalen] \in Members
      BY <2>0, <3>2, EmptyIsTyped
    <3>4. (buf[other].datalen > buf[other].bufferlen) \in BOOLEAN
      OBVIOUS
    <3> QED BY <3>1, <3>3, <3>4, OutcomeIsTyped, EventTypes, BecomesIsTyped, Zenon
  <2>8. ASSUME NEW other \in Buffer, Assign(o, other)
        PROVE  TypeInv'
    <3>1. PICK r \in assign(buf[o], buf[other]) :
            Becomes(o, r, past[o] \cup Failure(o, r) \cup
                          (IF ~buf[o].mem /\ r.buf.mem THEN {"malloc not cleared"} ELSE {}))
      BY <2>8 DEF Assign
    <3>2. Typed(r)
      BY <2>0, <3>1, AssignIsTyped
    <3>3. past[o] \cup Failure(o, r) \cup
            (IF ~buf[o].mem /\ r.buf.mem THEN {"malloc not cleared"} ELSE {}) \in SUBSET Events
      BY <2>0, EventTypes
    <3> QED BY <3>1, <3>2, <3>3, BecomesIsTyped
  <2>9. ASSUME NEW other \in Buffer, swap(o, other)
        PROVE  TypeInv'
    <3>1. /\ [buf[other] EXCEPT !.datalen = buf[o].datalen, !.offset = buf[o].offset] \in Members
          /\ [buf[o] EXCEPT !.offset = buf[other].offset] \in Members
      BY <2>0 DEF Members
    <3> QED BY <2>9, <3>1, CallIsCounted DEF swap, TypeInv
  <2> QED BY <2>1, <2>2, <2>3, <2>4, <2>5, <2>6, <2>7, <2>8, <2>9
<1> QED BY <1>1, <1>2

\* Whatever the user does, the members of the objects are numbers that an
\* unsigned long can hold.
THEOREM TypeCorrect == Spec => []TypeOK
<1>1. Init => TypeInv
  <2> SUFFICES ASSUME Init PROVE TypeInv
    OBVIOUS
  <2>1. \A len \in Size : Block(len, 0) \in Members
    BY EmptyIsTyped, Numbers
  <2>2. 0 \in 0 .. MaxCalls
    BY BufferAssumption
  <2> QED BY <2>1, <2>2, EventTypes DEF Init, TypeInv
<1>2. TypeInv => TypeOK
  BY Zenon DEF TypeInv, TypeOK, Members, Events
<1> QED BY <1>1, <1>2, NextTyped, PTL DEF Spec

-----------------------------------------------------------------------------
(* The error codes: the tables.                                            *)

\* In each part of the table a name has a number of its own, and the parts
\* use different numbers.
LEMMA FirstPart ==
  /\ \A m \in DOMAIN FallbackE2BIGToEMFILE :
       FallbackE2BIGToEMFILE[m] \in -4093 .. -4066
  /\ \A m, n \in DOMAIN FallbackE2BIGToEMFILE :
       FallbackE2BIGToEMFILE[m] = FallbackE2BIGToEMFILE[n] => m = n
BY DEF FallbackE2BIGToEMFILE

LEMMA SecondPart ==
  /\ \A m \in DOMAIN FallbackEMSGSIZEToESHUTDOWN :
       FallbackEMSGSIZEToESHUTDOWN[m] \in -4065 .. -4042
  /\ \A m, n \in DOMAIN FallbackEMSGSIZEToESHUTDOWN :
       FallbackEMSGSIZEToESHUTDOWN[m] = FallbackEMSGSIZEToESHUTDOWN[n] => m = n
BY DEF FallbackEMSGSIZEToESHUTDOWN

LEMMA ThirdPart ==
  /\ \A m \in DOMAIN FallbackESPIPEToENOTTY :
       FallbackESPIPEToENOTTY[m] \in -4041 .. -4029
  /\ \A m, n \in DOMAIN FallbackESPIPEToENOTTY :
       FallbackESPIPEToENOTTY[m] = FallbackESPIPEToENOTTY[n] => m = n
BY DEF FallbackESPIPEToENOTTY

\* So the whole table gives different names different numbers.
LEMMA FallbackDistinct ==
  /\ \A m \in System : Fallback[m] \in -4093 .. -4029
  /\ \A m, n \in System : Fallback[m] = Fallback[n] => m = n
<1>1. ASSUME NEW m \in System
      PROVE  \/ m \in DOMAIN FallbackE2BIGToEMFILE
                /\ Fallback[m] = FallbackE2BIGToEMFILE[m]
             \/ m \in DOMAIN FallbackEMSGSIZEToESHUTDOWN
                /\ Fallback[m] = FallbackEMSGSIZEToESHUTDOWN[m]
             \/ m \in DOMAIN FallbackESPIPEToENOTTY
                /\ Fallback[m] = FallbackESPIPEToENOTTY[m]
  <2>1. CASE m \in DOMAIN FallbackE2BIGToEMFILE
    BY <2>1 DEF Fallback
  <2>2. CASE m \notin DOMAIN FallbackE2BIGToEMFILE /\ m \in DOMAIN FallbackEMSGSIZEToESHUTDOWN
    BY <2>2 DEF Fallback
  <2>3. CASE /\ m \notin DOMAIN FallbackE2BIGToEMFILE
             /\ m \notin DOMAIN FallbackEMSGSIZEToESHUTDOWN
             /\ m \in DOMAIN FallbackESPIPEToENOTTY
    BY <2>3 DEF Fallback
  <2> QED BY <2>1, <2>2, <2>3 DEF System
<1> QED BY <1>1, FirstPart, SecondPart, ThirdPart

\* The codes that do not depend on errno.h keep clear of that table.
LEMMA FixedDistinct ==
  /\ \A m \in DOMAIN FixedCodes : FixedCodes[m] \in {-4095, -4094} \cup -3014 .. -3000
  /\ \A m, n \in DOMAIN FixedCodes : FixedCodes[m] = FixedCodes[n] => m = n
  /\ UV_ERRNO_MAX = -4096
BY DEF FixedCodes, UV_ERRNO_MAX

-----------------------------------------------------------------------------
(* The error codes: the invariant.                                         *)

ErrnoInv ==
  /\ compiled \subseteq Unit
  /\ missing \in [Unit -> SUBSET System]
  /\ redefined \in [Unit -> SUBSET System]
  /\ platform # "windows" => \A u \in Unit : redefined[u] = {}

\* A unit misses and redefines names of errno.h only, the latter on Windows.
LEMMA ErrnoInvariance == ErrnoSpec => []ErrnoInv
<1>1. ErrnoInit => ErrnoInv
  BY DEF ErrnoInit, ErrnoInv
<1>2. ErrnoInv /\ [ErrnoNext]_errnoVars => ErrnoInv'
  <2>1. ASSUME ErrnoInv, NEW u \in Unit, Compile(u)
        PROVE  ErrnoInv'
    <3>1. PICK m \in SUBSET Doubtful : \E r \in SUBSET (Doubtful \ m) :
            /\ missing' = [missing EXCEPT ![u] = m]
            /\ platform # "windows" => r = {}
            /\ redefined' = [redefined EXCEPT ![u] = r]
      BY <2>1 DEF Compile
    <3>2. PICK r \in SUBSET (Doubtful \ m) :
            /\ platform # "windows" => r = {}
            /\ redefined' = [redefined EXCEPT ![u] = r]
      BY <3>1
    <3>3. m \subseteq System /\ r \subseteq System
      BY ErrnoAssumption
    <3>4. compiled' \subseteq Unit /\ UNCHANGED platform
      BY <2>1 DEF Compile, ErrnoInv
    <3> QED BY <2>1, <3>1, <3>2, <3>3, <3>4 DEF ErrnoInv
  <2>2. ErrnoInv /\ UNCHANGED errnoVars => ErrnoInv'
    BY DEF ErrnoInv, errnoVars
  <2> QED BY <2>1, <2>2 DEF ErrnoNext
<1> QED BY <1>1, <1>2, PTL DEF ErrnoSpec

HostDown(m) == platform = "bsd" /\ m = "EHOSTDOWN"

\* The values that a name of errno.h can have.  On Windows it has one only.
LEMMA SystemCodeIs ==
  ASSUME ErrnoInv, NEW u \in Unit, NEW m \in System
  PROVE  /\ HostDown(m) => SystemCode(u, m) = -64
         /\ ~HostDown(m) /\ m \notin missing[u] /\ platform # "windows"
              => SystemCode(u, m) = -(4300 + Fallback[m])
         /\ ~HostDown(m) /\ (m \in missing[u] \/ platform = "windows")
              => SystemCode(u, m) = Fallback[m]
<1>1. platform # "windows" => m \notin redefined[u]
  BY DEF ErrnoInv
<1> QED BY <1>1 DEF SystemCode, Errno, HostDown

\* What a code tells of a name, however the unit was compiled.
LEMMA CodeIs ==
  ASSUME ErrnoInv, NEW u \in Unit, NEW m \in UV_ERRNO_MAP
  PROVE  \/ m \in DOMAIN FixedCodes \ System /\ uv_errno_t(u, m) = FixedCodes[m]
         \/ m \in System /\ ~HostDown(m) /\ uv_errno_t(u, m) = Fallback[m]
         \/ m \in System /\ ~HostDown(m) /\ uv_errno_t(u, m) = -(4300 + Fallback[m])
         \/ HostDown(m) /\ uv_errno_t(u, m) = -64
<1>1. CASE m \in System
  BY <1>1, SystemCodeIs DEF uv_errno_t
<1>2. CASE m \notin System
  BY <1>2, ErrnoAssumption DEF uv_errno_t
<1> QED BY <1>1, <1>2

\* The four forms of a code lie in ranges of their own, and within a form a
\* name has its own number.
LEMMA Mistaken ==
  ASSUME ErrnoInv
  PROVE  NeverMistaken
<1> SUFFICES ASSUME NEW u \in compiled, NEW v \in compiled,
                    NEW m \in UV_ERRNO_MAP, NEW n \in UV_ERRNO_MAP
             PROVE  /\ uv_errno_t(u, m) = uv_errno_t(v, n) => m = n
                    /\ uv_errno_t(u, m) < 0 /\ uv_errno_t(u, m) > UV_ERRNO_MAX
  BY DEF NeverMistaken
<1>1. u \in Unit /\ v \in Unit
  BY DEF ErrnoInv
<1>2. HostDown(m) /\ HostDown(n) => m = n
  BY DEF HostDown
<1> QED BY <1>1, <1>2, CodeIs, FallbackDistinct, FixedDistinct

\* A status that the binary of libuv means as one error, or as two, is never
\* another to the program, and always a number below zero and above
\* UV_ERRNO_MAX (uv-errno.h:27-429), whatever macros each of them misses.
THEOREM StatusNeverMistaken == ErrnoSpec => []NeverMistaken
BY ErrnoInvariance, Mistaken, PTL

\* The two agree about every error on Windows (uv-errno.h:45-47), elsewhere
\* about those whose macro both see or neither, and always about EHOSTDOWN on
\* BSD-like systems (uv-errno.h:407-410).
THEOREM UnitsAgree == ErrnoSpec => []CodesAgree
<1>1. ASSUME ErrnoInv, NEW u \in compiled, NEW v \in compiled, NEW n \in UV_ERRNO_MAP,
             \/ platform = "windows"
             \/ platform = "bsd" /\ n = "EHOSTDOWN"
             \/ n \in missing[u] <=> n \in missing[v]
      PROVE  uv_errno_t(u, n) = uv_errno_t(v, n)
  <2>1. u \in Unit /\ v \in Unit
    BY <1>1 DEF ErrnoInv
  <2>2. CASE n \in System
    BY <1>1, <2>1, <2>2, SystemCodeIs DEF uv_errno_t, HostDown
  <2>3. CASE n \notin System
    BY <2>3 DEF uv_errno_t
  <2> QED BY <2>2, <2>3
<1>2. ErrnoInv => CodesAgree
  BY <1>1 DEF CodesAgree
<1> QED BY <1>2, ErrnoInvariance, PTL
=============================================================================
