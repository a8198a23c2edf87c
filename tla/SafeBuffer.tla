----------------------------- MODULE SafeBuffer -----------------------------
(***************************************************************************)
(* safebuffer (util/safebuffer.cpp): the growing buffer that holds the     *)
(* bytes of every write of libuvcpp and netlib.  What is told apart is how *)
(* many bytes a buffer has room for and holds, the read offset, and what   *)
(* follows the data.  An unsigned long has ULONG values.  malloc succeeds, *)
(* as the code asserts; realloc may fail, for which the code has a path.   *)
(*                                                                         *)
(* A careful user never calls swap, gives a buffer no more bytes in all    *)
(* than an unsigned long can count, DEFAULT_BUFFER_LEN of them spared, and *)
(* steps the offset within the data.                                       *)
(***************************************************************************)
EXTENDS Integers, FiniteSets

CONSTANTS
  Buffer,              \* the objects
  DEFAULT_BUFFER_LEN,  \* 1024 in the code
  ULONG,               \* number of values of an unsigned long
  MaxCalls,            \* bound on the calls
  MaxCareless          \* the same, for the user who keeps to no rules

ASSUME BufferAssumption ==
  /\ DEFAULT_BUFFER_LEN \in Nat \ {0} /\ ULONG \in Nat /\ MaxCalls \in Nat
  /\ MaxCareless \in 0 .. MaxCalls
  /\ 2 * DEFAULT_BUFFER_LEN < ULONG

Size == 0 .. ULONG - 1
Junk == {0, ULONG - 1}  \* what memory may hold that was never written
Tail == {"zero", "garbage"}

VARIABLES
  buf,      \* the members of each object, and what follows its data
  overrun,  \* has memory past the end of a block been written or read?
  past,     \* what has happened to each object
  careful,  \* does the user keep to the rules above?
  calls

vars == <<buf, overrun, past, careful, calls>>

TypeOK ==
  /\ buf \in [Buffer -> [mem : BOOLEAN, bufferlen : Size, datalen : Size,
                         offset : Size, tail : Tail]]
  /\ overrun \in BOOLEAN /\ careful \in BOOLEAN /\ calls \in 0 .. MaxCalls
  /\ past \in [Buffer -> SUBSET {"offset not set", "malloc not cleared",
                                 "realloc failed"}]

-----------------------------------------------------------------------------
(* The operations, as operators on the members of one object.  What may    *)
(* fail or run over yields the set of the outcomes.                        *)

Wrap(n) == n % ULONG

\* Multiple of DEFAULT_BUFFER_LEN above len.
RoundUp(len) == Wrap((len \div DEFAULT_BUFFER_LEN + 1) * DEFAULT_BUFFER_LEN)

Outcome(b, over) == [buf |-> b, over |-> over]

\* safebuffer(bufflen), and what malloc and memset make of a null buffer.
Block(len, offset) ==
  [mem |-> TRUE, bufferlen |-> len, datalen |-> 0, offset |-> offset, tail |-> "zero"]

Null(offset) ==
  [mem |-> FALSE, bufferlen |-> 0, datalen |-> 0, offset |-> offset, tail |-> "zero"]

\* Faulty variant: the bytes are forgotten but not cleared.
ClearMemNoMemset(b) ==
  Outcome([b EXCEPT !.datalen = 0, !.offset = 0,
                    !.tail = IF b.datalen > 0 THEN "garbage" ELSE @],
          b.datalen > b.bufferlen)

\* Faulty variant: the read offset stays.
ClearMemKeepsOffset(b) ==
  Outcome([b EXCEPT !.datalen = 0], b.datalen > b.bufferlen)

ClearMem(b) ==
  Outcome([b EXCEPT !.datalen = 0, !.offset = 0], b.datalen > b.bufferlen)

\* When realloc fails the old block is lost, with its data.
resize(b, len) ==
  IF len <= b.bufferlen THEN {Outcome(b, FALSE)}
  ELSE {Outcome([b EXCEPT !.mem = TRUE, !.bufferlen = len, !.tail = "zero"],
                b.datalen > len),
        Outcome(Null(b.offset), FALSE)}

\* Faulty variant: the new size leaves out the data that is there already.
GrownForLen(b, len) == RoundUp(len)

\* The size readmem asks resize for.
GrownSize(b, len) == Wrap(b.datalen + RoundUp(len))

\* Faulty variant: a buffer may be filled to its last byte.
FullAt(b, len) == len > Wrap(b.bufferlen - b.datalen)

NoRoom(b, len) == len >= Wrap(b.bufferlen - b.datalen)

readmem(b, len) ==
  LET start == IF b.mem THEN b ELSE Block(RoundUp(len), b.offset) IN
  {IF o.buf.mem
   THEN Outcome([o.buf EXCEPT !.datalen = Wrap(@ + len)],
                o.over \/ o.buf.datalen + len > o.buf.bufferlen)
   ELSE o :
   o \in IF NoRoom(start, len) THEN resize(start, GrownSize(start, len))
                               ELSE {Outcome(start, FALSE)}}

\* operator= from another object.  The memory of a null buffer is not cleared.
assign(b, other) ==
  IF ~b.mem THEN
    IF other.mem
    THEN readmem([Block(other.bufferlen, b.offset) EXCEPT !.tail = "garbage"],
                 other.datalen)
    ELSE {Outcome(b, FALSE)}
  ELSE LET cleared == IF b.datalen # 0 THEN ClearMem(b) ELSE Outcome(b, FALSE) IN
       {Outcome(o.buf, o.over \/ cleared.over) : o \in readmem(cleared.buf, other.datalen)}

-----------------------------------------------------------------------------
Init ==
  /\ \E len \in Size : buf = [o \in Buffer |-> Block(len, 0)]
  /\ past = [o \in Buffer |-> {}]
  /\ overrun = FALSE /\ careful \in BOOLEAN /\ calls = 0

\* After an overrun anything may happen, and the model stops.
Call ==
  /\ ~overrun
  /\ calls < IF careful THEN MaxCalls ELSE MaxCareless
  /\ calls' = calls + 1
  /\ UNCHANGED careful

Fits(len) == careful => len + DEFAULT_BUFFER_LEN < ULONG

Becomes(o, outcome, events) ==
  /\ Call
  /\ buf' = [buf EXCEPT ![o] = outcome.buf]
  /\ overrun' = outcome.over
  /\ past' = [past EXCEPT ![o] = events]

\* The constructors; what the object was before has been destroyed.  The two
\* that take bytes do not set m_offset.
ConstructEmpty(o, bufflen) == Becomes(o, Outcome(Block(bufflen, 0), FALSE), {})

ConstructFrom(o, len) ==
  /\ Fits(len)
  /\ \E junk \in Junk :
       Becomes(o, Outcome([Block(RoundUp(len), junk) EXCEPT !.datalen = len],
                          len > RoundUp(len)), {"offset not set"})

ConstructCopy(o, other) ==
  /\ o # other
  /\ \E junk \in Junk :
       Becomes(o, Outcome([Block(buf[other].bufferlen, junk) EXCEPT
                             !.datalen = buf[other].datalen],
                          buf[other].datalen > buf[other].bufferlen), {"offset not set"})

Failure(o, outcome) ==
  IF buf[o].mem /\ ~outcome.buf.mem THEN {"realloc failed"} ELSE {}

Clear(o) == Becomes(o, ClearMem(buf[o]), past[o])

Read(o, len) ==
  /\ Fits(buf[o].datalen + len)
  /\ \E r \in readmem(buf[o], len) : Becomes(o, r, past[o] \cup Failure(o, r))

Resize(o, len) ==
  \E r \in resize(buf[o], len) : Becomes(o, r, past[o] \cup Failure(o, r))

Assign(o, other) ==
  /\ o # other
  /\ \E r \in assign(buf[o], buf[other]) :
       Becomes(o, r, past[o] \cup Failure(o, r) \cup
                     (IF ~buf[o].mem /\ r.buf.mem THEN {"malloc not cleared"} ELSE {}))

\* The memory and its size change places; each object is left with the length
\* of this one's data, and keeps its own offset.
swap(o, other) ==
  /\ ~careful /\ Call
  /\ LET this == buf[o]  that == buf[other] IN
       buf' = [buf EXCEPT
                 ![o]     = [that EXCEPT !.datalen = this.datalen, !.offset = this.offset],
                 ![other] = [this EXCEPT !.offset = that.offset]]
  /\ UNCHANGED <<overrun, past>>

StepOffset(o, step) ==
  /\ careful => buf[o].offset + step <= buf[o].datalen
  /\ Becomes(o, Outcome([buf[o] EXCEPT !.offset = Wrap(@ + step)], FALSE), past[o])

Next ==
  \E o \in Buffer :
    \/ Clear(o)
    \/ \E len \in Size : \/ ConstructEmpty(o, len) \/ ConstructFrom(o, len)
                         \/ Read(o, len) \/ Resize(o, len) \/ StepOffset(o, len)
    \/ \E other \in Buffer : ConstructCopy(o, other) \/ Assign(o, other) \/ swap(o, other)

Spec == Init /\ [][Next]_vars

-----------------------------------------------------------------------------
(* Properties, each about a careful user.                                  *)

\* However readmem, resize, operator= and the constructors follow each other,
\* and whichever realloc fails, nothing beyond the end of a block is touched.
NoOverrun == careful => ~overrun

\* A buffer with data is never full: a zero byte follows the data, so that it
\* may be read as a string.  One object is left out, which got its memory in
\* operator=, where malloc is not followed by memset.
EndsInZero ==
  careful => \A o \in Buffer :
    buf[o].mem /\ buf[o].datalen > 0 =>
      /\ buf[o].datalen < buf[o].bufferlen
      /\ buf[o].tail = "zero" \/ "malloc not cleared" \in past[o]

\* The read offset is within the data, but for the objects whose constructor
\* did not set it, and those that lost their data to a failed realloc
\* (safebuffer.cpp:108 says that "offset must be 0" there).
OffsetInData ==
  careful => \A o \in Buffer :
    \/ buf[o].offset <= buf[o].datalen
    \/ past[o] \cap {"offset not set", "realloc failed"} # {}
=============================================================================
