----------------------------- MODULE SendBuffer -----------------------------
(***************************************************************************)
(* The bytes uvcpp has been given and not yet written (uvcppclient/        *)
(* uvcpp.cpp: send, allocSendBuf, write).  Any thread appends to _sendBuf, *)
(* and the loop thread takes from its front what uv_try_write took, both   *)
(* under _sendBufLock.  What the bytes are is in UvCpp; here it is how     *)
(* many there are, and whether the block _sendBuf points to has room.      *)
(*                                                                         *)
(* send asks allocSendBuf for _sendLen - len - _sendOffset bytes, which in *)
(* unsigned int is a huge number; the sum and the product in allocSendBuf  *)
(* wrap it back, to 2 * (_sendLen - len).  A careful user sends pieces of  *)
(* at most a third of DEFAULT_BUFFER_LEN and never has more than           *)
(* MaxPending bytes waiting.                                               *)
(*                                                                         *)
(* Some names begin with Buffer, so that UvCpp and this module can be      *)
(* extended together.                                                      *)
(***************************************************************************)
EXTENDS Integers

CONSTANTS
  DEFAULT_BUFFER_LEN,  \* 1024 in the code
  UINT,                \* number of values of an unsigned int
  MaxPending           \* the bytes a careful user may have waiting

BUFFER_INCREASE_FACTOR == 2

ASSUME SendAssumption ==
  /\ DEFAULT_BUFFER_LEN \in Nat \ {0} /\ UINT \in Nat /\ MaxPending \in Nat
  /\ DEFAULT_BUFFER_LEN < UINT
  /\ BUFFER_INCREASE_FACTOR * MaxPending <= UINT

UnsignedInt == 0 .. UINT - 1

VARIABLES
  _sendLen,     \* the size of the block, as recorded
  _sendOffset,  \* number of bytes waiting
  room,         \* the size of the block
  fault,        \* what went wrong with the memory; then the model stops
  careful       \* does the user keep to the rules above?

bufferVars == <<_sendLen, _sendOffset, room, fault, careful>>

BufferTypeOK ==
  /\ _sendLen \in UnsignedInt /\ _sendOffset \in UnsignedInt /\ room \in UnsignedInt
  /\ fault \in {"none", "overrun", "use after free"}
  /\ careful \in BOOLEAN

BufferInit ==
  /\ _sendLen = DEFAULT_BUFFER_LEN /\ room = DEFAULT_BUFFER_LEN
  /\ _sendOffset = 0
  /\ fault = "none" /\ careful \in BOOLEAN

-----------------------------------------------------------------------------
\* Unsigned arithmetic.
Wrap(n) == n % UINT

\* Faulty variant: the new size is what is asked for.
NewSizeNoFactor(needSize) == Wrap(_sendOffset + needSize)

NewSize(needSize) == Wrap((_sendOffset + needSize) * BUFFER_INCREASE_FACTOR)

Allocated(len, size, kind) == [len |-> len, room |-> size, fault |-> kind]

\* The result of realloc is only tested.  When the block has moved, or has been
\* freed because its new size is 0, _sendBuf still points to where it was;
\* when realloc failed the bytes are copied to a new block.
allocSendBuf(needSize, outcome) ==
  LET newSize == NewSize(needSize) IN
  Allocated(newSize, newSize,
            CASE outcome = "moved" \/ newSize = 0              -> "use after free"
              [] outcome = "failed" /\ newSize < _sendOffset -> "overrun"
              [] OTHER                                       -> "none")

\* Faulty variant: the block may be filled one byte too far.
FullOffByOne(len) == Wrap(len + _sendOffset) > _sendLen + 1

Full(len) == Wrap(len + _sendOffset) > _sendLen

\* The block memcpy appends to.
BlockFor(len) ==
  IF Full(len)
  THEN {allocSendBuf(Wrap(_sendLen - len - _sendOffset), outcome) :
          outcome \in {"in place", "moved", "failed"}}
  ELSE {Allocated(_sendLen, room, "none")}

send(len) ==
  /\ fault = "none"
  /\ careful => /\ 3 * len <= DEFAULT_BUFFER_LEN
                /\ _sendOffset + len <= MaxPending
  /\ \E block \in BlockFor(len) :
       /\ _sendLen' = block.len
       /\ room' = block.room
       /\ fault' = IF block.fault = "none" /\ _sendOffset + len > block.room
                   THEN "overrun" ELSE block.fault
  /\ _sendOffset' = Wrap(_sendOffset + len)
  /\ UNCHANGED careful

\* uv_try_write took n bytes; the others move to the front.
write(n) ==
  /\ fault = "none"
  /\ n <= _sendOffset
  /\ _sendOffset' = _sendOffset - n
  /\ UNCHANGED <<_sendLen, room, fault, careful>>

BufferNext == \E n \in UnsignedInt \ {0} : send(n) \/ write(n)

BufferSpec == BufferInit /\ [][BufferNext]_bufferVars
-----------------------------------------------------------------------------
(* Properties.                                                             *)

\* As long as nothing went wrong, the size that send and allocSendBuf reckon
\* with is the size of the block.
SizeIsReal == fault = "none" => room = _sendLen

\* For a careful user the bytes waiting fit in the block, although send asks
\* for a negative number of them: a third of the first size is small enough
\* for twice the size without the new piece to be room for it, and memcpy
\* never runs over.  (A bigger piece may halve the buffer, or free it.)
BytesFit == careful => _sendOffset <= _sendLen /\ fault # "overrun"

\* For a careful user the buffer never gets smaller (allocSendBuf: the product
\* of the negative number is above the size there was, and does not wrap).
NeverShrinks == [][careful => _sendLen <= _sendLen']_bufferVars
=============================================================================
