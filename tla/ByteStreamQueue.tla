-------------------------- MODULE ByteStreamQueue --------------------------
(***************************************************************************)
(* The ring buffer of util/bytestream_queue.cc: bytes between the two      *)
(* indexes are in the queue, and one slot always stays free, so that equal *)
(* indexes mean an empty queue.  push() and pop() move at most up to the   *)
(* end of the buffer at a time.  size_t wraps around inside the            *)
(* expressions of available_to_push() and available_to_pop() only, never   *)
(* in their results, so the operators use integers.                        *)
(***************************************************************************)
EXTENDS Integers, Sequences

CONSTANTS
  BufferSize,  \* size of buffer_
  Byte         \* the bytes a stream is made of

\* assert( size > 1 ) in the constructor.
ASSUME BufferSizeAssumption == BufferSize \in Nat /\ BufferSize > 1

\* buffer_ is filled with zeroes at first: any byte does.
ASSUME ByteAssumption == 0 \in Byte

-----------------------------------------------------------------------------
Slots == 0 .. BufferSize - 1

ByteQueue == [buffer : [Slots -> Byte], push : Slots, pop : Slots]

EmptyByteQueue == [buffer |-> [i \in Slots |-> 0], push |-> 0, pop |-> 0]

AvailableToPop(q) == q.push - q.pop + (IF q.pop > q.push THEN BufferSize ELSE 0)

AvailableToPush(q) == q.pop - q.push - 1 + (IF q.pop > q.push THEN 0 ELSE BufferSize)

SpaceAvailable(q) == AvailableToPush(q) > 0

NonEmpty(q) == AvailableToPop(q) > 0

\* From index i, n bytes or what is left up to the end of the buffer.
UpToEnd(i, n) == IF i + n >= BufferSize THEN BufferSize - i ELSE n

ContiguousToPush(q) == UpToEnd(q.push, AvailableToPush(q))

ContiguousToPop(q) == UpToEnd(q.pop, AvailableToPop(q))

Wrapped(i) == IF i = BufferSize THEN 0 ELSE i

\* push() after a read that returned the bytes of chunk.
Push(q, chunk) ==
  [buffer |-> [i \in Slots |-> IF i \in q.push .. q.push + Len(chunk) - 1
                                 THEN chunk[i - q.push + 1]
                                 ELSE q.buffer[i]],
   push   |-> Wrapped(q.push + Len(chunk)),
   pop    |-> q.pop]

\* pop() after a write that took n bytes.
Pop(q, n) == [q EXCEPT !.pop = Wrapped(@ + n)]

-----------------------------------------------------------------------------
\* The slot i places after the one to pop next, and the bytes in the queue,
\* oldest first.
SlotAfter(q, i) == IF q.pop + i >= BufferSize THEN q.pop + i - BufferSize ELSE q.pop + i

BytesIn(q) == [i \in 1 .. AvailableToPop(q) |-> q.buffer[SlotAfter(q, i - 1)]]
=============================================================================
