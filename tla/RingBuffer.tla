------------------------------ MODULE RingBuffer ------------------------------
(***************************************************************************)
(* ringbuffer.RingBuffer as operators on its state, a record of the byte   *)
(* array, the index of the first byte and the number of bytes held.        *)
(***************************************************************************)
EXTENDS Integers, Sequences

CONSTANTS
  BufSize,   \* len(buf)
  Bytes,     \* the values a byte can take
  Zero       \* the value of a fresh byte

ASSUME BufSizeAssumption == BufSize \in Nat
ASSUME ZeroAssumption == Zero \in Bytes

Slots == 0..(BufSize - 1)
Rings == [buf : [Slots -> Bytes], start : Nat, length : Nat]

NewRingBuffer == [buf |-> [i \in Slots |-> Zero], start |-> 0, length |-> 0]

Smaller(m, n) == IF m < n THEN m ELSE n

Free(r) == BufSize - r.length

\* The write position.
BlockEnd(r) == (r.start + r.length) % BufSize

\* How much of n bytes one writeBlock copies: what fits, up to the array's end.
BlockLen(r, n) == Smaller(Smaller(n, Free(r)), BufSize - BlockEnd(r))

WriteBlock(r, b) ==
  LET end == BlockEnd(r)
      copied == BlockLen(r, Len(b))
  IN  [buf |-> [i \in Slots |-> IF i \in end..(end + copied - 1)
                                THEN b[i - end + 1] ELSE r.buf[i]],
       start |-> r.start,
       length |-> r.length + copied]

\* Mutant: the part that wraps around is taken from the start of b again.
AppendRestarts(r, b) ==
  LET n == BlockLen(r, Len(b))
  IN  WriteBlock(WriteBlock(r, b), SubSeq(b, 1, Len(b) - n))

\* Append repeats writeBlock until a block is empty or b is exhausted.  The
\* second block is the part that wraps around, and a third one would find b
\* exhausted or the ring full.
AppendBytes(r, b) ==
  LET n == BlockLen(r, Len(b))
  IN  WriteBlock(WriteBlock(r, b), SubSeq(b, n + 1, Len(b)))

\* The number of bytes Append reports; less than Len(b) with ErrBufferFull.
AppendCount(r, b) == AppendBytes(r, b).length - r.length

PeekStart(r, off) == (r.start + off) % BufSize

PeekLen(r, off) == Smaller(r.length - off, BufSize - PeekStart(r, off))

\* The slice Peek returns: the bytes from off up to the wrap around.
Peek(r, off) == [i \in 1..PeekLen(r, off) |-> r.buf[PeekStart(r, off) + i - 1]]

\* Mutant: the bytes after the wrap around are not copied.
FetchBefore(r, n, off) ==
  LET fetchLen == Smaller(n, r.length - off)
      before == Smaller(fetchLen, BufSize - PeekStart(r, off))
  IN  [i \in 1..before |-> r.buf[PeekStart(r, off) + i - 1]]

\* Fetch copies up to n bytes from off on: those before the wrap around, then
\* those after it.
Fetch(r, n, off) ==
  LET fetchLen == Smaller(n, r.length - off)
      before == Smaller(fetchLen, BufSize - PeekStart(r, off))
  IN  [i \in 1..before |-> r.buf[PeekStart(r, off) + i - 1]]
        \o [i \in 1..(fetchLen - before) |-> r.buf[i - 1]]

\* Consume panics when count > r.length.
Consume(r, count) ==
  [buf |-> r.buf,
   start |-> IF r.length = count THEN 0 ELSE (r.start + count) % BufSize,
   length |-> r.length - count]

=============================================================================
