--------------------------- MODULE RingBufferClient ---------------------------
(***************************************************************************)
(* A ring buffer under every sequence of calls by its (single) client.     *)
(***************************************************************************)
EXTENDS RingBuffer

VARIABLES
  ring,    \* the ring buffer
  given,   \* the bytes given to the last Append
  count    \* what it reported

ringVars == <<ring, given, count>>

\* NewRingBuffer panics when the size is zero.
RingInit == BufSize > 0 /\ ring = NewRingBuffer /\ given = <<>> /\ count = 0

DoAppend(b) ==
  /\ ring' = AppendBytes(ring, b)
  /\ given' = b
  /\ count' = AppendCount(ring, b)

DoConsume(n) ==
  /\ n <= ring.length
  /\ ring' = Consume(ring, n)
  /\ UNCHANGED <<given, count>>

RingNext ==
  \/ \E n \in 0..(BufSize + 1) : \E b \in [1..n -> Bytes] : DoAppend(b)
  \/ \E n \in 0..BufSize : DoConsume(n)

RingSpec == RingInit /\ [][RingNext]_ringVars

-----------------------------------------------------------------------------
\* The contents of the ring, oldest byte first.
Contents == [i \in 1..ring.length |-> ring.buf[(ring.start + i - 1) % BufSize]]

\* The types of the variables, with the indices inside the array.
RingTypeOK ==
  /\ ring \in Rings
  /\ ring.start \in Slots
  /\ ring.length \in 0..BufSize
  /\ given \in Seq(Bytes)
  /\ count \in 0..Len(given)

\* The ring buffer implements the bounded FIFO queue: Append adds the very bytes it
\* was given, as many as it reports, on whichever sides of the wrap around they are
\* stored, and Consume, with its reset of start, drops the oldest and no others.
Queue == INSTANCE BoundedQueue
           WITH Capacity <- BufSize, Values <- Bytes, queue <- Contents, offered <- given, taken <- count
ImplementsQueue == Queue!QueueSpec

\* Peek at any offset returns a prefix of the queue from there on, and never
\* an empty one while bytes remain (a reader that loops on Peek progresses).
PeekIsPrefix ==
  \A off \in 0..ring.length :
    LET p == Peek(ring, off)
    IN  /\ p = SubSeq(Contents, off + 1, off + Len(p))
        /\ p = <<>> => off = ring.length

\* Fetch at any offset returns all the requested bytes that exist, also when
\* they lie on both sides of the wrap around.
FetchIsExact ==
  \A off \in 0..ring.length, n \in 0..(BufSize + 1) :
    Fetch(ring, n, off) = SubSeq(Contents, off + 1, off + Smaller(n, ring.length - off))

\* What a reader is given, by Peek or by Fetch, is what the ring holds, at every
\* offset and every position of the wrap around.  (That it holds what was appended
\* is ImplementsQueue.)
ReadsAgree == RingTypeOK /\ PeekIsPrefix /\ FetchIsExact

=============================================================================
