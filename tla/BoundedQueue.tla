----------------------------- MODULE BoundedQueue -----------------------------
(***************************************************************************)
(* What a ring buffer promises: a FIFO queue of at most Capacity bytes.    *)
(* Append takes as many of the given bytes as fit, in order; Consume drops *)
(* bytes from the front.                                                   *)
(***************************************************************************)
EXTENDS Integers, Sequences

CONSTANTS Capacity, Values

VARIABLES
  queue,    \* the contents
  offered,  \* the bytes given to the last Append
  taken     \* how many of them it took

QueueInit == queue = <<>> /\ offered = <<>> /\ taken = 0

QueueAppend(b) ==
  /\ offered' = b
  /\ taken' = IF Len(b) <= Capacity - Len(queue) THEN Len(b) ELSE Capacity - Len(queue)
  /\ queue' = queue \o SubSeq(b, 1, taken')

QueueConsume(n) ==
  /\ n <= Len(queue)
  /\ queue' = SubSeq(queue, n + 1, Len(queue))
  /\ UNCHANGED <<offered, taken>>

QueueNext ==
  \/ \E n \in 0..(Capacity + 1) : \E b \in [1..n -> Values] : QueueAppend(b)
  \/ \E n \in 0..Capacity : QueueConsume(n)

QueueSpec == QueueInit /\ [][QueueNext]_<<queue, offered, taken>>

=============================================================================
