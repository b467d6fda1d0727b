---------------------------- MODULE BufferedWriter ----------------------------
(***************************************************************************)
(* parallelwriter.BufferedWriter: Write copies its bytes into a ring       *)
(* buffer, or blocks when they do not fit; a flusher goroutine performs    *)
(* the queued operations in order on the underlying WriteFlusher.          *)
(*                                                                         *)
(* A byte is represented by its position in the stream of bytes that Write *)
(* took in: a correct output is 1, 2, 3, ...  Each critical section of     *)
(* BufferedWriter.lock is one action.  The underlying Write runs outside   *)
(* the lock and reads the ring's memory one byte at a time while callers   *)
(* append to the ring.                                                     *)
(***************************************************************************)
EXTENDS RingBuffer, FiniteSets

CONSTANTS
  Callers,    \* the goroutines that call Write, Flush and Close
  MaxBytes,   \* bound: bytes taken in altogether
  MaxWrite,   \* bound: bytes of one Write
  NoCaller

ASSUME BytesAssumption == MaxBytes \in Nat /\ MaxWrite \in Nat /\ 1..MaxBytes \subseteq Bytes
ASSUME CallersAssumption == NoCaller \notin Callers /\ IsFiniteSet(Callers)

VARIABLES
  rb,         \* BufferedWriter.rb; unused when BufSize = 0 (rb == nil)
  closed,     \* BufferedWriter.closed
  err,        \* BufferedWriter.err
  ops,        \* BufferedWriter.ops, oldest first
  fpc,        \* where the flusher goroutine is
  cur,        \* the operation the flusher performs
  left,       \* bytes of the current bufferedOp not yet written: o.length - n
  win,        \* first slot of the slice the flusher passed to Write
  size,       \* length of the slice passed to Write
  emitted,    \* bytes of the slice that the underlying Write has written
  pc,         \* where each caller is
  opOf,       \* the operation a blocked caller waits for, named by its creator
  res,        \* the error each caller's call is about to return
  due,        \* history: how much of the stream a blocked call has to cover
  accepted,   \* history: bytes taken in
  out,        \* the bytes the underlying writer received, in order
  durable     \* history: bytes covered by a Flush that returned no error

bvars == <<rb, closed, err, ops>>
xvars == <<fpc, cur, left, win, size, emitted>>
cvars == <<pc, opOf, res, due>>
hvars == <<accepted, out, durable>>
vars == <<bvars, xvars, cvars, hvars>>

Errors == {"nil", "fail", "closed"}

\* Operations: bufferedOp with its length, flushOp and bufOp with the caller
\* that created them; a bufOp's buffer is a range of the stream.
BufferedOp(n) == [kind |-> "buffered", length |-> n, first |-> 0, owner |-> NoCaller]
FlushOp(g) == [kind |-> "flush", length |-> 0, first |-> 0, owner |-> g]
BufOp(g, n) == [kind |-> "buf", length |-> n, first |-> accepted + 1, owner |-> g]
Ops == [kind : {"buffered", "flush", "buf"}, length : 0..MaxBytes,
        first : 0..(MaxBytes + 1), owner : Callers \cup {NoCaller}]
NoOp == FlushOp(NoCaller)

Nothing == [written |-> 0, flushed |-> 0]

FlusherPCs == {"ready", "wait", "write", "flush", "exited"}
CallerPCs == {"idle", "blocked", "woken"}

Init ==
  /\ rb = NewRingBuffer
  /\ closed = FALSE
  /\ err = "nil"
  /\ ops = <<>>
  /\ fpc = "ready"
  /\ cur = NoOp
  /\ left = 0 /\ win = 0 /\ size = 0 /\ emitted = 0
  /\ pc = [g \in Callers |-> "idle"]
  /\ opOf = [g \in Callers |-> NoCaller]
  /\ res = [g \in Callers |-> "nil"]
  /\ due = [g \in Callers |-> Nothing]
  /\ accepted = 0 /\ out = <<>> /\ durable = 0

-----------------------------------------------------------------------------
\* Mutant: the flusher is not woken.
SignalNot == UNCHANGED fpc
\* cond.Signal: wakes the flusher if it waits, and is lost otherwise.
Signal == fpc' = IF fpc = "wait" THEN "ready" ELSE fpc

\* Write and Flush are refused after an error or after Close.
Refused(g) ==
  /\ pc[g] = "idle"
  /\ err # "nil" \/ closed
  /\ res' = [res EXCEPT ![g] = IF err # "nil" THEN err ELSE "closed"]
  /\ pc' = [pc EXCEPT ![g] = "woken"]
  /\ UNCHANGED <<bvars, xvars, opOf, due, hvars>>

Accepting(g) == pc[g] = "idle" /\ err = "nil" /\ ~closed

Fits(n) == BufSize > 0 /\ n <= Free(rb)

\* ops.PushFront.  Mutant: operations are queued at the wrong end.
PushBack(o) == <<o>> \o ops
Push(o) == Append(ops, o)

\* A bufferedOp at the front of the list (our end) grows; otherwise a new one
\* is pushed and the flusher is signalled.
Front(kind) == ops # <<>> /\ ops[Len(ops)].kind = kind

\* Write of n bytes that fit: they are copied and Write returns.
WriteBuffered(g, n) ==
  /\ Accepting(g)
  /\ Fits(n)
  /\ \/ /\ Front("buffered")
        /\ ops' = [ops EXCEPT ![Len(ops)].length = @ + n]
        /\ UNCHANGED fpc
     \/ /\ ~Front("buffered")
        /\ ops' = Push(BufferedOp(n))
        /\ Signal
  /\ rb' = AppendBytes(rb, [i \in 1..n |-> accepted + i])
  /\ accepted' = accepted + n
  /\ UNCHANGED <<closed, err, cur, left, win, size, emitted, cvars, out, durable>>

\* writeBlocking: the buffer itself is queued and Write waits for it.
WriteBlocking(g, n) ==
  /\ Accepting(g)
  /\ ~Fits(n)
  /\ ops' = Push(BufOp(g, n))
  /\ Signal
  /\ accepted' = accepted + n
  /\ due' = [due EXCEPT ![g] = [written |-> accepted + n, flushed |-> 0]]
  /\ opOf' = [opOf EXCEPT ![g] = g]
  /\ pc' = [pc EXCEPT ![g] = "blocked"]
  /\ UNCHANGED <<rb, closed, err, cur, left, win, size, emitted, res, out, durable>>

\* Flush joins the flushOp at the front of the list or pushes its own, and
\* waits for it.
Flush(g) ==
  /\ Accepting(g)
  /\ \/ /\ Front("flush")
        /\ opOf' = [opOf EXCEPT ![g] = ops[Len(ops)].owner]
        /\ UNCHANGED <<ops, fpc>>
     \/ /\ ~Front("flush")
        /\ ops' = Push(FlushOp(g))
        /\ opOf' = [opOf EXCEPT ![g] = g]
        /\ Signal
  /\ due' = [due EXCEPT ![g] = [written |-> accepted, flushed |-> accepted]]
  /\ pc' = [pc EXCEPT ![g] = "blocked"]
  /\ UNCHANGED <<rb, closed, err, cur, left, win, size, emitted, res, hvars>>

\* A caller whose operation is done takes the lock again and returns res.
Return(g) ==
  /\ pc[g] = "woken"
  /\ pc' = [pc EXCEPT ![g] = "idle"]
  /\ opOf' = [opOf EXCEPT ![g] = NoCaller]
  /\ res' = [res EXCEPT ![g] = "nil"]
  /\ due' = [due EXCEPT ![g] = Nothing]
  /\ UNCHANGED <<bvars, xvars, hvars>>

\* Close only marks the writer: what is buffered or queued is dropped when the
\* flusher sees the mark.
Close(g) ==
  /\ pc[g] = "idle"
  /\ closed' = TRUE
  /\ Signal
  /\ res' = [res EXCEPT ![g] = err]
  /\ pc' = [pc EXCEPT ![g] = "woken"]
  /\ UNCHANGED <<rb, err, ops, cur, left, win, size, emitted, opOf, due, hvars>>

-----------------------------------------------------------------------------
\* How much of the ring is passed to one underlying Write, if l bytes are left.
Part(r, l) == Smaller(l, PeekLen(r, 0))

\* The slice that the flusher passes to the underlying Write for l more bytes of
\* o: of the ring, one contiguous part at most; of a caller's buffer, all of it.
Window(r, o, l) ==
  /\ win' = IF o.kind = "buffered" THEN PeekStart(r, 0) ELSE 0
  /\ size' = IF o.kind = "buffered" THEN Part(r, l) ELSE l
  /\ left' = l
  /\ emitted' = 0

\* The flusher, holding the lock, takes the oldest operation and unlocks for
\* the underlying call, or waits.  An empty bufferedOp is done without a call.
Begin(r) ==
  LET empty == ops # <<>> /\ Head(ops).kind = "buffered" /\ Head(ops).length = 0
      queue == IF empty THEN Tail(ops) ELSE ops
  IN  \/ /\ queue = <<>>
         /\ fpc' = "wait"
         /\ ops' = queue
         /\ cur' = NoOp
         /\ Window(r, NoOp, 0)
      \/ /\ queue # <<>>
         /\ fpc' = IF Head(queue).kind = "flush" THEN "flush" ELSE "write"
         /\ ops' = Tail(queue)
         /\ cur' = Head(queue)
         /\ Window(r, cur', cur'.length)

\* The flusher leaves its loop: the queued operations are dropped.
Exit ==
  /\ fpc' = "exited"
  /\ ops' = <<>>
  /\ cur' = NoOp
  /\ Window(rb, NoOp, 0)

\* close(done): the callers that wait for an operation whose error is not "none"
\* are woken with it.
Wake(outcome) ==
  LET woken(g) == pc[g] = "blocked" /\ outcome[opOf[g]] # "none"
  IN  /\ pc' = [g \in Callers |-> IF woken(g) THEN "woken" ELSE pc[g]]
      /\ res' = [g \in Callers |-> IF woken(g) THEN outcome[opOf[g]] ELSE res[g]]
      /\ UNCHANGED <<opOf, due>>

\* Mutant: the operations that are dropped are not completed.
OwnersNone == {}
Owners == {ops[i].owner : i \in 1..Len(ops)}

\* Mutant: the flusher goes on after an error.
StopsNot(e) == closed
Stops(e) == e # "nil" \/ closed

\* The rest of the flusher's critical section once the current operation ended
\* with e: its callers are woken, and the flusher stops or begins the next
\* operation.  When it stops, the queued operations fail with the same error, or
\* with ErrClosed.
OpDone(r, e) ==
  LET error == IF e # "nil" THEN e ELSE err
      stop == Stops(error)
      dropped == IF error # "nil" THEN error ELSE "closed"
  IN  /\ rb' = r
      /\ err' = error
      /\ IF stop THEN Exit ELSE Begin(r)
      /\ Wake([o \in Callers |-> IF o = cur.owner THEN e
                               ELSE IF stop /\ o \in Owners THEN dropped ELSE "none"])
      /\ UNCHANGED closed

\* The flusher starts, or its cond.Wait returns.
Resume ==
  /\ fpc = "ready"
  /\ OpDone(rb, "nil")
  /\ UNCHANGED hvars

\* The underlying Write takes the next byte of its slice, out of the memory that
\* the ring shares with the callers ...
EmitByte ==
  /\ fpc = "write"
  /\ emitted < size
  /\ out' = Append(out, IF cur.kind = "buffered" THEN rb.buf[win + emitted]
                        ELSE cur.first + emitted)
  /\ emitted' = emitted + 1
  /\ UNCHANGED <<bvars, fpc, cur, left, win, size, cvars, accepted, durable>>

\* Mutant: what was written stays in the ring.
ConsumedNot == rb
Consumed == IF cur.kind = "buffered" THEN Consume(rb, emitted) ELSE rb

\* ... and returns, with an error if it is short (io.Writer).  What it wrote is
\* consumed, and the flusher continues with the rest of the bufferedOp: the
\* part after the wrap around.
WriteReturn(e) ==
  LET r == Consumed
      more == cur.kind = "buffered" /\ e = "nil" /\ left > emitted
  IN  /\ fpc = "write"
      /\ e = "nil" => emitted = size
      /\ \/ /\ more
            /\ rb' = r
            /\ Window(r, cur, left - emitted)
            /\ UNCHANGED <<closed, err, ops, fpc, cur, cvars>>
         \/ ~more /\ OpDone(r, e)
      /\ UNCHANGED hvars

FlushReturn(e) ==
  /\ fpc = "flush"
  /\ durable' = IF e = "nil" THEN Len(out) ELSE durable
  /\ OpDone(rb, e)
  /\ UNCHANGED <<accepted, out>>

FlusherStep ==
  \/ Resume
  \/ EmitByte
  \/ \E e \in {"nil", "fail"} : WriteReturn(e) \/ FlushReturn(e)

-----------------------------------------------------------------------------
Call(g) ==
  \/ Refused(g)
  \/ \E n \in 0..Smaller(MaxWrite, MaxBytes - accepted) :
       WriteBuffered(g, n) \/ WriteBlocking(g, n)
  \/ Flush(g)
  \/ Close(g)

Next == FlusherStep \/ \E g \in Callers : Call(g) \/ Return(g)

\* Goroutines are scheduled fairly and the underlying Write and Flush return;
\* nobody is obliged to call.
Spec ==
  /\ Init /\ [][Next]_vars
  /\ WF_vars(FlusherStep)
  /\ \A g \in Callers : WF_vars(Return(g))

-----------------------------------------------------------------------------
\* The types of the variables, the indices inside the ring's array.
TypeOK ==
  /\ rb \in Rings
  /\ rb.length <= BufSize
  /\ BufSize > 0 => rb.start \in Slots
  /\ closed \in BOOLEAN
  /\ err \in {"nil", "fail"}
  /\ ops \in Seq(Ops)
  /\ fpc \in FlusherPCs
  /\ cur \in Ops
  /\ left \in 0..MaxBytes /\ size \in 0..left /\ emitted \in 0..size
  /\ win \in Nat /\ (size > 0 /\ cur.kind = "buffered" => win + size <= BufSize)
  /\ pc \in [Callers -> CallerPCs]
  /\ opOf \in [Callers -> Callers \cup {NoCaller}]
  /\ res \in [Callers -> Errors]
  /\ due \in [Callers -> [written : 0..MaxBytes, flushed : 0..MaxBytes]]
  /\ accepted \in 0..MaxBytes
  /\ out \in Seq(Bytes)
  /\ durable \in 0..Len(out)

\* The underlying writer receives the stream in order, whether the bytes went
\* through the ring or blocked, although the flusher reads the ring's memory
\* without the lock while callers append to it.
OutInOrder == Len(out) <= accepted /\ \A i \in 1..Len(out) : out[i] = i

\* A blocking Write that returns no error has been written, and a Flush that
\* returns no error has flushed every byte taken in before it was called, also
\* when it joined the flushOp of another caller.
AckCovers ==
  \A g \in Callers : pc[g] = "woken" /\ res[g] = "nil" =>
    due[g].written <= Len(out) /\ due[g].flushed <= durable

\* The bytes in the ring are those of the bufferedOps still to be performed, so
\* that neither Append nor Consume can meet its panic.
OpBytes(q) ==
  Cardinality({x \in (1..Len(q)) \X (1..MaxBytes) :
                 q[x[1]].kind = "buffered" /\ x[2] <= q[x[1]].length})
RingMatchesOps ==
  fpc # "exited" => rb.length = OpBytes(ops) + IF cur.kind = "buffered" THEN left ELSE 0

\* The stream invariant: the three accounts of the bytes in flight, the ring, the
\* list of operations and the output, agree in every state.
StreamInv == TypeOK /\ RingMatchesOps /\ OutInOrder

\* After the underlying writer failed it is not called again (the tests'
\* failingWriter panics on such a call) and the error stays.
FailStop == [][err # "nil" => err' = err /\ out' = out /\ durable' = durable]_vars

\* Every blocked Write and Flush returns, after an error and after Close too.
CallReturns == \A g \in Callers : pc[g] = "blocked" ~> pc[g] = "idle"

\* What Write took in reaches the underlying writer without a Flush, unless the
\* writer fails or is closed (TestBufferedWriterShortWrite).
AcceptedIsWritten ==
  \A n \in 1..MaxBytes : accepted >= n ~> Len(out) >= n \/ err # "nil" \/ closed

=============================================================================
