---------------------------- MODULE BackgroundFlush ----------------------------
(***************************************************************************)
(* backgroundflush.Writer: Write fills one of two buffers while a          *)
(* goroutine writes out the other.  writeBuf and flushBuf count the        *)
(* buffers filled and flushed; a buffer's slot is its number modulo 2.     *)
(*                                                                         *)
(* Write loops inside Writer.lock and releases it only in cond.Wait, so    *)
(* the lock is a variable and each iteration a step.  A byte is            *)
(* represented by its position in the stream of bytes put into buffers.    *)
(***************************************************************************)
EXTENDS Integers, Sequences, FiniteSets

CONSTANTS
  Callers,    \* the goroutines that call Write and Flush
  Cap,        \* cap(bufs[i]): half the size given to NewWriter
  MaxBytes,   \* bound: bytes written altogether
  None        \* nobody

\* With a capacity of 0 (a size below 2) Write loops for ever in the lock.
ASSUME CapAssumption == Cap \in Nat \ {0}
ASSUME CallersAssumption == IsFiniteSet(Callers) /\ None \notin Callers
ASSUME BytesAssumption == MaxBytes \in Nat

VARIABLES
  writeBuf, flushBuf,   \* numbers of the buffer being filled and being flushed
  bufs,                 \* Writer.bufs
  flushErr,             \* Writer.flushErr
  fpc,                  \* the doFlush goroutine; flushActive unless "none"
  size,                 \* length of the slice doFlush passed to Write
  emitted,              \* bytes of it that the underlying writer took
  lock,                 \* Writer.lock: the caller that holds it between steps
  pc,                   \* where each caller is
  rest,                 \* bytes of each caller's Write not yet buffered
  target,               \* startFlush's target for each caller's Flush
  res,                  \* the error each call is about to return
  due,                  \* history: bytes buffered when the caller's Flush began
  asked,                \* bytes passed to Write so far
  accepted,             \* history: bytes buffered so far
  out                   \* the bytes the underlying writer received

bvars == <<writeBuf, flushBuf, bufs, flushErr>>
xvars == <<fpc, size, emitted>>
cvars == <<pc, rest, target, res, due>>
hvars == <<asked, accepted, out>>
vars == <<bvars, xvars, lock, cvars, hvars>>

Errors == {"nil", "fail"}
FlusherPCs == {"none", "spawned", "write"}
CallerPCs == {"idle", "write", "flush", "writewait", "flushwait", "writewoken", "flushwoken", "done"}

Init ==
  /\ writeBuf = 0 /\ flushBuf = 0
  /\ bufs = [s \in {0, 1} |-> <<>>]
  /\ flushErr = "nil"
  /\ fpc = "none" /\ size = 0 /\ emitted = 0
  /\ lock = None
  /\ pc = [g \in Callers |-> "idle"]
  /\ rest = [g \in Callers |-> 0]
  /\ target = [g \in Callers |-> 0]
  /\ res = [g \in Callers |-> "nil"]
  /\ due = [g \in Callers |-> 0]
  /\ asked = 0 /\ accepted = 0 /\ out = <<>>

-----------------------------------------------------------------------------
MayClose == writeBuf < flushBuf + 2

\* startFlush up to its wait: the buffer being filled, if it holds anything and
\* is not already waiting to be flushed, is closed, and a doFlush goroutine is
\* started unless one is active.
StartFlush(content) ==
  /\ writeBuf' = IF MayClose /\ content # <<>> THEN writeBuf + 1 ELSE writeBuf
  /\ fpc' = IF fpc = "none" THEN "spawned" ELSE fpc

CallWrite(g, n) ==
  /\ pc[g] = "idle"
  /\ lock = None
  /\ lock' = g
  /\ pc' = [pc EXCEPT ![g] = "write"]
  /\ rest' = [rest EXCEPT ![g] = n]
  /\ asked' = asked + n
  /\ UNCHANGED <<bvars, xvars, target, res, due, accepted, out>>

InWrite(g) == lock = g /\ pc[g] = "write" /\ rest[g] > 0 /\ flushErr = "nil"

\* Mutant: Write does not wait for the slot to be flushed.
BothWaitingLate == writeBuf > flushBuf + 2
BothWaiting == writeBuf > flushBuf + 1

\* Both buffers wait to be flushed: cond.Wait.
WriteWait(g) ==
  /\ InWrite(g)
  /\ BothWaiting
  /\ pc' = [pc EXCEPT ![g] = "writewait"]
  /\ lock' = None
  /\ UNCHANGED <<bvars, xvars, rest, target, res, due, hvars>>

Smaller(m, n) == IF m < n THEN m ELSE n

\* One iteration: as many bytes as fit are buffered, and a full buffer is flushed.
WriteSome(g) ==
  LET slot == writeBuf % 2
      n == Smaller(rest[g], Cap - Len(bufs[slot]))
      content == bufs[slot] \o [i \in 1..n |-> accepted + i]
  IN  /\ InWrite(g)
      /\ ~BothWaiting
      /\ bufs' = [bufs EXCEPT ![slot] = content]
      /\ rest' = [rest EXCEPT ![g] = @ - n]
      /\ accepted' = accepted + n
      /\ IF Len(content) = Cap THEN StartFlush(content) ELSE UNCHANGED <<writeBuf, fpc>>
      /\ UNCHANGED <<flushBuf, flushErr, size, emitted, lock, pc, target, res, due, asked, out>>

WriteEnd(g) ==
  /\ lock = g
  /\ pc[g] = "write"
  /\ rest[g] = 0 \/ flushErr # "nil"
  /\ pc' = [pc EXCEPT ![g] = "done"]
  /\ res' = [res EXCEPT ![g] = flushErr]
  /\ rest' = [rest EXCEPT ![g] = 0]
  /\ lock' = None
  /\ UNCHANGED <<bvars, xvars, target, due, hvars>>

FlushRefused(g) ==
  /\ pc[g] = "idle"
  /\ lock = None
  /\ flushErr # "nil"
  /\ pc' = [pc EXCEPT ![g] = "done"]
  /\ res' = [res EXCEPT ![g] = flushErr]
  /\ UNCHANGED <<bvars, xvars, lock, rest, target, due, hvars>>

\* Mutant: the flush waits for the buffers closed before it only.
FlushTargetOld == writeBuf
FlushTarget == writeBuf'

CallFlush(g) ==
  /\ pc[g] = "idle"
  /\ lock = None
  /\ flushErr = "nil"
  /\ StartFlush(bufs[writeBuf % 2])
  /\ target' = [target EXCEPT ![g] = FlushTarget]
  /\ due' = [due EXCEPT ![g] = accepted]
  /\ pc' = [pc EXCEPT ![g] = "flush"]
  /\ lock' = g
  /\ UNCHANGED <<flushBuf, bufs, flushErr, size, emitted, rest, res, hvars>>

\* The loop at the end of startFlush(true): wait for the target, or for an error.
FlushWait(g) ==
  /\ lock = g
  /\ pc[g] = "flush"
  /\ flushErr = "nil" /\ flushBuf < target[g]
  /\ pc' = [pc EXCEPT ![g] = "flushwait"]
  /\ lock' = None
  /\ UNCHANGED <<bvars, xvars, rest, target, res, due, hvars>>

FlushEnd(g) ==
  /\ lock = g
  /\ pc[g] = "flush"
  /\ flushErr # "nil" \/ flushBuf >= target[g]
  /\ pc' = [pc EXCEPT ![g] = "done"]
  /\ res' = [res EXCEPT ![g] = flushErr]
  /\ lock' = None
  /\ UNCHANGED <<bvars, xvars, rest, target, due, hvars>>

\* cond.Wait returns with the lock held.
Relock(g) ==
  /\ pc[g] \in {"writewoken", "flushwoken"}
  /\ lock = None
  /\ lock' = g
  /\ pc' = [pc EXCEPT ![g] = IF @ = "writewoken" THEN "write" ELSE "flush"]
  /\ UNCHANGED <<bvars, xvars, rest, target, res, due, hvars>>

Return(g) ==
  /\ pc[g] = "done"
  /\ pc' = [pc EXCEPT ![g] = "idle"]
  /\ res' = [res EXCEPT ![g] = "nil"]
  /\ target' = [target EXCEPT ![g] = 0]
  /\ due' = [due EXCEPT ![g] = 0]
  /\ UNCHANGED <<bvars, xvars, lock, rest, hvars>>

-----------------------------------------------------------------------------
\* Mutant: the loop does not look at the error.
GoesOnAnyway(f, e) == writeBuf > f
GoesOn(f, e) == e = "nil" /\ writeBuf > f

\* doFlush, with the lock, at its loop condition: take the next closed buffer
\* and unlock for the underlying Write, or stop.  f, b and e are flushBuf,
\* bufs and flushErr at that point.
DoFlush(f, b, e) ==
  LET go == GoesOn(f, e)
  IN  /\ flushBuf' = f
      /\ bufs' = b
      /\ flushErr' = e
      /\ fpc' = IF go THEN "write" ELSE "none"
      /\ size' = IF go THEN Len(b[f % 2]) ELSE 0
      /\ emitted' = 0
      /\ UNCHANGED <<writeBuf, lock, rest, target, res, due, hvars>>

FlusherStart ==
  /\ fpc = "spawned"
  /\ lock = None
  /\ DoFlush(flushBuf, bufs, flushErr)
  /\ UNCHANGED pc

\* The underlying Write reads the slice's memory without the lock.
EmitByte ==
  /\ fpc = "write"
  /\ emitted < size
  /\ out' = Append(out, bufs[flushBuf % 2][emitted + 1])
  /\ emitted' = emitted + 1
  /\ UNCHANGED <<bvars, fpc, size, lock, cvars, asked, accepted>>

\* Mutant: nobody is woken.
BroadcastNobody == UNCHANGED pc
Broadcast ==
  pc' = [g \in Callers |-> IF pc[g] = "writewait" THEN "writewoken"
                           ELSE IF pc[g] = "flushwait" THEN "flushwoken" ELSE pc[g]]

Emptied == [bufs EXCEPT ![flushBuf % 2] = <<>>]

\* It returned: the buffer is empty again and everybody who waits is woken.
FlusherWrote(e) ==
  /\ fpc = "write"
  /\ e = "nil" => emitted = size
  /\ lock = None
  /\ DoFlush(flushBuf + 1, Emptied, e)
  /\ Broadcast

-----------------------------------------------------------------------------
FlusherStep ==
  \/ FlusherStart
  \/ EmitByte
  \/ \E e \in Errors : FlusherWrote(e)

\* The steps of a call that does not have to wait for the lock.
CallStep(g) ==
  \/ WriteWait(g) \/ WriteSome(g) \/ WriteEnd(g)
  \/ FlushWait(g) \/ FlushEnd(g)
  \/ Return(g)

Call(g) ==
  \/ \E n \in 0..(MaxBytes - asked) : CallWrite(g, n)
  \/ FlushRefused(g)
  \/ CallFlush(g)

Next == FlusherStep \/ \E g \in Callers : Call(g) \/ CallStep(g) \/ Relock(g)

\* Goroutines are scheduled fairly, the underlying Write returns, and a
\* goroutine that waits for a sync.Mutex which is released again and again gets
\* it (its starvation mode hands it over).
Spec ==
  /\ Init /\ [][Next]_vars
  /\ WF_vars(EmitByte) /\ SF_vars(FlusherStart) /\ SF_vars(\E e \in Errors : FlusherWrote(e))
  /\ \A g \in Callers : WF_vars(CallStep(g)) /\ SF_vars(Relock(g))

-----------------------------------------------------------------------------
\* The types of the variables; at most both buffers wait to be flushed, which
\* Write checks with a panic.
TypeOK ==
  /\ writeBuf \in Nat /\ flushBuf \in Nat
  /\ writeBuf - flushBuf \in 0..2
  /\ bufs \in [{0, 1} -> Seq(1..MaxBytes)]
  /\ \A s \in {0, 1} : Len(bufs[s]) <= Cap
  /\ flushErr \in Errors
  /\ fpc \in FlusherPCs
  /\ size \in 0..Cap /\ emitted \in 0..size
  /\ lock \in Callers \cup {None}
  /\ pc \in [Callers -> CallerPCs]
  /\ rest \in [Callers -> 0..MaxBytes]
  /\ target \in [Callers -> Nat]
  /\ res \in [Callers -> Errors]
  /\ due \in [Callers -> 0..MaxBytes]
  /\ asked \in 0..MaxBytes /\ accepted \in 0..asked
  /\ out \in Seq(1..MaxBytes)

\* The underlying writer receives the stream in order although it reads a
\* buffer's memory without the lock: that buffer is not appended to meanwhile.
OutInOrder == \A i \in 1..Len(out) : out[i] = i

\* Nothing is lost: what is buffered and not yet written is in the buffers, until
\* the underlying writer fails.
NothingLost ==
  flushErr = "nil" => accepted = Len(out) - emitted + Len(bufs[0]) + Len(bufs[1])

\* The buffer invariant: between the two buffers and the output every byte is in
\* its place, whoever fills and whoever empties them.
BufferInv == TypeOK /\ OutInOrder /\ NothingLost

\* A Flush that returns no error has written out every byte that was buffered
\* when it was called, by whichever caller.
FlushCovers ==
  \A g \in Callers : pc[g] = "done" /\ res[g] = "nil" => due[g] <= Len(out)

\* After the underlying writer failed it is not called again and the error stays.
FailStop == [][flushErr # "nil" => flushErr' = flushErr /\ out' = out]_vars

\* Every Write and Flush returns: no wakeup is lost between the callers that wait
\* for room, the callers that wait for a flush and the goroutine.
CallReturns == \A g \in Callers : pc[g] # "idle" ~> pc[g] = "idle"

=============================================================================
