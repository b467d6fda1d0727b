-------------------------- MODULE PipelinedFlushWriter --------------------------
(***************************************************************************)
(* parallelwriter.PipelinedFlushWriter: a Writer whose underlying writer   *)
(* is pipelinedWriteAdapter.  After each successful underlying Write the   *)
(* adapter takes flushLock, publishes a new flushDone channel and starts a *)
(* goroutine that flushes, so that the flush of one batch overlaps the     *)
(* Write of the next.  A caller's Write returns once the flush that was    *)
(* the latest when it looked has finished.                                 *)
(*                                                                         *)
(* The module shows the inner Writer to behave as ParallelWriter says: for *)
(* it, the adapter's wait for flushLock is part of the underlying Write.   *)
(*                                                                         *)
(* Flushes, their goroutines and their channels are numbered: flush k is   *)
(* run by goroutine k, which closes channel k.                             *)
(***************************************************************************)
EXTENDS ParallelWriter

CONSTANT MaxFlushes   \* bound: flush goroutines started
ASSUME MaxFlushesAssumption == MaxFlushes \in Nat
Flushes == 1..MaxFlushes

VARIABLES
  flushLock,  \* PipelinedFlushWriter.flushLock
  flushDone,  \* number of the latest flush channel, 0 for nil
  flushErr,   \* PipelinedFlushWriter.flushErr
  flusher,    \* where each flush goroutine is
  snap,       \* the buffers written when flush k was called
  ch,         \* the channel each caller waits on
  durable,    \* history: the buffers covered by a Flush that returned no error
  confirmed   \* history: buffers whose Write returned no error

fvars == <<flushLock, flushDone, flushErr, flusher, snap, ch, durable, confirmed>>
pvars == <<wvars, fvars>>
\* The variables of the inner Writer that a step of the adapter leaves alone.
innerVars == <<calls, lead, batch, sent, res, buf, err, writeLock, out, order>>

FlusherPCs == {"none", "spawned", "flush", "error", "close", "unlock", "exited"}
PipelinedPCs == WriterPCs \cup {"flushlock", "start", "await"}

Closed(k) == flusher[k] \in {"unlock", "exited"}

Init ==
  /\ WriterInit
  /\ flushLock = "free"
  /\ flushDone = 0
  /\ flushErr = "nil"
  /\ flusher = [k \in Flushes |-> "none"]
  /\ snap = [k \in Flushes |-> {}]
  /\ ch = [g \in Writers |-> 0]
  /\ durable = {}
  /\ confirmed = {}

-----------------------------------------------------------------------------
\* Mutant: the adapter goes on after a failed Write.
WriteFailedNever(e) == FALSE
WriteFailed(e) == e # "nil"

\* pipelinedWriteAdapter.Write: the underlying Write failed and so does the
\* adapter's, or it succeeded and the adapter goes for flushLock.
AdapterWriteReturn(g, e) ==
  /\ SinkReturn(g, e)
  /\ \/ /\ WriteFailed(e)
        /\ werr' = [werr EXCEPT ![g] = e]
        /\ pc' = [pc EXCEPT ![g] = "wrote"]
     \/ /\ ~WriteFailed(e)
        /\ pc' = [pc EXCEPT ![g] = "flushlock"]
        /\ UNCHANGED werr
  /\ UNCHANGED <<innerVars, acked, fvars>>

\* Mutant: the adapter does not wait for the previous flush.
FlushUnlockedAlways == TRUE
FlushUnlocked == flushLock = "free"

AcquireFlushLock(g) ==
  /\ pc[g] = "flushlock"
  /\ FlushUnlocked
  /\ flushLock' = "held"
  /\ pc' = [pc EXCEPT ![g] = "start"]
  /\ UNCHANGED <<innerVars, werr, acked, flushDone, flushErr, flusher, snap, ch, durable, confirmed>>

Publish == flushDone' = flushDone + 1

\* It publishes a new channel, starts the flush goroutine and returns.
StartFlush(g) ==
  /\ pc[g] = "start"
  /\ flushDone < MaxFlushes
  /\ Publish
  /\ flusher' = [flusher EXCEPT ![flushDone + 1] = "spawned"]
  /\ werr' = [werr EXCEPT ![g] = "nil"]
  /\ pc' = [pc EXCEPT ![g] = "wrote"]
  /\ UNCHANGED <<innerVars, acked, flushLock, flushErr, snap, ch, durable, confirmed>>

\* The flush goroutine calls Flush, which covers what is written by then.
FlushCall(k) ==
  /\ flusher[k] = "spawned"
  /\ flusher' = [flusher EXCEPT ![k] = "flush"]
  /\ snap' = [snap EXCEPT ![k] = {out[i] : i \in 1..Len(out)}]
  /\ UNCHANGED <<wvars, flushLock, flushDone, flushErr, ch, durable, confirmed>>

FlushReturn(k, e) ==
  /\ flusher[k] = "flush"
  /\ flusher' = [flusher EXCEPT ![k] = IF e = "nil" THEN "close" ELSE "error"]
  /\ durable' = IF e = "nil" THEN durable \cup snap[k] ELSE durable
  /\ UNCHANGED <<wvars, flushLock, flushDone, flushErr, snap, ch, confirmed>>

\* Mutant: the channel of a failed flush is closed without storing the error.
StoreErrorNot == UNCHANGED flushErr
StoreError == flushErr' = "fail"

\* A failed flush stores the error before it closes the channel.
RecordFlushError(k) ==
  /\ flusher[k] = "error"
  /\ StoreError
  /\ flusher' = [flusher EXCEPT ![k] = "close"]
  /\ UNCHANGED <<wvars, flushLock, flushDone, snap, ch, durable, confirmed>>

CloseFlushDone(k) ==
  /\ flusher[k] = "close"
  /\ flusher' = [flusher EXCEPT ![k] = "unlock"]
  /\ UNCHANGED <<wvars, flushLock, flushDone, flushErr, snap, ch, durable, confirmed>>

\* Mutant: the flush goroutine exits without unlocking flushLock.
UnlockFlushNot == UNCHANGED flushLock
UnlockFlush == flushLock' = "free"

\* The deferred Unlock runs after the close.
ReleaseFlushLock(k) ==
  /\ flusher[k] = "unlock"
  /\ UnlockFlush
  /\ flusher' = [flusher EXCEPT ![k] = "exited"]
  /\ UNCHANGED <<wvars, flushDone, flushErr, snap, ch, durable, confirmed>>

\* PipelinedFlushWriter.Write once the inner Write returned: an error is passed
\* on, otherwise it picks up whatever channel is the latest ...
InnerReturn(g) ==
  /\ pc[g] = "done"
  /\ \/ /\ res[g] # "nil"
        /\ Deliver(g, "idle")
        /\ UNCHANGED ch
     \/ /\ res[g] = "nil"
        /\ Deliver(g, "await")
        /\ ch' = [ch EXCEPT ![g] = flushDone]
  /\ UNCHANGED <<flushLock, flushDone, flushErr, flusher, snap, durable, confirmed>>

\* ... waits for it to be closed and returns flushErr.
Flushed(g) ==
  /\ pc[g] = "await"
  /\ ch[g] \in Flushes
  /\ Closed(ch[g])
  /\ confirmed' = IF flushErr = "nil" THEN confirmed \cup {BufferOf(g)} ELSE confirmed
  /\ pc' = [pc EXCEPT ![g] = "idle"]
  /\ UNCHANGED <<innerVars, werr, acked, flushLock, flushDone, flushErr, flusher, snap, ch, durable>>

-----------------------------------------------------------------------------
\* The steps of the inner Writer that the adapter does not change.
InnerStep(g) ==
  /\ AcquireWriteLock(g) \/ Detach(g) \/ Emit(g) \/ Complete(g) \/ Follow(g)
  /\ UNCHANGED fvars

CallerStep(g) ==
  \/ InnerStep(g)
  \/ \E e \in Errors : AdapterWriteReturn(g, e)
  \/ AcquireFlushLock(g)
  \/ StartFlush(g)
  \/ InnerReturn(g)
  \/ Flushed(g)

FlusherStep(k) ==
  \/ FlushCall(k)
  \/ \E e \in Errors : FlushReturn(k, e)
  \/ RecordFlushError(k)
  \/ CloseFlushDone(k)
  \/ ReleaseFlushLock(k)

\* Every goroutine has made its calls and they have returned.
Finished ==
  /\ \A g \in Writers : pc[g] = "idle" /\ calls[g] = MaxCalls
  /\ \A k \in Flushes : flusher[k] \in {"none", "exited"}
  /\ UNCHANGED pvars

Next ==
  \/ \E g \in Writers : (Write(g) /\ UNCHANGED fvars) \/ CallerStep(g)
  \/ \E k \in Flushes : FlusherStep(k)
  \/ Finished

\* Goroutines are scheduled fairly, and the underlying Write and Flush return.
Spec ==
  /\ Init /\ [][Next]_pvars
  /\ \A g \in Writers : WF_pvars(CallerStep(g))
  /\ \A k \in Flushes : WF_pvars(FlusherStep(k))

-----------------------------------------------------------------------------
\* The inner Writer, with the adapter as its underlying writer, implements
\* ParallelWriter: what is proved of that module holds here.
InnerPC(p) ==
  CASE p \in {"flushlock", "start"} -> "write"
    [] p = "await" -> "idle"
    [] OTHER -> p
Inner == INSTANCE ParallelWriter WITH pc <- [g \in Writers |-> InnerPC(pc[g])]
ImplementsWriter == Inner!WriterSpec

\* The types of the variables; a caller that waits for a flush has a channel to
\* wait on, because a batch that was written without error published one.
TypeOK ==
  /\ Inner!WriterTypeOK
  /\ pc \in [Writers -> PipelinedPCs]
  /\ flushLock \in {"free", "held"}
  /\ flushDone \in 0..MaxFlushes
  /\ flushErr \in Errors
  /\ flusher \in [Flushes -> FlusherPCs]
  /\ snap \in [Flushes -> SUBSET Buffers]
  /\ ch \in [Writers -> 0..MaxFlushes]
  /\ durable \subseteq Buffers
  /\ confirmed \subseteq acked
  /\ \A g \in Writers : pc[g] = "await" => ch[g] # 0

\* A Write that returned without an error is durable: a Flush called after its
\* buffer was written has returned without an error.  The caller waits for
\* whichever flush is the latest when it looks and reads an error field that
\* all flushes share.
ConfirmedIsDurable == confirmed \subseteq durable

\* "Flushes are serialised": the underlying Flush is never called while
\* another Flush runs.
FlushesSerialised ==
  \A j, k \in Flushes : flusher[j] = "flush" /\ flusher[k] = "flush" => j = k

\* The invariant of the flushing side: every goroutine is where its channel and its
\* lock allow.
FlushInv == TypeOK /\ FlushesSerialised

\* Every Write returns: a leader that waits for two locks, a follower that waits
\* for its leader, and both for a flush.
CallReturns == \A g \in Writers : pc[g] # "idle" ~> pc[g] = "idle"

=============================================================================
