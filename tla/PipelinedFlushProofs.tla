------------------------- MODULE PipelinedFlushProofs -------------------------
(***************************************************************************)
(* Proofs about PipelinedFlushWriter for any numbers of goroutines, calls  *)
(* and flushes.  The inner Writer is shown to implement ParallelWriter, so *)
(* that the theorems of ParallelWriterProofs hold of it; from these and an *)
(* invariant of the flushing side it follows that a confirmed Write is     *)
(* durable.                                                                *)
(***************************************************************************)
EXTENDS PipelinedFlushWriter, TLAPS

\* The results about ParallelWriter, for the inner Writer.
InnerProofs == INSTANCE ParallelWriterProofs WITH pc <- [g \in Writers |-> InnerPC(pc[g])]

-----------------------------------------------------------------------------
\* Where the inner Writer is, when the caller is at p.
LEMMA InnerPCValues ==
  /\ \A p \in WriterPCs : InnerPC(p) = p
  /\ InnerPC("flushlock") = "write" /\ InnerPC("start") = "write" /\ InnerPC("await") = "idle"
  /\ \A p \in PipelinedPCs : InnerPC(p) \in WriterPCs /\ (InnerPC(p) = "wait" <=> p = "wait")
BY DEF InnerPC, WriterPCs, PipelinedPCs

\* One goroutine moves, and so does its inner Writer.
LEMMA InnerMoves ==
  ASSUME pc \in [Writers -> PipelinedPCs], NEW g \in Writers, NEW p,
         pc' = [pc EXCEPT ![g] = p]
  PROVE  [x \in Writers |-> InnerPC(pc[x])]' =
           [[x \in Writers |-> InnerPC(pc[x])] EXCEPT ![g] = InnerPC(p)]
OBVIOUS

-----------------------------------------------------------------------------
\* What the refinement rests on: only a goroutine that leads the open batch has
\* its batch extended, so the batch of the adapter stays the one that it wrote.
AdapterInv ==
  /\ pc \in [Writers -> PipelinedPCs]
  /\ DOMAIN batch = Writers /\ DOMAIN sent = Writers
  /\ \A g \in Writers : buf = g <=> pc[g] \in {"lead", "locked"}
  /\ \A g \in Writers : pc[g] \in {"flushlock", "start"} => sent[g] = Len(batch[g])

\* It holds in every reachable state.
LEMMA AdapterInvariance == Spec => []AdapterInv
<1> USE DEF AdapterInv, PipelinedPCs, WriterPCs
<1>1. Init => AdapterInv
  BY WritersAssumption DEF Init, WriterInit
<1>2. AdapterInv /\ [Next]_pvars => AdapterInv'
  <2> SUFFICES ASSUME AdapterInv, [Next]_pvars PROVE AdapterInv'
    OBVIOUS
  <2>1. ASSUME NEW g \in Writers, Write(g) PROVE AdapterInv'
    BY <2>1, WritersAssumption DEF Write, WriteRefused, WriteJoin, WriteLead
  <2>2. ASSUME NEW g \in Writers, InnerStep(g) PROVE AdapterInv'
    <3>1. CASE AcquireWriteLock(g)
      BY <3>1 DEF AcquireWriteLock
    <3>2. CASE Detach(g)
      <4>1. pc[g] = "locked" /\ buf' = None /\ \A h \in Writers : pc[h] \in {"lead", "locked"} => h = g
        BY <3>2 DEF Detach
      <4>2. CASE Finish(g, err)
        BY <4>1, <4>2, WritersAssumption DEF Finish
      <4>3. CASE pc' = [pc EXCEPT ![g] = "write"] /\ UNCHANGED <<batch, sent>>
        BY <4>1, <4>3, WritersAssumption
      <4> QED BY <3>2, <4>2, <4>3 DEF Detach
    <3>3. CASE Emit(g)
      BY <3>3 DEF Emit
    <3>4. CASE Complete(g)
      BY <3>4 DEF Complete, Finish, Follows
    <3>5. CASE Follow(g)
      BY <3>5 DEF Follow
    <3> QED BY <2>2, <3>1, <3>2, <3>3, <3>4, <3>5 DEF InnerStep
  <2>3. ASSUME NEW g \in Writers, NEW e \in Errors, AdapterWriteReturn(g, e) PROVE AdapterInv'
    BY <2>3 DEF AdapterWriteReturn, SinkReturn, WriteFailed, innerVars
  <2>4. ASSUME NEW g \in Writers, AcquireFlushLock(g) PROVE AdapterInv'
    BY <2>4 DEF AcquireFlushLock, innerVars
  <2>5. ASSUME NEW g \in Writers, StartFlush(g) PROVE AdapterInv'
    BY <2>5 DEF StartFlush, innerVars
  <2>6. ASSUME NEW g \in Writers, InnerReturn(g) PROVE AdapterInv'
    BY <2>6 DEF InnerReturn, Deliver
  <2>7. ASSUME NEW g \in Writers, Flushed(g) PROVE AdapterInv'
    BY <2>7 DEF Flushed, innerVars
  <2>8. CASE UNCHANGED wvars
    BY <2>8 DEF wvars
  <2>9. ASSUME NEW k \in Flushes, FlusherStep(k) PROVE UNCHANGED wvars
    BY <2>9 DEF FlusherStep, FlushCall, FlushReturn, RecordFlushError, CloseFlushDone, ReleaseFlushLock
  <2>10. Finished \/ UNCHANGED pvars => UNCHANGED wvars
    BY DEF Finished, pvars
  <2> QED BY <2>1, <2>2, <2>3, <2>4, <2>5, <2>6, <2>7, <2>8, <2>9, <2>10 DEF Next, CallerStep
<1> QED BY <1>1, <1>2, PTL DEF Spec

-----------------------------------------------------------------------------
\* The inner Writer's own steps are steps of ParallelWriter ...
LEMMA InnerSteps ==
  ASSUME AdapterInv, NEW g \in Writers, Write(g) \/ InnerStep(g)
  PROVE  Inner!Write(g) \/ Inner!WriterStep(g)
<1> DEFINE ipc == [x \in Writers |-> InnerPC(pc[x])]
<1>1. /\ pc \in [Writers -> PipelinedPCs] /\ pc[g] \in PipelinedPCs
      /\ ipc[g] = InnerPC(pc[g])
  BY DEF AdapterInv
<1>2. ASSUME NEW p \in WriterPCs, pc' = [pc EXCEPT ![g] = p]
      PROVE  [x \in Writers |-> InnerPC(pc'[x])] = [ipc EXCEPT ![g] = p]
  <2>1. InnerPC(p) = p
    BY <1>2, InnerPCValues
  <2> QED BY <1>1, <1>2, <2>1, InnerMoves
<1>3. \A p \in WriterPCs : pc[g] = p => ipc[g] = p
  BY <1>1, InnerPCValues
<1>4. ASSUME NEW e, Finish(g, e) PROVE Inner!Finish(g, e)
  <2>1. \A x \in Writers : Inner!Follows(x, g) <=> Follows(x, g)
    BY <1>1, InnerPCValues DEF Follows, Inner!Follows
  <2>2. \A x \in Writers : InnerPC(pc'[x]) = IF x = g THEN "done"
                                             ELSE IF Inner!Follows(x, g) THEN "woken"
                                             ELSE InnerPC(pc[x])
    BY <1>4, <2>1, InnerPCValues DEF Finish, WriterPCs
  <2>3. [x \in Writers |-> InnerPC(pc'[x])] =
          [x \in Writers |-> IF x = g THEN "done" ELSE IF Inner!Follows(x, g) THEN "woken" ELSE ipc[x]]
    BY <2>2
  <2> QED BY <1>4, <2>3 DEF Finish, Inner!Finish
<1> USE DEF WriterPCs
<1>5. CASE Write(g)
  <2>1. ipc[g] = "idle" /\ calls[g] < MaxCalls /\ calls' = [calls EXCEPT ![g] = @ + 1]
        /\ UNCHANGED <<sent, werr, err, writeLock, out, acked>>
    BY <1>3, <1>5 DEF Write
  <2>2. CASE WriteRefused(g)
    BY <1>2, <2>1, <2>2 DEF WriteRefused, Inner!Write, Inner!WriteRefused
  <2>3. CASE WriteJoin(g)
    BY <1>2, <2>1, <2>3 DEF WriteJoin, Inner!Write, Inner!WriteJoin
  <2>4. CASE WriteLead(g)
    BY <1>2, <2>1, <2>4 DEF WriteLead, Inner!Write, Inner!WriteLead
  <2> QED BY <1>5, <2>2, <2>3, <2>4 DEF Write
<1>6. CASE AcquireWriteLock(g)
  BY <1>2, <1>3, <1>6
  DEF AcquireWriteLock, WriteUnlocked, Inner!WriterStep, Inner!AcquireWriteLock, Inner!WriteUnlocked
<1>7. CASE Detach(g)
  <2>1. ipc[g] = "locked"
    BY <1>3, <1>7 DEF Detach
  <2>2. CASE Failed /\ Finish(g, err)
    BY <1>4, <1>7, <2>1, <2>2 DEF Detach, Failed, Inner!WriterStep, Inner!Detach, Inner!Failed
  <2>3. CASE ~Failed /\ pc' = [pc EXCEPT ![g] = "write"] /\ UNCHANGED <<batch, sent, res, writeLock>>
    BY <1>2, <1>7, <2>1, <2>3 DEF Detach, Failed, Inner!WriterStep, Inner!Detach, Inner!Failed
  <2> QED BY <1>7, <2>2, <2>3 DEF Detach
<1>8. CASE Emit(g)
  <2>1. ipc[g] = "write" /\ pc' = pc
    BY <1>3, <1>8 DEF Emit
  <2> QED BY <1>8, <2>1 DEF Emit, Inner!WriterStep, Inner!Emit
<1>9. CASE Complete(g)
  <2>1. ipc[g] = "wrote" /\ Inner!Finish(g, werr[g]) /\ err' = werr[g]
    BY <1>3, <1>4, <1>9 DEF Complete, Outcome
  <2> QED BY <1>9, <2>1 DEF Complete, Inner!WriterStep, Inner!Complete, Inner!Outcome
<1>10. CASE Follow(g)
  BY <1>2, <1>3, <1>10 DEF Follow, Inner!WriterStep, Inner!Follow
<1> QED BY <1>5, <1>6, <1>7, <1>8, <1>9, <1>10 DEF InnerStep

\* ... and so are those of the adapter, or they change nothing that the inner
\* Writer sees: it returns from the underlying Write when a flush is started.
LEMMA AdapterSteps ==
  ASSUME AdapterInv, NEW g \in Writers, CallerStep(g), ~InnerStep(g)
  PROVE  Inner!WriterStep(g) \/ UNCHANGED Inner!wvars
<1> DEFINE ipc == [x \in Writers |-> InnerPC(pc[x])]
<1>1. /\ pc \in [Writers -> PipelinedPCs] /\ ipc[g] = InnerPC(pc[g])
  BY DEF AdapterInv
<1>2. ASSUME NEW p, pc' = [pc EXCEPT ![g] = p]
      PROVE  [x \in Writers |-> InnerPC(pc'[x])] = [ipc EXCEPT ![g] = InnerPC(p)]
  BY <1>1, <1>2, InnerMoves
<1>3. ASSUME NEW p, pc' = [pc EXCEPT ![g] = p], InnerPC(p) = InnerPC(pc[g])
      PROVE  [x \in Writers |-> InnerPC(pc'[x])] = ipc
  BY <1>1, <1>3
<1>4. ASSUME NEW e \in Errors, AdapterWriteReturn(g, e)
      PROVE  Inner!WriterStep(g) \/ UNCHANGED Inner!wvars
  <2>1. ipc[g] = "write" /\ (e = "nil" => sent[g] = Len(batch[g])) /\ UNCHANGED <<innerVars, acked>>
    BY <1>1, <1>4, InnerPCValues DEF AdapterWriteReturn, SinkReturn, WriterPCs
  <2>2. CASE werr' = [werr EXCEPT ![g] = e] /\ pc' = [pc EXCEPT ![g] = "wrote"]
    <3>1. [x \in Writers |-> InnerPC(pc'[x])] = [ipc EXCEPT ![g] = "wrote"]
      <4>1. InnerPC("wrote") = "wrote"
        BY InnerPCValues DEF WriterPCs
      <4> QED BY <1>2, <2>2, <4>1
    <3>2. Inner!WriteReturn(g, e)
      BY <2>1, <2>2, <3>1 DEF Inner!WriteReturn, Inner!SinkReturn, innerVars
    <3> QED BY <3>2 DEF Inner!WriterStep, Inner!Errors, Errors
  <2>3. CASE pc' = [pc EXCEPT ![g] = "flushlock"] /\ UNCHANGED werr
    BY <1>1, <1>3, <2>1, <2>3, InnerPCValues DEF Inner!wvars, innerVars
  <2> QED BY <1>4, <2>2, <2>3 DEF AdapterWriteReturn
<1>5. CASE AcquireFlushLock(g)
  BY <1>1, <1>3, <1>5, InnerPCValues DEF AcquireFlushLock, Inner!wvars, innerVars
<1>6. CASE StartFlush(g)
  <2>1. ipc[g] = "write" /\ sent[g] = Len(batch[g]) /\ UNCHANGED <<innerVars, acked>>
    BY <1>1, <1>6, InnerPCValues DEF StartFlush, AdapterInv
  <2>2. [x \in Writers |-> InnerPC(pc'[x])] = [ipc EXCEPT ![g] = "wrote"]
    <3>1. InnerPC("wrote") = "wrote"
      BY InnerPCValues DEF WriterPCs
    <3> QED BY <1>2, <1>6, <3>1 DEF StartFlush
  <2>3. Inner!WriteReturn(g, "nil")
    BY <1>6, <2>1, <2>2 DEF StartFlush, Inner!WriteReturn, Inner!SinkReturn, innerVars
  <2> QED BY <2>3 DEF Inner!WriterStep, Inner!Errors
<1>7. CASE InnerReturn(g)
  <2>1. PICK p \in {"idle", "await"} : Deliver(g, p)
    BY <1>7 DEF InnerReturn
  <2>2. [x \in Writers |-> InnerPC(pc'[x])] = [ipc EXCEPT ![g] = "idle"]
    <3>1. InnerPC(p) = "idle"
      BY InnerPCValues DEF WriterPCs
    <3> QED BY <1>2, <2>1, <3>1 DEF Deliver
  <2>3. ipc[g] = "done"
    BY <1>1, <1>7, InnerPCValues DEF InnerReturn, WriterPCs
  <2> QED BY <2>1, <2>2, <2>3 DEF Deliver, Inner!WriterStep, Inner!Return, Inner!Deliver, Inner!BufferOf, BufferOf
<1>8. CASE Flushed(g)
  BY <1>1, <1>3, <1>8, InnerPCValues DEF Flushed, Inner!wvars, innerVars, WriterPCs
<1> QED BY <1>4, <1>5, <1>6, <1>7, <1>8 DEF CallerStep

\* The inner Writer of a PipelinedFlushWriter implements ParallelWriter.
THEOREM InnerImplements == Spec => ImplementsWriter
<1>1. Init => Inner!WriterInit
  <2>1. ASSUME Init PROVE [g \in Writers |-> InnerPC(pc[g])] = [g \in Writers |-> "idle"]
    BY <2>1, InnerPCValues DEF Init, WriterInit, WriterPCs
  <2> QED BY <2>1 DEF Init, WriterInit, Inner!WriterInit
<1>2. AdapterInv /\ [Next]_pvars => [Inner!WriterNext]_(Inner!wvars)
  <2> SUFFICES ASSUME AdapterInv, [Next]_pvars
               PROVE  Inner!WriterNext \/ UNCHANGED Inner!wvars
    OBVIOUS
  <2>1. CASE UNCHANGED wvars
    BY <2>1 DEF wvars, Inner!wvars
  <2>2. ASSUME NEW k \in Flushes, FlusherStep(k) PROVE UNCHANGED wvars
    BY <2>2 DEF FlusherStep, FlushCall, FlushReturn, RecordFlushError, CloseFlushDone, ReleaseFlushLock
  <2>3. Finished \/ UNCHANGED pvars => UNCHANGED wvars
    BY DEF Finished, pvars
  <2>4. ASSUME NEW g \in Writers, Write(g) \/ CallerStep(g)
        PROVE  Inner!WriterNext \/ UNCHANGED Inner!wvars
    BY <2>4, InnerSteps, AdapterSteps DEF Inner!WriterNext
  <2> QED BY <2>1, <2>2, <2>3, <2>4 DEF Next
<1> QED BY <1>1, <1>2, AdapterInvariance, PTL DEF Spec, ImplementsWriter, Inner!WriterSpec

-----------------------------------------------------------------------------
\* Both names of the inner Writer stand for one specification.
LEMMA InnerIsWriter == Inner!WriterSpec => InnerProofs!WriterSpec
<1>1. Inner!WriterInit => InnerProofs!WriterInit
  BY Zenon DEF Inner!WriterInit, InnerProofs!WriterInit
<1>2. [Inner!WriterNext]_(Inner!wvars) => [InnerProofs!WriterNext]_(InnerProofs!wvars)
  BY Zenon
  DEF Inner!WriterNext, Inner!wvars, Inner!Write, Inner!WriterStep, Inner!WriterFinished,
      Inner!WriteRefused, Inner!WriteJoin, Inner!WriteLead, Inner!AcquireWriteLock,
      Inner!WriteUnlocked, Inner!Follows, Inner!Finish, Inner!Failed, Inner!Detach,
      Inner!Emit, Inner!SinkReturn, Inner!WriteReturn, Inner!Outcome, Inner!Complete,
      Inner!Follow, Inner!Deliver, Inner!Return, Inner!BufferOf, Inner!Errors,
      InnerProofs!WriterNext, InnerProofs!wvars, InnerProofs!Write, InnerProofs!WriterStep,
      InnerProofs!WriterFinished, InnerProofs!WriteRefused, InnerProofs!WriteJoin,
      InnerProofs!WriteLead, InnerProofs!AcquireWriteLock, InnerProofs!WriteUnlocked,
      InnerProofs!Follows, InnerProofs!Finish, InnerProofs!Failed, InnerProofs!Detach,
      InnerProofs!Emit, InnerProofs!SinkReturn, InnerProofs!WriteReturn, InnerProofs!Outcome,
      InnerProofs!Complete, InnerProofs!Follow, InnerProofs!Deliver, InnerProofs!Return,
      InnerProofs!BufferOf, InnerProofs!Errors
<1> QED BY <1>1, <1>2, PTL DEF Inner!WriterSpec, InnerProofs!WriterSpec

\* What ParallelWriterProofs shows of a Writer holds of the one inside a
\* PipelinedFlushWriter: buffers arrive in order, an acknowledged one has arrived,
\* and after an error nothing is written.
THEOREM PipelinedGuarantees == Spec => []InOrder /\ []AckedIsWritten /\ FailStop
<1>1. InnerProofs!WriterSpec =>
        []InnerProofs!InOrder /\ []InnerProofs!AckedIsWritten /\ InnerProofs!FailStop
  BY InnerProofs!WrittenInOrder, InnerProofs!AckedWritten, InnerProofs!FailStops,
     WritersAssumption, MaxCallsAssumption, PTL
<1>2. InnerProofs!InOrder => InOrder
  BY DEF InnerProofs!InOrder, InOrder
<1>3. InnerProofs!AckedIsWritten => AckedIsWritten
  BY DEF InnerProofs!AckedIsWritten, InnerProofs!Written, AckedIsWritten, Written
<1>4. [err # "nil" => err' = err /\ out' = out]_(InnerProofs!wvars) =>
        [err # "nil" => err' = err /\ out' = out]_wvars
  BY DEF InnerProofs!wvars
<1> QED BY <1>1, <1>2, <1>3, <1>4, InnerImplements, InnerIsWriter, PTL
        DEF ImplementsWriter, FailStop, InnerProofs!FailStop

-----------------------------------------------------------------------------
\* What the proofs below take from the inner Writer's invariant.
LeaderPCs == {"lead", "locked", "write", "flushlock", "start", "wrote"}
InBatch(b, g) == \E i \in 1..Len(batch[g]) : batch[g][i] = b

InnerFacts ==
  /\ Inner!WriterTypeOK
  /\ AckedIsWritten
  /\ \A g \in Writers : pc[g] \in {"write", "wrote"} => err = "nil"
  /\ \A g \in Writers : pc[g] \in LeaderPCs => InBatch(BufferOf(g), g)
  /\ \A g \in Writers : pc[g] = "wait" => lead[g] \in Writers /\ InBatch(BufferOf(g), lead[g])
  /\ \A g \in Writers : pc[g] = "wrote" /\ werr[g] = "nil" =>
       \A i \in 1..Len(batch[g]) : Written(batch[g][i])
  /\ \A g \in Writers : pc[g] = "woken" /\ err = "nil" => Written(BufferOf(g))
  /\ \A g \in Writers : pc[g] = "done" /\ res[g] = "nil" => Written(BufferOf(g))

\* They hold because the inner Writer implements ParallelWriter.
LEMMA InnerFactsHold == Spec => []InnerFacts
<1>1. InnerProofs!WriterSpec => [](InnerProofs!TypeInv /\ InnerProofs!IInv)
  BY InnerProofs!Invariance, WritersAssumption, MaxCallsAssumption, PTL
<1>2. AdapterInv /\ InnerProofs!TypeInv /\ InnerProofs!IInv => InnerFacts
  <2> SUFFICES ASSUME AdapterInv, InnerProofs!TypeInv, InnerProofs!IInv PROVE InnerFacts
    OBVIOUS
  <2>1. Inner!WriterTypeOK
    BY Zenon DEF InnerProofs!TypeInv, InnerProofs!WriterTypeOK, Inner!WriterTypeOK, InnerProofs!WriterPCs, Inner!WriterPCs,
        InnerProofs!Buffers, Inner!Buffers, InnerProofs!Errors, Inner!Errors
  <2>2. /\ \A b : InnerProofs!Written(b) <=> Written(b)
        /\ \A g \in Writers : InnerProofs!BufferOf(g) = BufferOf(g)
        /\ \A b : \A g \in Writers : InnerProofs!InBatch(b, g) <=> InBatch(b, g)
    BY DEF InnerProofs!Written, Written, InnerProofs!BufferOf, BufferOf, InnerProofs!InBatch, InBatch
  <2>3. \A g \in Writers : /\ pc[g] \in WriterPCs => [x \in Writers |-> InnerPC(pc[x])][g] = pc[g]
                           /\ pc[g] \in {"flushlock", "start"} => [x \in Writers |-> InnerPC(pc[x])][g] = "write"
    BY InnerPCValues
  <2>4. AckedIsWritten
    BY <2>2 DEF InnerProofs!IInv, InnerProofs!AckedIsWritten, AckedIsWritten
  <2>5. \A g \in Writers : pc[g] \in {"write", "wrote"} => err = "nil"
    BY <2>3 DEF InnerProofs!IInv, InnerProofs!LockInv, InnerProofs!NoErrorWhileWriting, WriterPCs
  <2>6. \A g \in Writers : pc[g] \in LeaderPCs => InBatch(BufferOf(g), g)
    BY <2>2, <2>3 DEF InnerProofs!IInv, InnerProofs!BatchInv, InnerProofs!OwnInBatch, InnerProofs!LeaderPCs, LeaderPCs, WriterPCs
  <2>7. \A g \in Writers : pc[g] = "wait" => lead[g] \in Writers /\ InBatch(BufferOf(g), lead[g])
    BY <2>2, <2>3 DEF InnerProofs!IInv, InnerProofs!BatchInv, InnerProofs!FollowerInBatch, WriterPCs
  <2>8. \A g \in Writers : pc[g] = "wrote" /\ werr[g] = "nil" =>
          \A i \in 1..Len(batch[g]) : Written(batch[g][i])
    BY <2>2, <2>3 DEF InnerProofs!IInv, InnerProofs!BatchInv, InnerProofs!BatchIsWritten, WriterPCs
  <2>9. \A g \in Writers : pc[g] = "woken" /\ err = "nil" => Written(BufferOf(g))
    BY <2>2, <2>3 DEF InnerProofs!IInv, InnerProofs!WokenIsWritten, WriterPCs
  <2>10. \A g \in Writers : pc[g] = "done" /\ res[g] = "nil" => Written(BufferOf(g))
    BY <2>2, <2>3 DEF InnerProofs!IInv, InnerProofs!DoneIsWritten, WriterPCs
  <2> QED BY <2>1, <2>4, <2>5, <2>6, <2>7, <2>8, <2>9, <2>10 DEF InnerFacts
<1> QED BY <1>1, <1>2, InnerImplements, InnerIsWriter, AdapterInvariance, PTL DEF ImplementsWriter

-----------------------------------------------------------------------------
\* The invariant of the flushing side.
FlushTypes ==
  /\ flushLock \in {"free", "held"}
  /\ flushDone \in 0..MaxFlushes
  /\ flushErr \in Errors
  /\ flusher \in [Flushes -> FlusherPCs]
  /\ snap \in [Flushes -> SUBSET Buffers]
  /\ ch \in [Writers -> 0..MaxFlushes]
  /\ durable \subseteq Buffers

\* flushLock is handed from the adapter that acquires it to the goroutine that it
\* starts: one of them has it.
Active(k) == flusher[k] \notin {"none", "exited"}
SerialInv ==
  /\ \A k \in Flushes : k > flushDone => flusher[k] = "none"
  /\ \A g \in Writers : pc[g] = "start" =>
       flushLock = "held" /\ (\A k \in Flushes : ~Active(k)) /\ \A h \in Writers : pc[h] = "start" => h = g
  /\ \A k \in Flushes : Active(k) => flushLock = "held" /\ \A j \in Flushes : Active(j) => j = k

\* Flush k has been called.
Taken(k) == flusher[k] \notin {"none", "spawned"}

\* The latest flush covers b, or will when it is called.
Covered(b) == flushDone # 0 /\ (Taken(flushDone) => b \in snap[flushDone])

\* The latest flush covers every buffer whose Write is about to return without an
\* error, and the flush that a caller waits for covers its buffer.
CoverInv ==
  /\ \A g \in Writers : pc[g] = "wrote" /\ werr[g] = "nil" =>
       \A i \in 1..Len(batch[g]) : Covered(batch[g][i])
  /\ \A g \in Writers : pc[g] = "woken" /\ err = "nil" => Covered(BufferOf(g))
  /\ \A g \in Writers : pc[g] = "done" /\ res[g] = "nil" => Covered(BufferOf(g))
  /\ \A g \in Writers : pc[g] = "await" =>
       /\ ch[g] \in 1..flushDone
       /\ Taken(ch[g]) => BufferOf(g) \in snap[ch[g]]
       /\ BufferOf(g) \in acked

\* A flush whose channel is about to be closed has succeeded, or left its error.
DurableInv ==
  /\ \A k \in Flushes :
       flusher[k] \in {"close", "unlock", "exited"} /\ flushErr = "nil" => snap[k] \subseteq durable
  /\ confirmed \subseteq durable /\ confirmed \subseteq acked

FInv == FlushTypes /\ SerialInv /\ CoverInv /\ DurableInv

\* The inner Writer's own steps keep it: an error that a follower reads is that of
\* its batch or of a later one.
LEMMA InnerKeeps ==
  ASSUME InnerFacts, AdapterInv, FInv, NEW g \in Writers, Write(g) \/ InnerStep(g), UNCHANGED fvars
  PROVE  FInv'
<1>1. pc \in [Writers -> PipelinedPCs] /\ DOMAIN batch = Writers /\ res \in [Writers -> Errors]
  BY DEF AdapterInv, InnerFacts, Inner!WriterTypeOK, Inner!Errors, Errors
<1>2. \A b : Covered(b)' <=> Covered(b)
  BY DEF Covered, Taken, fvars
<1>3. /\ acked' = acked
      /\ \A h \in Writers : h # g => calls'[h] = calls[h]
  <2>1. CASE Write(g)
    BY <2>1 DEF Write, InnerFacts, Inner!WriterTypeOK
  <2>2. CASE InnerStep(g)
    BY <2>2 DEF InnerStep, AcquireWriteLock, Detach, Emit, Complete, Follow
  <2> QED BY <2>1, <2>2
<1>4. FlushTypes'
  BY DEF FInv, FlushTypes, fvars
<1>5. ASSUME \A h \in Writers : (pc'[h] = "start" <=> pc[h] = "start") /\ (pc'[h] = "await" <=> pc[h] = "await"),
             \A h \in Writers : pc'[h] = "await" => BufferOf(h)' = BufferOf(h),
             \A h \in Writers : pc'[h] = "wrote" /\ werr'[h] = "nil" =>
               \A i \in 1..Len(batch'[h]) : Covered(batch'[h][i]),
             \A h \in Writers : pc'[h] = "woken" /\ err' = "nil" => Covered(BufferOf(h)'),
             \A h \in Writers : pc'[h] = "done" /\ res'[h] = "nil" => Covered(BufferOf(h)')
      PROVE  FInv'
  <2>1. SerialInv'
    BY <1>5 DEF FInv, SerialInv, Active, fvars
  <2>2. DurableInv'
    BY <1>3 DEF FInv, DurableInv, fvars
  <2>3. \A h \in Writers : pc'[h] = "await" =>
          /\ ch'[h] \in 1..flushDone'
          /\ Taken(ch[h])' => BufferOf(h)' \in snap'[ch'[h]]
          /\ BufferOf(h)' \in acked'
    BY <1>3, <1>5 DEF FInv, CoverInv, Taken, fvars
  <2>4. CoverInv'
    BY <1>2, <1>5, <2>3 DEF CoverInv, Covered, Taken, fvars
  <2> QED BY <1>4, <2>1, <2>2, <2>4 DEF FInv
<1>6. CASE Write(g)
  <2>1. /\ pc[g] = "idle" /\ UNCHANGED <<werr, err>>
        /\ pc'[g] \in {"done", "wait", "lead"} /\ \A h \in Writers : h # g => pc'[h] = pc[h]
        /\ pc'[g] = "done" => res'[g] # "nil"
        /\ \A h \in Writers : h # g => res'[h] = res[h]
    BY <1>1, <1>6 DEF Write, WriteRefused, WriteJoin, WriteLead
  <2>2. \A h \in Writers : pc[h] = "wrote" => batch'[h] = batch[h]
    BY <1>1, <1>6, <2>1 DEF Write, WriteRefused, WriteJoin, WriteLead, AdapterInv
  <2>3. \A h \in Writers : h # g => BufferOf(h)' = BufferOf(h)
    BY <1>3 DEF BufferOf
  <2>4. \A h \in Writers : pc'[h] = "wrote" /\ werr'[h] = "nil" =>
          \A i \in 1..Len(batch'[h]) : Covered(batch'[h][i])
    BY <2>1, <2>2 DEF FInv, CoverInv
  <2>5. \A h \in Writers : pc'[h] = "woken" /\ err' = "nil" => Covered(BufferOf(h)')
    BY <2>1, <2>3 DEF FInv, CoverInv
  <2>6. \A h \in Writers : pc'[h] = "done" /\ res'[h] = "nil" => Covered(BufferOf(h)')
    BY <2>1, <2>3 DEF FInv, CoverInv
  <2> QED BY <1>5, <2>1, <2>3, <2>4, <2>5, <2>6
<1>7. CASE InnerStep(g)
  <2>0. calls' = calls /\ \A h \in Writers : BufferOf(h)' = BufferOf(h)
    BY <1>7 DEF InnerStep, AcquireWriteLock, Detach, Emit, Complete, Follow, BufferOf
  <2>1. CASE AcquireWriteLock(g) \/ Emit(g)
    <3>1. /\ UNCHANGED <<batch, werr, res, err>>
          /\ \A h \in Writers : pc'[h] = pc[h] \/ (pc[h] = "lead" /\ pc'[h] = "locked")
      BY <1>1, <2>1 DEF AcquireWriteLock, Emit
    <3> QED BY <1>5, <2>0, <3>1 DEF FInv, CoverInv
  <2>2. ASSUME NEW e \in Errors, Finish(g, e), werr' = werr, err' = e,
               \/ pc[g] = "locked" /\ e # "nil"
               \/ pc[g] = "wrote" /\ e = werr[g] /\ err = "nil"
        PROVE  FInv'
    <3>1. /\ pc'[g] = "done" /\ res'[g] = e
          /\ \A h \in Writers : h # g => batch'[h] = batch[h] /\ res'[h] = res[h]
          /\ \A h \in Writers : h # g =>
               \/ pc[h] = "wait" /\ lead[h] = g /\ pc'[h] = "woken"
               \/ pc'[h] = pc[h]
      BY <1>1, <2>2 DEF Finish, Follows
    <3>2. e = "nil" => err = "nil" /\ \A b : InBatch(b, g) => Covered(b)
      BY <2>2 DEF FInv, CoverInv, InBatch
    <3>3. \A h \in Writers : pc'[h] = "wrote" /\ werr'[h] = "nil" =>
            \A i \in 1..Len(batch'[h]) : Covered(batch'[h][i])
      BY <2>2, <3>1 DEF FInv, CoverInv
    <3>4. ASSUME NEW h \in Writers, pc'[h] = "woken", err' = "nil" PROVE Covered(BufferOf(h)')
      <4>1. h # g /\ e = "nil"
        BY <2>2, <3>1, <3>4
      <4>2. CASE pc[h] = "wait" /\ lead[h] = g
        BY <2>0, <3>2, <4>1, <4>2 DEF InnerFacts
      <4>3. CASE pc'[h] = pc[h]
        BY <2>0, <3>2, <3>4, <4>1, <4>3 DEF FInv, CoverInv
      <4> QED BY <3>1, <4>1, <4>2, <4>3
    <3>5. ASSUME NEW h \in Writers, pc'[h] = "done", res'[h] = "nil" PROVE Covered(BufferOf(h)')
      <4>1. CASE h = g
        <5>1. InBatch(BufferOf(g), g) /\ e = "nil"
          BY <2>2, <3>1, <3>5, <4>1 DEF InnerFacts, LeaderPCs
        <5> QED BY <2>0, <3>2, <4>1, <5>1
      <4>2. CASE h # g
        BY <2>0, <3>1, <3>5, <4>2 DEF FInv, CoverInv
      <4> QED BY <4>1, <4>2
    <3>6. \A h \in Writers : (pc'[h] = "start" <=> pc[h] = "start") /\ (pc'[h] = "await" <=> pc[h] = "await")
      BY <2>2, <3>1
    <3> QED BY <1>5, <2>0, <3>3, <3>4, <3>5, <3>6
  <2>3. CASE Detach(g)
    <3>1. pc[g] = "locked" /\ UNCHANGED <<werr, err>> /\ err \in Errors
      BY <2>3 DEF Detach, InnerFacts, Inner!WriterTypeOK, Inner!Errors, Errors
    <3>2. CASE Failed /\ Finish(g, err)
      BY <2>2, <3>1, <3>2 DEF Failed
    <3>3. CASE pc' = [pc EXCEPT ![g] = "write"] /\ UNCHANGED <<batch, sent, res, writeLock>>
      <4>1. pc'[g] = "write" /\ \A h \in Writers : h # g => pc'[h] = pc[h]
        BY <1>1, <3>3
      <4> QED BY <1>5, <2>0, <3>1, <3>3, <4>1 DEF FInv, CoverInv
    <3> QED BY <2>3, <3>2, <3>3 DEF Detach
  <2>4. CASE Complete(g)
    <3>1. /\ pc[g] = "wrote" /\ err' = werr[g] /\ Finish(g, werr[g]) /\ werr' = werr
          /\ werr[g] \in Errors /\ err = "nil"
      BY <2>4 DEF Complete, Outcome, InnerFacts, Inner!WriterTypeOK, Inner!Errors, Errors
    <3> QED BY <2>2, <3>1
  <2>5. CASE Follow(g)
    <3>1. /\ UNCHANGED <<batch, werr, err>> /\ pc[g] = "woken" /\ pc'[g] = "done" /\ res'[g] = err
          /\ \A h \in Writers : h # g => pc'[h] = pc[h] /\ res'[h] = res[h]
      BY <1>1, <2>5 DEF Follow
    <3> QED BY <1>5, <2>0, <3>1 DEF FInv, CoverInv
  <2> QED BY <1>7, <2>1, <2>3, <2>4, <2>5 DEF InnerStep
<1> QED BY <1>6, <1>7

\* The adapter and the outer Write keep it.  The adapter has flushLock when it
\* starts a flush, which will cover everything that is written by then.
LEMMA AdapterKeeps ==
  ASSUME InnerFacts, AdapterInv, FInv, NEW g \in Writers, CallerStep(g), ~InnerStep(g)
  PROVE  FInv'
<1>1. pc \in [Writers -> PipelinedPCs] /\ werr \in [Writers -> Errors]
  BY DEF AdapterInv, InnerFacts, Inner!WriterTypeOK, Inner!Errors, Errors
<1>2. calls' = calls /\ \A h \in Writers : BufferOf(h)' = BufferOf(h)
  BY DEF CallerStep, AdapterWriteReturn, AcquireFlushLock, StartFlush, InnerReturn, Deliver, Flushed, innerVars, BufferOf
<1> USE DEF FInv
<1>3. ASSUME NEW e \in Errors, AdapterWriteReturn(g, e) PROVE FInv'
  <2>1. /\ UNCHANGED <<fvars, batch, res, err, acked>> /\ pc'[g] \in {"wrote", "flushlock"} /\ pc[g] = "write"
        /\ \A h \in Writers : h # g => pc'[h] = pc[h] /\ werr'[h] = werr[h]
        /\ pc'[g] = "wrote" => werr'[g] # "nil"
    BY <1>1, <1>3 DEF AdapterWriteReturn, SinkReturn, WriteFailed, innerVars
  <2>2. \A b : Covered(b)' <=> Covered(b)
    BY <2>1 DEF Covered, Taken, fvars
  <2>3. FlushTypes' /\ DurableInv'
    BY <2>1 DEF FlushTypes, DurableInv, fvars
  <2>4. SerialInv'
    BY <2>1 DEF SerialInv, Active, fvars
  <2>5. CoverInv'
    <3>1. \A h \in Writers : pc'[h] = "wrote" /\ werr'[h] = "nil" =>
            \A i \in 1..Len(batch'[h]) : Covered(batch[h][i])'
      BY <2>1, <2>2 DEF CoverInv
    <3>2. \A h \in Writers : pc'[h] = "woken" /\ err' = "nil" => Covered(BufferOf(h))'
      BY <1>2, <2>1, <2>2 DEF CoverInv
    <3>3. \A h \in Writers : pc'[h] = "done" /\ res'[h] = "nil" => Covered(BufferOf(h))'
      BY <1>2, <2>1, <2>2 DEF CoverInv
    <3> QED BY <1>2, <2>1, <3>1, <3>2, <3>3 DEF CoverInv, Taken, fvars
  <2> QED BY <2>3, <2>4, <2>5
<1>4. CASE AcquireFlushLock(g)
  <2>1. /\ UNCHANGED <<batch, werr, res, err, acked, flushDone, flushErr, flusher, snap, ch, durable, confirmed>>
        /\ pc[g] = "flushlock" /\ pc'[g] = "start" /\ flushLock = "free" /\ flushLock' = "held"
        /\ \A h \in Writers : h # g => pc'[h] = pc[h]
    BY <1>1, <1>4 DEF AcquireFlushLock, FlushUnlocked, innerVars
  <2>2. \A b : Covered(b)' <=> Covered(b)
    BY <2>1 DEF Covered, Taken
  <2>3. FlushTypes' /\ DurableInv'
    BY <2>1 DEF FlushTypes, DurableInv
  <2>4. SerialInv'
    BY <2>1 DEF SerialInv, Active
  <2>5. CoverInv'
    <3>1. \A h \in Writers : pc'[h] = "wrote" /\ werr'[h] = "nil" =>
            \A i \in 1..Len(batch'[h]) : Covered(batch[h][i])'
      BY <2>1, <2>2 DEF CoverInv
    <3>2. \A h \in Writers : pc'[h] = "woken" /\ err' = "nil" => Covered(BufferOf(h))'
      BY <1>2, <2>1, <2>2 DEF CoverInv
    <3>3. \A h \in Writers : pc'[h] = "done" /\ res'[h] = "nil" => Covered(BufferOf(h))'
      BY <1>2, <2>1, <2>2 DEF CoverInv
    <3> QED BY <1>2, <2>1, <3>1, <3>2, <3>3 DEF CoverInv, Taken
  <2> QED BY <2>3, <2>4, <2>5
<1>5. CASE StartFlush(g)
  <2>1. /\ UNCHANGED <<batch, res, err, acked, flushLock, flushErr, snap, ch, durable, confirmed>>
        /\ pc[g] = "start" /\ pc'[g] = "wrote"
        /\ \A h \in Writers : h # g => pc'[h] = pc[h] /\ werr'[h] = werr[h]
    BY <1>1, <1>5 DEF StartFlush, innerVars
  <2>2. PICK n \in Flushes : n = flushDone + 1 /\ flushDone' = n /\ flusher' = [flusher EXCEPT ![n] = "spawned"]
    <3>1. flushDone < MaxFlushes /\ flushDone \in 0..MaxFlushes
      BY <1>5 DEF StartFlush, FlushTypes
    <3>2. flushDone + 1 \in Flushes
      BY <3>1, MaxFlushesAssumption DEF Flushes
    <3> QED BY <1>5, <3>2 DEF StartFlush, Publish
  <2>3. /\ flushDone \in Nat /\ flushDone' \in 0..MaxFlushes
        /\ \A k \in Flushes : k \in Nat
    BY <2>2, MaxFlushesAssumption DEF FlushTypes, Flushes
  <2>4. flusher'[n] = "spawned" /\ \A k \in Flushes : k # n => flusher'[k] = flusher[k]
    BY <2>2 DEF FlushTypes
  <2>5. FlushTypes'
    BY <2>1, <2>2, <2>3 DEF FlushTypes, FlusherPCs
  <2>6. SerialInv'
    <3>1. \A k \in Flushes : k > flushDone' => flusher'[k] = "none"
      BY <2>2, <2>3, <2>4 DEF SerialInv
    <3>2. \A h \in Writers : pc'[h] # "start"
      BY <2>1 DEF SerialInv
    <3>3. \A k \in Flushes : Active(k)' => k = n
      BY <2>1, <2>4 DEF SerialInv, Active
    <3>4. flushLock' = "held"
      BY <2>1 DEF SerialInv
    <3> QED BY <3>1, <3>2, <3>3, <3>4 DEF SerialInv
  <2>7. \A b : Covered(b)'
    BY <2>2, <2>3, <2>4 DEF Covered, Taken
  <2>8. CoverInv'
    <3>1. ASSUME NEW h \in Writers, pc'[h] = "await"
          PROVE  /\ ch'[h] \in 1..flushDone'
                 /\ Taken(ch[h])' => BufferOf(h)' \in snap'[ch'[h]]
                 /\ BufferOf(h)' \in acked'
      <4>1. /\ ch[h] \in 1..flushDone /\ ch'[h] = ch[h]
            /\ Taken(ch[h]) => BufferOf(h) \in snap[ch[h]]
            /\ BufferOf(h) \in acked
        BY <2>1, <3>1 DEF CoverInv
      <4>2. ch[h] \in Flushes /\ ch[h] # n /\ ch[h] \in 1..flushDone'
        <5>1. flushDone' = flushDone + 1 /\ flushDone + 1 <= MaxFlushes
          BY <2>2, <2>3, MaxFlushesAssumption
        <5> QED BY <2>2, <2>3, <4>1, <5>1, MaxFlushesAssumption DEF Flushes
      <4> QED BY <1>2, <2>1, <2>4, <4>1, <4>2 DEF Taken
    <3> QED BY <2>7, <3>1 DEF CoverInv
  <2>9. DurableInv'
    BY <2>1, <2>4 DEF DurableInv
  <2> QED BY <2>5, <2>6, <2>8, <2>9
<1>6. CASE InnerReturn(g)
  <2>1. /\ UNCHANGED <<batch, werr, res, err, flushLock, flushDone, flushErr, flusher, snap, durable, confirmed>>
        /\ pc[g] = "done" /\ \A h \in Writers : h # g => pc'[h] = pc[h]
        /\ acked' = IF res[g] = "nil" THEN acked \cup {BufferOf(g)} ELSE acked
        /\ \/ res[g] # "nil" /\ pc'[g] = "idle" /\ ch' = ch
           \/ res[g] = "nil" /\ pc'[g] = "await" /\ ch' = [ch EXCEPT ![g] = flushDone]
    BY <1>1, <1>6 DEF InnerReturn, Deliver
  <2>2. \A b : Covered(b)' <=> Covered(b)
    BY <2>1 DEF Covered, Taken
  <2>3. FlushTypes' /\ DurableInv'
    BY <2>1 DEF FlushTypes, DurableInv
  <2>4. SerialInv'
    BY <2>1 DEF SerialInv, Active
  <2>5. ASSUME NEW h \in Writers, pc'[h] = "await"
        PROVE  /\ ch'[h] \in 1..flushDone'
               /\ Taken(ch[h])' => BufferOf(h)' \in snap'[ch'[h]]
               /\ BufferOf(h)' \in acked'
    <3>1. CASE h = g
      <4>1. ch'[g] = flushDone /\ res[g] = "nil"
        BY <2>1, <2>5, <3>1 DEF FlushTypes
      <4>2. Covered(BufferOf(g))
        BY <2>1, <4>1 DEF CoverInv
      <4>3. flushDone \in 1..flushDone
        BY <4>2 DEF Covered, FlushTypes
      <4> QED BY <1>2, <2>1, <3>1, <4>1, <4>2, <4>3 DEF Covered, Taken
    <3>2. CASE h # g
      BY <1>2, <2>1, <2>5, <3>2 DEF CoverInv, Taken, FlushTypes
    <3> QED BY <3>1, <3>2
  <2>6. CoverInv'
    <3>1. \A h \in Writers : pc'[h] = "wrote" /\ werr'[h] = "nil" =>
            \A i \in 1..Len(batch'[h]) : Covered(batch[h][i])'
      BY <2>1, <2>2 DEF CoverInv
    <3>2. \A h \in Writers : pc'[h] = "woken" /\ err' = "nil" => Covered(BufferOf(h))'
      BY <1>2, <2>1, <2>2 DEF CoverInv
    <3>3. \A h \in Writers : pc'[h] = "done" /\ res'[h] = "nil" => Covered(BufferOf(h))'
      BY <1>2, <2>1, <2>2 DEF CoverInv
    <3> QED BY <2>5, <3>1, <3>2, <3>3 DEF CoverInv
  <2> QED BY <2>3, <2>4, <2>6
<1>7. CASE Flushed(g)
  <2>1. /\ UNCHANGED <<batch, werr, res, err, acked, flushLock, flushDone, flushErr, flusher, snap, ch, durable>>
        /\ pc[g] = "await" /\ pc'[g] = "idle" /\ \A h \in Writers : h # g => pc'[h] = pc[h]
        /\ ch[g] \in Flushes /\ flusher[ch[g]] \in {"unlock", "exited"}
        /\ confirmed' = IF flushErr = "nil" THEN confirmed \cup {BufferOf(g)} ELSE confirmed
    BY <1>1, <1>7 DEF Flushed, Closed, innerVars
  <2>2. \A b : Covered(b)' <=> Covered(b)
    BY <2>1 DEF Covered, Taken
  <2>3. BufferOf(g) \in snap[ch[g]] /\ BufferOf(g) \in acked
    BY <2>1 DEF CoverInv, Taken
  <2>4. DurableInv'
    BY <2>1, <2>3 DEF DurableInv
  <2>5. FlushTypes'
    BY <2>1 DEF FlushTypes
  <2>6. SerialInv'
    BY <2>1 DEF SerialInv, Active
  <2>7. CoverInv'
    <3>1. \A h \in Writers : pc'[h] = "wrote" /\ werr'[h] = "nil" =>
            \A i \in 1..Len(batch'[h]) : Covered(batch[h][i])'
      BY <2>1, <2>2 DEF CoverInv
    <3>2. \A h \in Writers : pc'[h] = "woken" /\ err' = "nil" => Covered(BufferOf(h))'
      BY <1>2, <2>1, <2>2 DEF CoverInv
    <3>3. \A h \in Writers : pc'[h] = "done" /\ res'[h] = "nil" => Covered(BufferOf(h))'
      BY <1>2, <2>1, <2>2 DEF CoverInv
    <3> QED BY <1>2, <2>1, <3>1, <3>2, <3>3 DEF CoverInv, Taken
  <2> QED BY <2>4, <2>5, <2>6, <2>7
<1> QED BY <1>3, <1>4, <1>5, <1>6, <1>7 DEF CallerStep

\* The flush goroutines keep it.
LEMMA FlusherKeeps ==
  ASSUME InnerFacts, AdapterInv, FInv, NEW k \in Flushes, FlusherStep(k)
  PROVE  FInv'
<1>1. UNCHANGED <<wvars, flushDone, ch, confirmed>>
  BY DEF FlusherStep, FlushCall, FlushReturn, RecordFlushError, CloseFlushDone, ReleaseFlushLock
<1>2. \A h \in Writers : BufferOf(h)' = BufferOf(h)
  BY <1>1 DEF BufferOf, wvars
<1>3. flusher \in [Flushes -> FlusherPCs] /\ snap \in [Flushes -> SUBSET Buffers]
  BY DEF FInv, FlushTypes
<1>4. /\ \A j \in Flushes : j # k => flusher'[j] = flusher[j]
      /\ flusher[k] \in {"spawned", "flush", "error", "close", "unlock"}
      /\ flusher' = [flusher EXCEPT ![k] = flusher'[k]]
      /\ flusher'[k] \in {"flush", "error", "close", "unlock", "exited"}
  BY <1>3 DEF FlusherStep, FlushCall, FlushReturn, RecordFlushError, CloseFlushDone, ReleaseFlushLock
<1> USE DEF FInv
<1>5. SerialInv'
  <2>1. \A j \in Flushes : Active(j) => j = k
    BY <1>4 DEF SerialInv, Active
  <2>2. Active(k) /\ flushLock = "held" /\ \A g \in Writers : pc[g] # "start"
    BY <1>4 DEF SerialInv, Active
  <2>3. flushLock' = flushLock \/ flusher'[k] = "exited"
    BY <1>3 DEF FlusherStep, FlushCall, FlushReturn, RecordFlushError, CloseFlushDone, ReleaseFlushLock
  <2>4. \A j \in Flushes : Active(j)' => j = k /\ flushLock' = "held"
    BY <1>4, <2>1, <2>2, <2>3 DEF Active
  <2> QED BY <1>1, <1>4, <2>2, <2>4 DEF SerialInv, Active, wvars
<1>6. ASSUME snap' = snap, flusher[k] # "spawned" PROVE CoverInv'
  <2>1. \A j \in Flushes : Taken(j)' => Taken(j)
    BY <1>4, <1>6 DEF Taken
  <2>2. flushDone # 0 => flushDone \in Flushes
    BY DEF FlushTypes, Flushes
  <2>3. \A b : Covered(b) => Covered(b)'
    BY <1>1, <1>6, <2>1, <2>2 DEF Covered, Taken
  <2>4. \A g \in Writers : pc[g] = "await" => ch[g] \in Flushes
    BY DEF CoverInv, FlushTypes, Flushes
  <2>5. \A g \in Writers : pc'[g] = "await" =>
          /\ ch'[g] \in 1..flushDone'
          /\ Taken(ch[g])' => BufferOf(g)' \in snap'[ch'[g]]
          /\ BufferOf(g)' \in acked'
    BY <1>1, <1>2, <1>6, <2>1, <2>4 DEF CoverInv, Taken, wvars
  <2>6. \A g \in Writers : pc'[g] = "wrote" /\ werr'[g] = "nil" =>
          \A i \in 1..Len(batch'[g]) : Covered(batch[g][i])'
    BY <1>1, <2>3 DEF CoverInv, wvars
  <2>7. \A g \in Writers : pc'[g] = "woken" /\ err' = "nil" => Covered(BufferOf(g))'
    BY <1>1, <1>2, <2>3 DEF CoverInv, wvars
  <2>8. \A g \in Writers : pc'[g] = "done" /\ res'[g] = "nil" => Covered(BufferOf(g))'
    BY <1>1, <1>2, <2>3 DEF CoverInv, wvars
  <2> QED BY <2>5, <2>6, <2>7, <2>8 DEF CoverInv
<1>7. CASE FlushCall(k)
  <2>1. /\ flusher[k] = "spawned" /\ flusher'[k] = "flush"
        /\ snap' = [snap EXCEPT ![k] = {out[i] : i \in 1..Len(out)}]
        /\ UNCHANGED <<flushLock, flushErr, durable>>
    BY <1>3, <1>7 DEF FlushCall
  <2>2. {out[i] : i \in 1..Len(out)} \in SUBSET Buffers
    BY DEF InnerFacts, Inner!WriterTypeOK, Inner!Buffers, Buffers
  <2>3. \A b : Written(b) => b \in snap'[k]
    BY <1>3, <2>1 DEF Written
  <2>4. \A j \in Flushes : j # k => snap'[j] = snap[j]
    BY <1>3, <2>1
  <2>5. FlushTypes'
    BY <1>1, <1>4, <2>1, <2>2 DEF FlushTypes, FlusherPCs
  <2>6. flushDone # 0 => flushDone \in Flushes
    BY DEF FlushTypes, Flushes
  <2>7. \A b : Written(b) /\ Covered(b) => Covered(b)'
    BY <1>1, <1>4, <2>1, <2>3, <2>4, <2>6 DEF Covered, Taken
  <2>8. ASSUME NEW g \in Writers, pc'[g] = "await"
        PROVE  /\ ch'[g] \in 1..flushDone'
               /\ Taken(ch[g])' => BufferOf(g)' \in snap'[ch'[g]]
               /\ BufferOf(g)' \in acked'
    <3>1. /\ pc[g] = "await" /\ ch'[g] = ch[g] /\ ch[g] \in 1..flushDone /\ BufferOf(g) \in acked
          /\ acked' = acked /\ flushDone' = flushDone
      BY <1>1, <2>8 DEF CoverInv, wvars
    <3>2. Written(BufferOf(g)) /\ ch[g] \in Flushes
      BY <3>1 DEF InnerFacts, AckedIsWritten, FlushTypes, Flushes
    <3>3. CASE ch[g] = k
      BY <1>2, <2>3, <3>1, <3>2, <3>3
    <3>4. CASE ch[g] # k
      BY <1>2, <1>4, <2>4, <3>1, <3>2, <3>4 DEF CoverInv, Taken
    <3> QED BY <3>3, <3>4
  <2>9. CoverInv'
    <3>1. \A g \in Writers : pc'[g] = "wrote" /\ werr'[g] = "nil" =>
            \A i \in 1..Len(batch'[g]) : Covered(batch[g][i])'
      BY <1>1, <2>7 DEF CoverInv, InnerFacts, wvars
    <3>2. \A g \in Writers : pc'[g] = "woken" /\ err' = "nil" => Covered(BufferOf(g))'
      BY <1>1, <1>2, <2>7 DEF CoverInv, InnerFacts, wvars
    <3>3. \A g \in Writers : pc'[g] = "done" /\ res'[g] = "nil" => Covered(BufferOf(g))'
      BY <1>1, <1>2, <2>7 DEF CoverInv, InnerFacts, wvars
    <3> QED BY <2>8, <3>1, <3>2, <3>3 DEF CoverInv
  <2>10. DurableInv'
    BY <1>1, <1>4, <2>1, <2>4 DEF DurableInv, wvars
  <2> QED BY <1>5, <2>5, <2>9, <2>10
<1>8. ASSUME NEW e \in Errors, FlushReturn(k, e) PROVE FInv'
  <2>1. /\ flusher[k] = "flush" /\ flusher'[k] = IF e = "nil" THEN "close" ELSE "error"
        /\ durable' = IF e = "nil" THEN durable \cup snap[k] ELSE durable
        /\ UNCHANGED <<flushLock, flushErr, snap>>
    BY <1>3, <1>8 DEF FlushReturn
  <2>2. FlushTypes'
    BY <1>1, <1>3, <1>4, <2>1 DEF FlushTypes, FlusherPCs
  <2>3. DurableInv'
    BY <1>1, <1>4, <2>1 DEF DurableInv, wvars
  <2> QED BY <1>5, <1>6, <2>1, <2>2, <2>3
<1>9. CASE RecordFlushError(k)
  <2>1. flusher[k] = "error" /\ flushErr' = "fail" /\ UNCHANGED <<flushLock, snap, durable>>
    BY <1>9 DEF RecordFlushError, StoreError
  <2>2. FlushTypes'
    BY <1>1, <1>3, <1>4, <2>1 DEF FlushTypes, FlusherPCs, Errors
  <2>3. DurableInv'
    BY <1>1, <2>1 DEF DurableInv, wvars
  <2> QED BY <1>5, <1>6, <2>1, <2>2, <2>3
<1>10. CASE CloseFlushDone(k) \/ ReleaseFlushLock(k)
  <2>1. /\ flusher[k] \in {"close", "unlock"} /\ UNCHANGED <<flushErr, snap, durable>>
        /\ flushLock' \in {flushLock, "free"}
    BY <1>10 DEF CloseFlushDone, ReleaseFlushLock, UnlockFlush
  <2>2. FlushTypes'
    BY <1>1, <1>3, <1>4, <2>1 DEF FlushTypes, FlusherPCs
  <2>3. DurableInv'
    BY <1>1, <1>4, <2>1 DEF DurableInv, wvars
  <2> QED BY <1>5, <1>6, <2>1, <2>2, <2>3
<1> QED BY <1>7, <1>8, <1>9, <1>10 DEF FlusherStep

\* The invariant of the flushing side holds in every reachable state.
LEMMA FlushInvariance == Spec => []FInv
<1>1. Init => FInv
  <2> SUFFICES ASSUME Init PROVE FInv
    OBVIOUS
  <2>1. FlushTypes
    BY MaxFlushesAssumption DEF Init, FlushTypes, FlusherPCs, Errors
  <2>2. SerialInv /\ DurableInv
    BY DEF Init, WriterInit, SerialInv, DurableInv, Active
  <2>3. CoverInv
    BY DEF Init, WriterInit, CoverInv
  <2> QED BY <2>1, <2>2, <2>3 DEF FInv
<1>2. InnerFacts /\ AdapterInv /\ FInv /\ [Next]_pvars => FInv'
  <2> SUFFICES ASSUME InnerFacts, AdapterInv, FInv, [Next]_pvars PROVE FInv'
    OBVIOUS
  <2>1. CASE UNCHANGED pvars
    BY <2>1 DEF pvars, wvars, fvars, FInv, FlushTypes, SerialInv, CoverInv, DurableInv, Active, Taken, Covered, BufferOf
  <2>2. CASE Finished
    BY <2>1, <2>2 DEF Finished
  <2>3. ASSUME NEW g \in Writers, (Write(g) /\ UNCHANGED fvars) \/ CallerStep(g) PROVE FInv'
    <3>1. InnerStep(g) => UNCHANGED fvars
      BY DEF InnerStep
    <3> QED BY <2>3, <3>1, InnerKeeps, AdapterKeeps
  <2> QED BY <2>1, <2>2, <2>3, FlusherKeeps DEF Next
<1> QED BY <1>1, <1>2, InnerFactsHold, AdapterInvariance, PTL DEF Spec

\* A caller that waits for a flush has a channel to wait on, and Flush is never
\* called while another one runs.
THEOREM FlushesCorrect == Spec => []FlushInv
<1>1. InnerFacts /\ AdapterInv /\ FInv => FlushInv
  <2> SUFFICES ASSUME InnerFacts, AdapterInv, FInv PROVE FlushInv
    OBVIOUS
  <2>1. \A g \in Writers : pc[g] = "await" => ch[g] # 0
    BY DEF FInv, FlushTypes, CoverInv
  <2>2. TypeOK
    BY <2>1 DEF TypeOK, InnerFacts, AdapterInv, FInv, FlushTypes, DurableInv
  <2>3. FlushesSerialised
    BY DEF FlushesSerialised, FInv, SerialInv, Active
  <2> QED BY <2>2, <2>3 DEF FlushInv
<1> QED BY <1>1, InnerFactsHold, AdapterInvariance, FlushInvariance, PTL

\* A Write that returned no error is durable, although its caller waits for
\* whichever flush is the latest when it looks and all flushes share one error.
THEOREM ConfirmedDurable == Spec => []ConfirmedIsDurable
<1>1. FInv => ConfirmedIsDurable
  BY DEF FInv, DurableInv, ConfirmedIsDurable
<1> QED BY <1>1, FlushInvariance, PTL

=============================================================================
