------------------------- MODULE ParallelWriterProofs -------------------------
(***************************************************************************)
(* Proofs about ParallelWriter for any set of goroutines and any number of *)
(* calls.                                                                  *)
(***************************************************************************)
EXTENDS ParallelWriter, Integers, TLAPS

-----------------------------------------------------------------------------
\* A goroutine inside Write has made a call, so that its buffer has a name.
Called == \A g \in Writers : pc[g] # "idle" => calls[g] \in 1..MaxCalls

TypeInv == WriterTypeOK /\ Called

\* Write keeps the types.
LEMMA WriteType ==
  ASSUME TypeInv, NEW g \in Writers, Write(g)
  PROVE  TypeInv'
<1> USE WritersAssumption, MaxCallsAssumption DEF TypeInv, WriterTypeOK, Called, Errors, WriterPCs
<1>1. calls[g] + 1 \in 1..MaxCalls /\ calls' = [calls EXCEPT ![g] = @ + 1] /\ pc[g] = "idle"
  BY DEF Write
<1>2. <<g, calls[g] + 1>> \in Buffers
  BY <1>1 DEF Buffers
<1>3. CASE WriteRefused(g)
  BY <1>1, <1>3 DEF Write, WriteRefused
<1>4. CASE WriteJoin(g)
  <2>1. buf \in Writers /\ lead' = [lead EXCEPT ![g] = buf] /\ pc' = [pc EXCEPT ![g] = "wait"]
    BY <1>4 DEF WriteJoin
  <2>2. batch' \in [Writers -> Seq(Buffers)] /\ order' \in Seq(Buffers)
    BY <1>2, <1>4, <2>1 DEF WriteJoin
  <2>3. /\ pc' \in [Writers -> WriterPCs] /\ calls' \in [Writers -> 0..MaxCalls]
        /\ lead' \in [Writers -> Writers \cup {None}]
    BY <1>1, <2>1
  <2>4. UNCHANGED <<res, buf, sent, werr, err, writeLock, out, acked>>
    BY <1>4 DEF Write, WriteJoin
  <2>5. Called' /\ \A x \in Writers : pc'[x] = "wait" => lead'[x] # None
    BY <1>1, <2>1
  <2> QED BY <2>2, <2>3, <2>4, <2>5
<1>5. CASE WriteLead(g)
  <2>1. batch' \in [Writers -> Seq(Buffers)] /\ order' \in Seq(Buffers)
    BY <1>2, <1>5 DEF WriteLead
  <2> QED BY <1>1, <1>5, <2>1 DEF Write, WriteLead
<1> QED BY <1>3, <1>4, <1>5 DEF Write

\* So do the steps inside a call.
LEMMA StepType ==
  ASSUME TypeInv, NEW g \in Writers, WriterStep(g)
  PROVE  TypeInv'
<1> USE DEF TypeInv, WriterTypeOK, Called, Errors, WriterPCs
<1>1. CASE AcquireWriteLock(g)
  BY <1>1 DEF AcquireWriteLock
<1>2. CASE Detach(g)
  <2>1. CASE Failed /\ Finish(g, err)
    BY <1>2, <2>1 DEF Detach, Finish, Follows
  <2>2. CASE pc' = [pc EXCEPT ![g] = "write"] /\ UNCHANGED <<batch, sent, res, writeLock>>
    BY <1>2, <2>2 DEF Detach
  <2> QED BY <1>2, <2>1, <2>2 DEF Detach
<1>3. CASE Emit(g)
  <2>1. batch[g][sent[g] + 1] \in Buffers
    BY <1>3 DEF Emit
  <2>2. out' \in Seq(Buffers) /\ sent' \in [Writers -> Nat]
    BY <1>3, <2>1 DEF Emit
  <2> QED BY <1>3, <2>2 DEF Emit
<1>4. CASE \E e \in Errors : WriteReturn(g, e)
  BY <1>4 DEF WriteReturn, SinkReturn
<1>5. CASE Complete(g)
  BY <1>5 DEF Complete, Finish, Follows, Outcome
<1>6. CASE Follow(g)
  BY <1>6 DEF Follow
<1>7. CASE Return(g)
  <2>1. BufferOf(g) \in Buffers
    BY <1>7 DEF Return, BufferOf, Buffers
  <2> QED BY <1>7, <2>1 DEF Return, Deliver
<1> QED BY <1>1, <1>2, <1>3, <1>4, <1>5, <1>6, <1>7 DEF WriterStep

\* The types hold in every reachable state.
LEMMA TypeInvariant == WriterSpec => []TypeInv
<1>1. WriterInit => TypeInv
  BY WritersAssumption, MaxCallsAssumption
  DEF WriterInit, TypeInv, WriterTypeOK, Called, Errors, WriterPCs, Buffers
<1>2. TypeInv /\ [WriterNext]_wvars => TypeInv'
  <2> SUFFICES ASSUME TypeInv, [WriterNext]_wvars PROVE TypeInv'
    OBVIOUS
  <2>1. CASE UNCHANGED wvars
    BY <2>1 DEF wvars, TypeInv, WriterTypeOK, Called
  <2>2. CASE WriterFinished
    BY <2>1, <2>2 DEF WriterFinished
  <2>3. CASE \E g \in Writers : Write(g) \/ WriterStep(g)
    BY <2>3, WriteType, StepType
  <2> QED BY <2>1, <2>2, <2>3 DEF WriterNext
<1> QED BY <1>1, <1>2, PTL DEF WriterSpec

\* The variables keep their types; in particular a follower always has a done
\* channel to wait on.
THEOREM TypeCorrect == WriterSpec => []WriterTypeOK
<1>1. TypeInv => WriterTypeOK
  BY DEF TypeInv
<1> QED BY <1>1, TypeInvariant, PTL

-----------------------------------------------------------------------------
\* The inductive invariant behind AckedIsWritten, FailStop and the mutual
\* exclusion of underlying calls.
LeaderPCs == {"lead", "locked", "write", "wrote"}

\* The open batch is that of the goroutine that leads and has not detached it.
OpenBatch == \A g \in Writers : buf = g <=> pc[g] \in {"lead", "locked"}

\* writeLock is held from its acquisition to the end of Write.
Locked == \A g \in Writers : writeLock = g <=> pc[g] \in {"locked", "write", "wrote"}

\* While the underlying Write runs nothing has failed.
NoErrorWhileWriting == \A g \in Writers : pc[g] \in {"write", "wrote"} => err = "nil"

InBatch(b, g) == \E i \in 1..Len(batch[g]) : batch[g][i] = b

\* A leader's batch holds its own buffer and those of its followers.
OwnInBatch == \A g \in Writers : pc[g] \in LeaderPCs => InBatch(BufferOf(g), g)
FollowerInBatch ==
  \A g \in Writers : pc[g] = "wait" =>
    lead[g] \in Writers /\ pc[lead[g]] \in LeaderPCs /\ InBatch(BufferOf(g), lead[g])

\* What the underlying Write has emitted, and has returned without an error, is
\* written.
SentIsWritten ==
  \A g \in Writers :
    /\ pc[g] \notin {"write", "wrote"} => sent[g] = 0
    /\ sent[g] <= Len(batch[g])
    /\ \A i \in 1..sent[g] : Written(batch[g][i])
BatchIsWritten ==
  \A g \in Writers : pc[g] = "wrote" /\ werr[g] = "nil" =>
    \A i \in 1..Len(batch[g]) : Written(batch[g][i])

\* A goroutine that will return no error has its buffer written.
WokenIsWritten == \A g \in Writers : pc[g] = "woken" /\ err = "nil" => Written(BufferOf(g))
DoneIsWritten == \A g \in Writers : pc[g] = "done" /\ res[g] = "nil" => Written(BufferOf(g))

LockInv == OpenBatch /\ Locked /\ NoErrorWhileWriting
BatchInv == OwnInBatch /\ FollowerInBatch /\ SentIsWritten /\ BatchIsWritten
IInv == LockInv /\ BatchInv /\ WokenIsWritten /\ DoneIsWritten /\ AckedIsWritten

\* Calling Write keeps the locking discipline.
LEMMA WriteLocks ==
  ASSUME TypeInv, LockInv, NEW g \in Writers, Write(g)
  PROVE  LockInv'
<1> USE WritersAssumption DEF TypeInv, WriterTypeOK, LockInv, OpenBatch, Locked, NoErrorWhileWriting
<1>1. pc[g] = "idle" /\ UNCHANGED <<err, writeLock>>
  BY DEF Write
<1>2. CASE WriteRefused(g)
  BY <1>1, <1>2 DEF WriteRefused
<1>3. CASE WriteJoin(g)
  BY <1>1, <1>3 DEF WriteJoin
<1>4. CASE WriteLead(g)
  BY <1>1, <1>4 DEF WriteLead
<1> QED BY <1>2, <1>3, <1>4 DEF Write

\* So do the steps inside a call: only the holder of writeLock changes err.
LEMMA StepLocks ==
  ASSUME TypeInv, LockInv, NEW g \in Writers, WriterStep(g)
  PROVE  LockInv'
<1> USE WritersAssumption DEF TypeInv, WriterTypeOK, LockInv, OpenBatch, Locked, NoErrorWhileWriting
<1>1. CASE AcquireWriteLock(g)
  BY <1>1 DEF AcquireWriteLock, WriteUnlocked
<1>2. CASE Detach(g)
  <2>1. CASE Failed /\ Finish(g, err)
    BY <1>2, <2>1 DEF Detach, Finish, Follows
  <2>2. CASE ~Failed /\ pc' = [pc EXCEPT ![g] = "write"] /\ UNCHANGED <<batch, sent, res, writeLock>>
    BY <1>2, <2>2 DEF Detach, Failed
  <2> QED BY <1>2, <2>1, <2>2 DEF Detach
<1>3. CASE Emit(g)
  BY <1>3 DEF Emit
<1>4. CASE \E e \in Errors : WriteReturn(g, e)
  BY <1>4 DEF WriteReturn, SinkReturn
<1>5. CASE Complete(g)
  BY <1>5 DEF Complete, Finish, Follows
<1>6. CASE Follow(g)
  BY <1>6 DEF Follow
<1>7. CASE Return(g)
  BY <1>7 DEF Return, Deliver
<1> QED BY <1>1, <1>2, <1>3, <1>4, <1>5, <1>6, <1>7 DEF WriterStep

\* A buffer stays written while out only grows.
LEMMA WrittenStays ==
  ASSUME TypeInv, NEW b,
         out' = out \/ \E x \in Buffers : out' = Append(out, x)
  PROVE  Written(b) => Written(b)'
<1>1. CASE out' = out
  BY <1>1 DEF Written
<1>2. ASSUME NEW x \in Buffers, out' = Append(out, x)
      PROVE  Written(b) => Written(b)'
  <2>1. Len(out') = Len(out) + 1 /\ \A i \in 1..Len(out) : out'[i] = out[i]
    BY <1>2 DEF TypeInv, WriterTypeOK
  <2>2. Len(out) \in Nat
    BY DEF TypeInv, WriterTypeOK
  <2> QED BY <2>1, <2>2 DEF Written
<1> QED BY <1>1, <1>2

\* The emitted buffer is written.
LEMMA AppendedIsWritten ==
  ASSUME TypeInv, NEW x \in Buffers, out' = Append(out, x)
  PROVE  Written(x)'
BY DEF TypeInv, WriterTypeOK, Written

\* A buffer stays in a batch that is extended, and the new one is in it.
LEMMA InExtendedBatch ==
  ASSUME TypeInv, NEW g \in Writers, NEW x \in Buffers,
         batch' = [batch EXCEPT ![g] = Append(@, x)]
  PROVE  /\ InBatch(x, g)'
         /\ \A h \in Writers : \A b : InBatch(b, h) => InBatch(b, h)'
<1>1. batch[g] \in Seq(Buffers) /\ batch'[g] = Append(batch[g], x)
  BY DEF TypeInv, WriterTypeOK
<1>2. Len(batch'[g]) = Len(batch[g]) + 1 /\ batch'[g][Len(batch[g]) + 1] = x
  BY <1>1
<1>3. \A i \in 1..Len(batch[g]) : batch'[g][i] = batch[g][i]
  BY <1>1
<1>4. \A h \in Writers : h # g => batch'[h] = batch[h]
  BY DEF TypeInv, WriterTypeOK
<1>5. InBatch(x, g)'
  BY <1>1, <1>2 DEF InBatch
<1>6. \A h \in Writers : \A b : InBatch(b, h) => InBatch(b, h)'
  BY <1>1, <1>2, <1>3, <1>4 DEF InBatch
<1> QED BY <1>5, <1>6

-----------------------------------------------------------------------------
\* Calling Write keeps the invariant: nobody's buffer is renamed or moved.
LEMMA WriteKeeps ==
  ASSUME TypeInv, IInv, NEW g \in Writers, Write(g)
  PROVE  IInv'
<1>a. <<g, calls[g] + 1>> \in Buffers
  BY MaxCallsAssumption DEF Write, TypeInv, WriterTypeOK, Buffers
<1>0. PICK b \in Buffers : b = <<g, calls[g] + 1>>
  BY <1>a
<1>1. pc[g] = "idle" /\ UNCHANGED <<sent, werr, err, writeLock, out, acked>>
  BY DEF Write
<1>2. calls'[g] = calls[g] + 1 /\ \A h \in Writers \ {g} : calls'[h] = calls[h]
  BY DEF Write, TypeInv, WriterTypeOK
<1>3. BufferOf(g)' = b /\ \A h \in Writers \ {g} : BufferOf(h)' = BufferOf(h)
  BY <1>0, <1>2 DEF BufferOf
<1>4. \A x : Written(x)' <=> Written(x)
  BY <1>1 DEF Written
<1>5. LockInv'
  BY WriteLocks DEF IInv
<1>6. ASSUME NEW h \in Writers, h # g
      PROVE  pc'[h] = pc[h]
  BY <1>6 DEF Write, WriteRefused, WriteJoin, WriteLead, TypeInv, WriterTypeOK
<1>7. pc'[g] \in {"done", "wait", "lead"} /\ (pc'[g] = "done" => res'[g] # "nil")
  BY DEF Write, WriteRefused, WriteJoin, WriteLead, TypeInv, WriterTypeOK
<1>8. \A h \in Writers : h # g => res'[h] = res[h]
  BY DEF Write, WriteRefused, WriteJoin, WriteLead, TypeInv, WriterTypeOK
<1>9. WokenIsWritten' /\ DoneIsWritten' /\ AckedIsWritten'
  BY <1>1, <1>3, <1>4, <1>6, <1>7, <1>8 DEF IInv, WokenIsWritten, DoneIsWritten, AckedIsWritten
<1>10. BatchInv'
  <2> USE DEF IInv, BatchInv
  <2>1. CASE WriteRefused(g)
    <3>1. pc'[g] = "done" /\ UNCHANGED <<batch, lead>>
      BY <2>1 DEF WriteRefused, TypeInv, WriterTypeOK
    <3>2. \A x : \A h \in Writers : InBatch(x, h)' <=> InBatch(x, h)
      BY <3>1 DEF InBatch
    <3>3. OwnInBatch'
      BY <1>3, <1>6, <3>1, <3>2 DEF OwnInBatch, LeaderPCs
    <3>4. FollowerInBatch'
      BY <1>1, <1>3, <1>6, <3>1, <3>2 DEF FollowerInBatch, LeaderPCs
    <3>5. SentIsWritten' /\ BatchIsWritten'
      BY <1>1, <1>4, <1>6, <3>1 DEF SentIsWritten, BatchIsWritten
    <3> QED BY <3>3, <3>4, <3>5
  <2>2. CASE WriteJoin(g)
    <3>0. PICK l \in Writers : l = buf
      BY <2>2 DEF WriteJoin, TypeInv, WriterTypeOK
    <3>1. /\ l # g /\ pc[l] \in {"lead", "locked"}
          /\ pc'[g] = "wait" /\ lead'[g] = l
          /\ \A h \in Writers : h # g => lead'[h] = lead[h]
      BY <1>1, <2>2, <3>0 DEF WriteJoin, LockInv, OpenBatch, TypeInv, WriterTypeOK
    <3>2. batch' = [batch EXCEPT ![l] = Append(@, b)]
      BY <1>0, <2>2, <3>0 DEF WriteJoin
    <3>3. InBatch(b, l)' /\ \A h \in Writers : \A x : InBatch(x, h) => InBatch(x, h)'
      BY <3>2, InExtendedBatch
    <3>4. OwnInBatch'
      BY <1>3, <1>6, <3>1, <3>3 DEF OwnInBatch, LeaderPCs
    <3>5. FollowerInBatch'
      <4> SUFFICES ASSUME NEW h \in Writers, pc'[h] = "wait"
                   PROVE  lead'[h] \in Writers /\ pc'[lead'[h]] \in LeaderPCs /\ InBatch(BufferOf(h), lead[h])'
        BY DEF FollowerInBatch
      <4>1. CASE h = g
        BY <1>3, <1>6, <3>1, <3>3, <4>1 DEF LeaderPCs
      <4>2. CASE h # g
        <5>1. pc[h] = "wait" /\ lead'[h] = lead[h] /\ BufferOf(h)' = BufferOf(h)
          BY <1>3, <1>6, <3>1, <4>2
        <5>2. PICK k \in Writers : k = lead[h] /\ pc[k] \in LeaderPCs /\ InBatch(BufferOf(h), k)
          BY <5>1 DEF FollowerInBatch
        <5>3. pc'[k] \in LeaderPCs
          BY <1>1, <1>6, <5>2 DEF LeaderPCs
        <5> QED BY <3>3, <5>1, <5>2, <5>3
      <4> QED BY <4>1, <4>2
    <3>6. \A h \in Writers : h # l => batch'[h] = batch[h]
      BY <3>2 DEF TypeInv, WriterTypeOK
    <3>7. sent[l] = 0
      BY <3>1 DEF SentIsWritten
    <3>8. batch'[l] = Append(batch[l], b) /\ batch[l] \in Seq(Buffers)
      BY <3>2 DEF TypeInv, WriterTypeOK
    <3>9. Len(batch'[l]) \in Nat
      BY <3>8
    <3>10. SentIsWritten'
      BY <1>1, <1>4, <1>6, <3>1, <3>6, <3>7, <3>9 DEF SentIsWritten
    <3>11. BatchIsWritten'
      BY <1>1, <1>4, <1>6, <3>1, <3>6 DEF BatchIsWritten
    <3> QED BY <3>4, <3>5, <3>10, <3>11
  <2>3. CASE WriteLead(g)
    <3>1. /\ pc'[g] = "lead" /\ lead' = lead /\ batch'[g] = <<b>>
          /\ \A h \in Writers : h # g => batch'[h] = batch[h]
      BY <1>0, <2>3 DEF WriteLead, TypeInv, WriterTypeOK
    <3>2. Len(batch'[g]) = 1 /\ batch'[g][1] = b
      BY <3>1
    <3>9. InBatch(b, g)'
      BY <3>2 DEF InBatch
    <3>3. \A h \in Writers : h # g => \A x : InBatch(x, h)' <=> InBatch(x, h)
      BY <3>1 DEF InBatch
    <3>4. OwnInBatch'
      BY <1>3, <1>6, <3>3, <3>9 DEF OwnInBatch, LeaderPCs
    <3>5. FollowerInBatch'
      BY <1>1, <1>3, <1>6, <3>1, <3>3 DEF FollowerInBatch, LeaderPCs
    <3>6. sent[g] = 0
      BY <1>1 DEF SentIsWritten
    <3>7. SentIsWritten'
      BY <1>1, <1>4, <1>6, <3>1, <3>2, <3>6 DEF SentIsWritten
    <3>8. BatchIsWritten'
      BY <1>1, <1>4, <1>6, <3>1 DEF BatchIsWritten
    <3> QED BY <3>4, <3>5, <3>7, <3>8
  <2> QED BY <2>1, <2>2, <2>3 DEF Write
<1> QED BY <1>5, <1>9, <1>10 DEF IInv

-----------------------------------------------------------------------------
\* The facts that every step inside a call shares: buffers keep their names and
\* what is written stays written.
LEMMA StepFrame ==
  ASSUME TypeInv, NEW g \in Writers, WriterStep(g)
  PROVE  /\ \A h \in Writers : BufferOf(h)' = BufferOf(h)
         /\ \A b : Written(b) => Written(b)'
<1>1. calls' = calls
  BY DEF WriterStep, AcquireWriteLock, Detach, Emit, WriteReturn, SinkReturn, Complete, Follow, Return, Deliver
<1>2. out' = out \/ \E x \in Buffers : out' = Append(out, x)
  <2>1. CASE Emit(g)
    <3>1. batch[g] \in Seq(Buffers) /\ sent[g] \in Nat
      BY DEF TypeInv, WriterTypeOK
    <3>2. batch[g][sent[g] + 1] \in Buffers
      BY <2>1, <3>1 DEF Emit
    <3> QED BY <2>1, <3>2 DEF Emit
  <2> QED BY <2>1
      DEF WriterStep, AcquireWriteLock, Detach, WriteReturn, SinkReturn, Complete, Follow, Return, Deliver
<1>3. ASSUME NEW b PROVE Written(b) => Written(b)'
  BY <1>2, WrittenStays
<1> QED BY <1>1, <1>3 DEF BufferOf

\* A leader's deferred calls keep the invariant, provided that its batch is
\* written whenever the error it leaves is nil: the followers it wakes read
\* that error, or a later one.
LEMMA FinishKeeps ==
  ASSUME TypeInv, IInv, NEW g \in Writers, NEW e \in Errors,
         pc[g] \in LeaderPCs, Finish(g, e), err' = e,
         UNCHANGED <<calls, lead, werr, out, acked>>,
         e = "nil" => err = "nil" /\ \A i \in 1..Len(batch[g]) : Written(batch[g][i])
  PROVE  BatchInv' /\ WokenIsWritten' /\ DoneIsWritten' /\ AckedIsWritten'
<1> USE DEF IInv, BatchInv
<1>1. \A h \in Writers : BufferOf(h)' = BufferOf(h)
  BY DEF BufferOf
<1>2. \A x : Written(x)' <=> Written(x)
  BY DEF Written
<1>3. /\ pc'[g] = "done" /\ res'[g] = e /\ batch'[g] = <<>> /\ sent'[g] = 0
      /\ \A h \in Writers : h # g =>
           batch'[h] = batch[h] /\ sent'[h] = sent[h] /\ res'[h] = res[h]
  BY DEF Finish, TypeInv, WriterTypeOK
<1>4. \A h \in Writers : h # g =>
        \/ pc[h] = "wait" /\ lead[h] = g /\ pc'[h] = "woken"
        \/ ~(pc[h] = "wait" /\ lead[h] = g) /\ pc'[h] = pc[h]
  BY DEF Finish, Follows
<1>5. \A h \in Writers : h # g => \A x : InBatch(x, h)' <=> InBatch(x, h)
  BY <1>3 DEF InBatch
<1>6. e = "nil" => \A x : InBatch(x, g) => Written(x)
  BY DEF InBatch
<1>7. OwnInBatch'
  BY <1>1, <1>3, <1>4, <1>5 DEF OwnInBatch, LeaderPCs
<1>8. FollowerInBatch'
  <2> SUFFICES ASSUME NEW h \in Writers, pc'[h] = "wait"
               PROVE  lead'[h] \in Writers /\ pc'[lead'[h]] \in LeaderPCs /\ InBatch(BufferOf(h), lead[h])'
    BY DEF FollowerInBatch
  <2>1. h # g /\ pc[h] = "wait" /\ lead[h] # g /\ lead'[h] = lead[h]
    BY <1>3, <1>4
  <2>2. PICK k \in Writers : k = lead[h] /\ pc[k] \in LeaderPCs /\ InBatch(BufferOf(h), k)
    BY <2>1 DEF FollowerInBatch
  <2>3. k # g /\ pc'[k] \in LeaderPCs
    BY <1>4, <2>1, <2>2 DEF LeaderPCs
  <2> QED BY <1>1, <1>5, <2>1, <2>2, <2>3
<1>9. SentIsWritten'
  <2>1. Len(batch'[g]) = 0
    BY <1>3
  <2> QED BY <1>2, <1>3, <1>4, <2>1 DEF SentIsWritten
<1>10. BatchIsWritten'
  BY <1>2, <1>3, <1>4 DEF BatchIsWritten
<1>11. WokenIsWritten'
  <2> SUFFICES ASSUME NEW h \in Writers, pc'[h] = "woken", err' = "nil"
               PROVE  Written(BufferOf(h))'
    BY DEF WokenIsWritten
  <2>1. h # g /\ e = "nil" /\ err = "nil"
    BY <1>3
  <2>2. CASE pc[h] = "woken"
    BY <1>1, <1>2, <2>1, <2>2 DEF WokenIsWritten
  <2>3. CASE pc[h] = "wait" /\ lead[h] = g
    BY <1>1, <1>2, <1>6, <2>1, <2>3 DEF FollowerInBatch
  <2> QED BY <1>4, <2>1, <2>2, <2>3
<1>12. DoneIsWritten'
  BY <1>1, <1>2, <1>3, <1>4, <1>6 DEF DoneIsWritten, OwnInBatch
<1>13. AckedIsWritten'
  BY <1>2 DEF AckedIsWritten
<1> QED BY <1>7, <1>8, <1>9, <1>10, <1>11, <1>12, <1>13

\* The steps inside a call keep the invariant.
LEMMA StepKeeps ==
  ASSUME TypeInv, IInv, NEW g \in Writers, WriterStep(g)
  PROVE  IInv'
<1>1. /\ \A h \in Writers : BufferOf(h)' = BufferOf(h)
      /\ \A b : Written(b) => Written(b)'
  BY StepFrame
<1>2. LockInv'
  BY StepLocks DEF IInv
<1> USE DEF IInv, BatchInv
<1>3. ASSUME UNCHANGED <<batch, lead>>,
             \A h \in Writers : pc'[h] \in LeaderPCs <=> pc[h] \in LeaderPCs,
             \A h \in Writers : pc'[h] = "wait" => pc[h] = "wait"
      PROVE  OwnInBatch' /\ FollowerInBatch'
  <2>1. \A x : \A h \in Writers : InBatch(x, h)' <=> InBatch(x, h)
    BY <1>3 DEF InBatch
  <2>2. OwnInBatch'
    BY <1>1, <1>3, <2>1 DEF OwnInBatch
  <2>3. FollowerInBatch'
    <3> SUFFICES ASSUME NEW h \in Writers, pc'[h] = "wait"
                 PROVE  lead'[h] \in Writers /\ pc'[lead'[h]] \in LeaderPCs /\ InBatch(BufferOf(h), lead[h])'
      BY DEF FollowerInBatch
    <3>1. PICK k \in Writers : k = lead[h] /\ pc[k] \in LeaderPCs /\ InBatch(BufferOf(h), k)
      BY <1>3 DEF FollowerInBatch
    <3> QED BY <1>1, <1>3, <2>1, <3>1
  <2> QED BY <2>2, <2>3
<1>4. CASE AcquireWriteLock(g)
  <2>1. /\ UNCHANGED <<batch, lead, sent, werr, res, err, out, acked>>
        /\ pc[g] = "lead" /\ pc'[g] = "locked" /\ \A h \in Writers : h # g => pc'[h] = pc[h]
    BY <1>4 DEF AcquireWriteLock, TypeInv, WriterTypeOK
  <2>2. OwnInBatch' /\ FollowerInBatch'
    BY <1>3, <2>1 DEF LeaderPCs
  <2>3. SentIsWritten' /\ BatchIsWritten'
    BY <1>1, <2>1 DEF SentIsWritten, BatchIsWritten
  <2>4. WokenIsWritten' /\ DoneIsWritten' /\ AckedIsWritten'
    BY <1>1, <2>1 DEF WokenIsWritten, DoneIsWritten, AckedIsWritten
  <2> QED BY <1>2, <2>2, <2>3, <2>4
<1>5. CASE Detach(g)
  <2>1. CASE Failed /\ Finish(g, err)
    <3>1. PICK e \in Errors : e = err
      BY DEF TypeInv, WriterTypeOK
    <3>2. /\ pc[g] \in LeaderPCs /\ Finish(g, e) /\ err' = e /\ e # "nil"
          /\ UNCHANGED <<calls, lead, werr, out, acked>>
      BY <1>5, <2>1, <3>1 DEF Detach, Failed, LeaderPCs
    <3>3. BatchInv' /\ WokenIsWritten' /\ DoneIsWritten' /\ AckedIsWritten'
      BY <3>2, FinishKeeps
    <3> QED BY <1>2, <3>3
  <2>2. CASE pc' = [pc EXCEPT ![g] = "write"] /\ UNCHANGED <<batch, sent, res, writeLock>>
    <3>1. /\ UNCHANGED <<batch, lead, sent, werr, res, err, out, acked>>
          /\ pc[g] = "locked" /\ pc'[g] = "write" /\ \A h \in Writers : h # g => pc'[h] = pc[h]
      BY <1>5, <2>2 DEF Detach, TypeInv, WriterTypeOK
    <3>2. OwnInBatch' /\ FollowerInBatch'
      BY <1>3, <3>1 DEF LeaderPCs
    <3>3. SentIsWritten' /\ BatchIsWritten'
      BY <1>1, <3>1 DEF SentIsWritten, BatchIsWritten
    <3>4. WokenIsWritten' /\ DoneIsWritten' /\ AckedIsWritten'
      BY <1>1, <3>1 DEF WokenIsWritten, DoneIsWritten, AckedIsWritten
    <3> QED BY <1>2, <3>2, <3>3, <3>4
  <2> QED BY <1>5, <2>1, <2>2 DEF Detach
<1>6. CASE Emit(g)
  <2>1. /\ UNCHANGED <<pc, batch, lead, werr, res, err, acked>>
        /\ pc[g] = "write" /\ sent[g] < Len(batch[g]) /\ sent'[g] = sent[g] + 1
        /\ out' = Append(out, batch[g][sent[g] + 1])
        /\ \A h \in Writers : h # g => sent'[h] = sent[h]
    BY <1>6 DEF Emit, TypeInv, WriterTypeOK
  <2>2. batch[g] \in Seq(Buffers) /\ sent[g] \in Nat
    BY DEF TypeInv, WriterTypeOK
  <2>3. PICK x \in Buffers : x = batch[g][sent[g] + 1]
    BY <2>1, <2>2
  <2>4. Written(x)'
    BY <2>1, <2>3, AppendedIsWritten
  <2>5. OwnInBatch' /\ FollowerInBatch'
    BY <1>3, <2>1
  <2>6. SentIsWritten'
    <3> SUFFICES ASSUME NEW h \in Writers
                 PROVE  /\ pc'[h] \notin {"write", "wrote"} => sent'[h] = 0
                        /\ sent'[h] <= Len(batch'[h])
                        /\ \A i \in 1..sent'[h] : Written(batch[h][i])'
      BY DEF SentIsWritten
    <3>1. CASE h = g
      <4>1. sent'[g] <= Len(batch'[g])
        BY <2>1, <2>2
      <4>2. ASSUME NEW i \in 1..sent'[g] PROVE Written(batch[g][i])'
        <5>1. CASE i = sent[g] + 1
          <6>1. batch'[g][i] = x
            BY <2>1, <2>3, <5>1
          <6> QED BY <2>4, <6>1 DEF Written
        <5>2. CASE i # sent[g] + 1
          <6>1. PICK y : y = batch[g][i] /\ Written(y)
            BY <2>1, <2>2, <5>2 DEF SentIsWritten, Written
          <6>2. Written(y)' /\ batch'[g][i] = y
            BY <1>1, <2>1, <6>1
          <6> QED BY <6>2 DEF Written
        <5> QED BY <5>1, <5>2
      <4> QED BY <2>1, <3>1, <4>1, <4>2
    <3>2. CASE h # g
      BY <1>1, <2>1, <3>2 DEF SentIsWritten
    <3> QED BY <3>1, <3>2
  <2>7. BatchIsWritten'
    BY <1>1, <2>1 DEF BatchIsWritten
  <2>8. WokenIsWritten' /\ DoneIsWritten' /\ AckedIsWritten'
    BY <1>1, <2>1 DEF WokenIsWritten, DoneIsWritten, AckedIsWritten
  <2> QED BY <1>2, <2>5, <2>6, <2>7, <2>8
<1>7. CASE \E e \in Errors : WriteReturn(g, e)
  <2>1. /\ UNCHANGED <<batch, lead, sent, res, err, out, acked>>
        /\ pc[g] = "write" /\ pc'[g] = "wrote" /\ \A h \in Writers : h # g => pc'[h] = pc[h]
        /\ werr'[g] = "nil" => sent[g] = Len(batch[g])
        /\ \A h \in Writers : h # g => werr'[h] = werr[h]
    BY <1>7 DEF WriteReturn, SinkReturn, TypeInv, WriterTypeOK
  <2>2. OwnInBatch' /\ FollowerInBatch'
    BY <1>3, <2>1 DEF LeaderPCs
  <2>3. SentIsWritten' /\ BatchIsWritten'
    BY <1>1, <2>1 DEF SentIsWritten, BatchIsWritten
  <2>4. WokenIsWritten' /\ DoneIsWritten' /\ AckedIsWritten'
    BY <1>1, <2>1 DEF WokenIsWritten, DoneIsWritten, AckedIsWritten
  <2> QED BY <1>2, <2>2, <2>3, <2>4
<1>8. CASE Complete(g)
  <2>1. PICK e \in Errors : e = werr[g]
    BY DEF TypeInv, WriterTypeOK
  <2>2. /\ pc[g] = "wrote" /\ Finish(g, e) /\ err' = e
        /\ UNCHANGED <<calls, lead, werr, out, acked>>
    BY <1>8, <2>1 DEF Complete, Outcome
  <2>3. err = "nil" /\ pc[g] \in LeaderPCs
    BY <2>2 DEF LockInv, NoErrorWhileWriting, LeaderPCs
  <2>4. e = "nil" => \A i \in 1..Len(batch[g]) : Written(batch[g][i])
    BY <2>1, <2>2 DEF BatchIsWritten
  <2>5. BatchInv' /\ WokenIsWritten' /\ DoneIsWritten' /\ AckedIsWritten'
    BY <2>2, <2>3, <2>4, FinishKeeps
  <2> QED BY <1>2, <2>5
<1>9. CASE Follow(g)
  <2>1. /\ UNCHANGED <<batch, lead, sent, werr, err, out, acked>>
        /\ pc[g] = "woken" /\ pc'[g] = "done" /\ res'[g] = err
        /\ \A h \in Writers : h # g => pc'[h] = pc[h] /\ res'[h] = res[h]
    BY <1>9 DEF Follow, TypeInv, WriterTypeOK
  <2>2. OwnInBatch' /\ FollowerInBatch'
    BY <1>3, <2>1 DEF LeaderPCs
  <2>3. SentIsWritten' /\ BatchIsWritten'
    BY <1>1, <2>1 DEF SentIsWritten, BatchIsWritten
  <2>4. WokenIsWritten' /\ DoneIsWritten' /\ AckedIsWritten'
    BY <1>1, <2>1 DEF WokenIsWritten, DoneIsWritten, AckedIsWritten
  <2> QED BY <1>2, <2>2, <2>3, <2>4
<1>10. CASE Return(g)
  <2>1. /\ UNCHANGED <<batch, lead, sent, werr, res, err, out>>
        /\ pc[g] = "done" /\ pc'[g] = "idle" /\ \A h \in Writers : h # g => pc'[h] = pc[h]
        /\ acked' = IF res[g] = "nil" THEN acked \cup {BufferOf(g)} ELSE acked
    BY <1>10 DEF Return, Deliver, TypeInv, WriterTypeOK
  <2>2. OwnInBatch' /\ FollowerInBatch'
    BY <1>3, <2>1 DEF LeaderPCs
  <2>3. SentIsWritten' /\ BatchIsWritten'
    BY <1>1, <2>1 DEF SentIsWritten, BatchIsWritten
  <2>4. WokenIsWritten' /\ DoneIsWritten'
    BY <1>1, <2>1 DEF WokenIsWritten, DoneIsWritten
  <2>5. AckedIsWritten'
    BY <1>1, <2>1 DEF DoneIsWritten, AckedIsWritten
  <2> QED BY <1>2, <2>2, <2>3, <2>4, <2>5
<1> QED BY <1>4, <1>5, <1>6, <1>7, <1>8, <1>9, <1>10 DEF WriterStep

\* The inductive invariant holds in every reachable state.
LEMMA Invariance == WriterSpec => [](TypeInv /\ IInv)
<1>1. WriterInit => IInv
  BY WritersAssumption
  DEF WriterInit, IInv, LockInv, OpenBatch, Locked, NoErrorWhileWriting, BatchInv, OwnInBatch,
      FollowerInBatch, SentIsWritten, BatchIsWritten, WokenIsWritten, DoneIsWritten,
      AckedIsWritten, LeaderPCs
<1>2. TypeInv /\ IInv /\ [WriterNext]_wvars => IInv'
  <2> SUFFICES ASSUME TypeInv, IInv, [WriterNext]_wvars PROVE IInv'
    OBVIOUS
  <2>1. CASE UNCHANGED wvars
    <3>1. LockInv'
      BY <2>1 DEF wvars, IInv, LockInv, OpenBatch, Locked, NoErrorWhileWriting
    <3>2. OwnInBatch'
      BY <2>1 DEF wvars, IInv, BatchInv, OwnInBatch, InBatch, BufferOf
    <3>3. FollowerInBatch'
      BY <2>1 DEF wvars, IInv, BatchInv, FollowerInBatch, InBatch, BufferOf
    <3>4. SentIsWritten' /\ BatchIsWritten'
      BY <2>1 DEF wvars, IInv, BatchInv, SentIsWritten, BatchIsWritten, Written
    <3>5. WokenIsWritten' /\ DoneIsWritten' /\ AckedIsWritten'
      BY <2>1 DEF wvars, IInv, WokenIsWritten, DoneIsWritten, AckedIsWritten, Written, BufferOf
    <3> QED BY <3>1, <3>2, <3>3, <3>4, <3>5 DEF IInv, BatchInv
  <2>2. CASE WriterFinished
    BY <2>1, <2>2 DEF WriterFinished
  <2>3. CASE \E g \in Writers : Write(g) \/ WriterStep(g)
    BY <2>3, WriteKeeps, StepKeeps
  <2> QED BY <2>1, <2>2, <2>3 DEF WriterNext
<1> QED BY <1>1, <1>2, TypeInvariant, PTL DEF WriterSpec

\* A Write that returned no error has its buffer at the underlying writer, for
\* any number of goroutines and calls: the leader's error reaches every
\* follower of its batch before any later batch can clear or replace it.
THEOREM AckedWritten == WriterSpec => []AckedIsWritten
<1>1. IInv => AckedIsWritten
  BY DEF IInv
<1> QED BY <1>1, Invariance, PTL

\* After a failed underlying Write there is no further one and the error stays:
\* only the holder of writeLock calls the underlying writer, and it checked err
\* after it got the lock.
THEOREM FailStops == WriterSpec => FailStop
<1>1. TypeInv /\ IInv /\ [WriterNext]_wvars => [err # "nil" => err' = err /\ out' = out]_wvars
  <2> SUFFICES ASSUME TypeInv, IInv, WriterNext, err # "nil"
               PROVE  err' = err /\ out' = out
    OBVIOUS
  <2>1. \A g \in Writers : pc[g] \notin {"write", "wrote"}
    BY DEF IInv, LockInv, NoErrorWhileWriting
  <2>2. CASE WriterFinished
    BY <2>2 DEF WriterFinished, wvars
  <2>3. ASSUME NEW g \in Writers, Write(g) PROVE err' = err /\ out' = out
    BY <2>3 DEF Write
  <2>4. ASSUME NEW g \in Writers, WriterStep(g) PROVE err' = err /\ out' = out
    BY <2>1, <2>4
    DEF WriterStep, AcquireWriteLock, Detach, Emit, WriteReturn, SinkReturn, Complete, Follow,
        Return, Deliver
  <2> QED BY <2>2, <2>3, <2>4 DEF WriterNext
<1> QED BY <1>1, Invariance, PTL DEF WriterSpec, FailStop

-----------------------------------------------------------------------------
\* The invariant behind InOrder.  While nothing has failed, order consists of
\* what is written, the rest of the batch being written, and the open batch.
Writing(g) == pc[g] \in {"write", "wrote"}

\* The buffers of s are in o, after the first p.
PlacedAt(s, p, o) == p >= 0 /\ p + Len(s) <= Len(o) /\ \A i \in 1..Len(s) : o[p + i] = s[i]

\* Where the open batch begins in order, or will begin.
OpenStart == IF buf = None THEN Len(order) ELSE Len(order) - Len(batch[buf])

OrderInv ==
  err = "nil" =>
    /\ buf # None => PlacedAt(batch[buf], OpenStart, order)
    /\ \A g \in Writers : Writing(g) =>
         /\ PlacedAt(batch[g], Len(out) - sent[g], order)
         /\ Len(out) - sent[g] + Len(batch[g]) = OpenStart
    /\ (\A g \in Writers : ~Writing(g)) => Len(out) = OpenStart

\* An underlying Write that returned no error emitted the whole batch.
SentAll == \A g \in Writers : pc[g] = "wrote" /\ werr[g] = "nil" => sent[g] = Len(batch[g])

OrderedInv == InOrder /\ OrderInv /\ SentAll

\* What is placed in a sequence stays so when the sequence is extended, and grows
\* with it at the end.
LEMMA PlacedStays ==
  ASSUME NEW S, NEW s \in Seq(S), NEW o \in Seq(S), NEW q \in Seq(S), NEW p \in Int,
         Len(o) <= Len(q), \A i \in 1..Len(o) : q[i] = o[i],
         PlacedAt(s, p, o)
  PROVE  PlacedAt(s, p, q)
<1>1. \A i \in 1..Len(s) : p + i \in 1..Len(o)
  BY DEF PlacedAt
<1>2. p + Len(s) <= Len(q)
  BY DEF PlacedAt
<1> QED BY <1>1, <1>2 DEF PlacedAt

\* What is at its place stays there when more is taken in.
LEMMA PlacedGrows ==
  ASSUME NEW S, NEW s \in Seq(S), NEW o \in Seq(S), NEW b \in S,
         PlacedAt(s, Len(o) - Len(s), o)
  PROVE  PlacedAt(Append(s, b), Len(o) - Len(s), Append(o, b))
<1> DEFINE p == Len(o) - Len(s)
           t == Append(s, b)
           q == Append(o, b)
<1>1. /\ Len(s) \in Nat /\ Len(o) \in Nat /\ Len(t) = Len(s) + 1 /\ Len(q) = Len(o) + 1
      /\ t[Len(s) + 1] = b /\ q[Len(o) + 1] = b
      /\ \A i \in 1..Len(s) : t[i] = s[i]
      /\ \A i \in 1..Len(o) : q[i] = o[i]
  OBVIOUS
<1> HIDE DEF t, q
<1>2. ASSUME NEW i \in 1..Len(t) PROVE q[p + i] = t[i]
  <2>1. CASE i = Len(s) + 1
    BY <1>1, <2>1
  <2>2. CASE i # Len(s) + 1
    <3>1. i \in 1..Len(s) /\ p + i \in 1..Len(o)
      BY <1>1, <2>2 DEF PlacedAt
    <3> QED BY <1>1, <3>1 DEF PlacedAt
  <2> QED BY <2>1, <2>2
<1>3. PlacedAt(t, p, q)
  BY <1>1, <1>2 DEF PlacedAt
<1> QED BY <1>3 DEF t, q

\* A call of Write keeps the order: its buffer is the last of order and of the
\* open batch.
LEMMA WriteKeepsOrder ==
  ASSUME TypeInv, IInv, OrderedInv, NEW g \in Writers, Write(g)
  PROVE  OrderedInv'
<1> DEFINE b == <<g, calls[g] + 1>>
<1>1. /\ pc[g] = "idle" /\ err' = err
      /\ UNCHANGED <<sent, werr, out>>
  BY DEF Write
<1>2. /\ out \in Seq(Buffers) /\ order \in Seq(Buffers)
      /\ \A h \in Writers : batch[h] \in Seq(Buffers) /\ sent[h] \in Nat
  BY DEF TypeInv, WriterTypeOK
<1>6. b \in Buffers
  <2>1. calls[g] + 1 \in 1..MaxCalls
    BY MaxCallsAssumption DEF Write, TypeInv, WriterTypeOK
  <2> QED BY <2>1 DEF Buffers
<1>3. CASE WriteRefused(g)
  <2>1. UNCHANGED <<batch, buf, order>> /\ pc'[g] = "done" /\ \A h \in Writers : h # g => pc'[h] = pc[h]
    BY <1>3 DEF WriteRefused, TypeInv, WriterTypeOK
  <2>2. err # "nil"
    BY <1>3 DEF WriteRefused
  <2> QED BY <1>1, <2>1, <2>2 DEF OrderedInv, InOrder, OrderInv, SentAll
<1>4. CASE WriteJoin(g)
  <2>1. PICK h \in Writers : h = buf
    BY <1>4 DEF WriteJoin, TypeInv, WriterTypeOK
  <2>2. /\ err = "nil" /\ buf' = buf /\ order' = Append(order, b)
        /\ batch'[h] = Append(batch[h], b) /\ \A x \in Writers : x # h => batch'[x] = batch[x]
        /\ pc'[g] = "wait" /\ \A x \in Writers : x # g => pc'[x] = pc[x]
    BY <1>4, <2>1 DEF WriteJoin, TypeInv, WriterTypeOK
  <2>3. pc[h] \in {"lead", "locked"}
    BY <2>1 DEF IInv, LockInv, OpenBatch
  <2>4. \A x \in Writers : (Writing(x)' <=> Writing(x)) /\ (Writing(x) => x # h)
    BY <1>1, <2>2, <2>3 DEF Writing
  <2>5. /\ Len(order') = Len(order) + 1 /\ order'[Len(order) + 1] = b
        /\ \A i \in 1..Len(order) : order'[i] = order[i]
        /\ order' \in Seq(Buffers) /\ Len(order) \in Nat /\ Len(order) <= Len(order')
    BY <1>2, <1>6, <2>2
  <2>6. /\ Len(batch'[h]) = Len(batch[h]) + 1 /\ batch'[h][Len(batch[h]) + 1] = b
        /\ \A i \in 1..Len(batch[h]) : batch'[h][i] = batch[h][i]
    BY <1>2, <2>2
  <2>7. OpenStart' = OpenStart /\ OpenStart = Len(order) - Len(batch[h]) /\ h # None
    <3>1. h # None /\ OpenStart = Len(order) - Len(batch[h]) /\ OpenStart' = Len(order') - Len(batch'[h])
      BY <2>1, <2>2, WritersAssumption DEF OpenStart
    <3>2. Len(order) \in Nat /\ Len(batch[h]) \in Nat
      BY <1>2
    <3> QED BY <2>5, <2>6, <3>1, <3>2
  <2>9. PlacedAt(batch[h], OpenStart, order)
    BY <2>1, <2>2, <2>7 DEF OrderedInv, OrderInv
  <2>10. PlacedAt(batch'[h], OpenStart', order')
    BY <1>2, <1>6, <2>2, <2>7, <2>9, PlacedGrows
  <2>11. ASSUME NEW x \in Writers, Writing(x)'
         PROVE  /\ PlacedAt(batch'[x], Len(out') - sent'[x], order')
                /\ Len(out') - sent'[x] + Len(batch'[x]) = OpenStart'
    <3>1. /\ PlacedAt(batch[x], Len(out) - sent[x], order)
          /\ Len(out) - sent[x] + Len(batch[x]) = OpenStart
          /\ batch'[x] = batch[x] /\ sent'[x] = sent[x] /\ out' = out
      BY <1>1, <2>2, <2>4, <2>11 DEF OrderedInv, OrderInv
    <3>2. Len(out) - sent[x] \in Int
      BY <1>2
    <3>3. PlacedAt(batch'[x], Len(out') - sent'[x], order')
      <4>1. PlacedAt(batch[x], Len(out) - sent[x], order')
        BY <1>2, <2>5, <3>1, <3>2, PlacedStays
      <4> QED BY <3>1, <4>1
    <3> QED BY <2>7, <3>1, <3>3
  <2>12. (\A x \in Writers : ~Writing(x)') => Len(out') = OpenStart'
    BY <1>1, <2>2, <2>4, <2>7 DEF OrderedInv, OrderInv
  <2>13. OrderInv'
    BY <2>1, <2>2, <2>10, <2>11, <2>12 DEF OrderInv
  <2>14. InOrder'
    <3>1. Len(out) \in Nat /\ Len(out) <= Len(order) /\ \A i \in 1..Len(out) : out[i] = order[i]
      BY <1>2 DEF OrderedInv, InOrder
    <3>2. \A i \in 1..Len(out) : i \in 1..Len(order)
      BY <2>5, <3>1
    <3>3. Len(out') <= Len(order') /\ \A i \in 1..Len(out') : out'[i] = order'[i]
      BY <1>1, <2>5, <3>1, <3>2
    <3> QED BY <3>3 DEF InOrder
  <2>15. SentAll'
    BY <1>1, <2>2, <2>3 DEF OrderedInv, SentAll
  <2> QED BY <2>13, <2>14, <2>15 DEF OrderedInv
<1>5. CASE WriteLead(g)
  <2>2. /\ err = "nil" /\ buf = None /\ buf' = g /\ order' = Append(order, b) /\ g # None
        /\ batch'[g] = <<b>> /\ \A x \in Writers : x # g => batch'[x] = batch[x]
        /\ pc'[g] = "lead" /\ \A x \in Writers : x # g => pc'[x] = pc[x]
    BY <1>5, WritersAssumption DEF WriteLead, TypeInv, WriterTypeOK
  <2>4. \A x \in Writers : (Writing(x)' <=> Writing(x)) /\ (Writing(x) => x # g)
    BY <1>1, <2>2 DEF Writing
  <2>5. /\ Len(order') = Len(order) + 1 /\ order'[Len(order) + 1] = b
        /\ \A i \in 1..Len(order) : order'[i] = order[i]
        /\ order' \in Seq(Buffers) /\ Len(order) \in Nat /\ Len(order) <= Len(order')
    BY <1>2, <1>6, <2>2
  <2>6. Len(batch'[g]) = 1 /\ batch'[g][1] = b
    BY <2>2
  <2>7. OpenStart' = OpenStart /\ OpenStart = Len(order)
    BY <1>2, <2>2, <2>5, <2>6 DEF OpenStart
  <2>10. PlacedAt(batch'[g], OpenStart', order')
    <3>1. \A i \in 1..1 : i = 1
      OBVIOUS
    <3> QED BY <2>5, <2>6, <2>7, <3>1 DEF PlacedAt
  <2>11. ASSUME NEW x \in Writers, Writing(x)'
         PROVE  /\ PlacedAt(batch'[x], Len(out') - sent'[x], order')
                /\ Len(out') - sent'[x] + Len(batch'[x]) = OpenStart'
    <3>1. /\ PlacedAt(batch[x], Len(out) - sent[x], order)
          /\ Len(out) - sent[x] + Len(batch[x]) = OpenStart
          /\ batch'[x] = batch[x] /\ sent'[x] = sent[x] /\ out' = out
      BY <1>1, <2>2, <2>4, <2>11 DEF OrderedInv, OrderInv
    <3>2. Len(out) - sent[x] \in Int
      BY <1>2
    <3>3. PlacedAt(batch'[x], Len(out') - sent'[x], order')
      <4>1. PlacedAt(batch[x], Len(out) - sent[x], order')
        BY <1>2, <2>5, <3>1, <3>2, PlacedStays
      <4> QED BY <3>1, <4>1
    <3> QED BY <2>7, <3>1, <3>3
  <2>12. (\A x \in Writers : ~Writing(x)') => Len(out') = OpenStart'
    BY <1>1, <2>2, <2>4, <2>7 DEF OrderedInv, OrderInv
  <2>13. OrderInv'
    BY <2>2, <2>10, <2>11, <2>12 DEF OrderInv
  <2>14. InOrder'
    <3>1. Len(out) \in Nat /\ Len(out) <= Len(order) /\ \A i \in 1..Len(out) : out[i] = order[i]
      BY <1>2 DEF OrderedInv, InOrder
    <3>2. \A i \in 1..Len(out) : i \in 1..Len(order)
      BY <2>5, <3>1
    <3>3. Len(out') <= Len(order') /\ \A i \in 1..Len(out') : out'[i] = order'[i]
      BY <1>1, <2>5, <3>1, <3>2
    <3> QED BY <3>3 DEF InOrder
  <2>15. SentAll'
    BY <1>1, <2>2 DEF OrderedInv, SentAll
  <2> QED BY <2>13, <2>14, <2>15 DEF OrderedInv
<1> QED BY <1>3, <1>4, <1>5 DEF Write

\* The steps inside a call keep it: only the holder of writeLock emits, and it
\* emits what comes next in order.
LEMMA StepKeepsOrder ==
  ASSUME TypeInv, IInv, OrderedInv, NEW g \in Writers, WriterStep(g)
  PROVE  OrderedInv'
<1>1. /\ out \in Seq(Buffers) /\ order \in Seq(Buffers) /\ Len(out) \in Nat /\ Len(order) \in Nat
      /\ \A h \in Writers : batch[h] \in Seq(Buffers) /\ Len(batch[h]) \in Nat /\ sent[h] \in Nat
  BY DEF TypeInv, WriterTypeOK
<1>2. \A h \in Writers : Writing(h) => writeLock = h
  BY DEF Writing, IInv, LockInv, Locked
<1>3. order' = order
  BY DEF WriterStep, AcquireWriteLock, Detach, Emit, WriteReturn, SinkReturn, Complete, Follow, Return, Deliver
<1>4. ASSUME UNCHANGED <<out, batch, sent, buf, err>>, \A h \in Writers : Writing(h)' <=> Writing(h)
      PROVE  InOrder' /\ OrderInv'
  <2>1. OpenStart' = OpenStart
    BY <1>3, <1>4 DEF OpenStart
  <2> QED BY <1>3, <1>4, <2>1 DEF OrderedInv, InOrder, OrderInv
<1>5. CASE AcquireWriteLock(g)
  <2>1. /\ UNCHANGED <<out, batch, sent, buf, err, werr>>
        /\ pc[g] = "lead" /\ pc'[g] = "locked" /\ \A h \in Writers : h # g => pc'[h] = pc[h]
    BY <1>5 DEF AcquireWriteLock, TypeInv, WriterTypeOK
  <2>2. InOrder' /\ OrderInv'
    BY <1>4, <2>1 DEF Writing
  <2>3. SentAll'
    BY <2>1 DEF OrderedInv, SentAll
  <2> QED BY <2>2, <2>3 DEF OrderedInv
<1>6. CASE Detach(g)
  <2>1. pc[g] = "locked" /\ buf' = None /\ buf = g /\ UNCHANGED <<werr, err, out>>
    BY <1>6 DEF Detach, IInv, LockInv, OpenBatch
  <2>2. CASE Failed /\ Finish(g, err)
    <3>1. \A h \in Writers : pc'[h] = "wrote" =>
            pc[h] = "wrote" /\ batch'[h] = batch[h] /\ sent'[h] = sent[h]
      BY <2>2 DEF Finish, TypeInv, WriterTypeOK
    <3>2. SentAll'
      BY <2>1, <3>1 DEF OrderedInv, SentAll
    <3>3. err' # "nil"
      BY <2>1, <2>2 DEF Failed
    <3> QED BY <1>3, <2>1, <3>2, <3>3 DEF OrderedInv, InOrder, OrderInv
  <2>3. CASE ~Failed /\ pc' = [pc EXCEPT ![g] = "write"] /\ UNCHANGED <<batch, sent, res, writeLock>>
    <3>1. pc'[g] = "write" /\ \A h \in Writers : h # g => pc'[h] = pc[h]
      BY <2>3 DEF TypeInv, WriterTypeOK
    <3>2. writeLock = g
      BY <2>1 DEF IInv, LockInv, Locked
    <3>3. \A h \in Writers : ~Writing(h)
      BY <1>2, <2>1, <3>2 DEF Writing
    <3>4. \A h \in Writers : Writing(h)' => h = g
      BY <3>1, <3>3 DEF Writing
    <3>5. sent[g] = 0
      BY <2>1 DEF IInv, BatchInv, SentIsWritten
    <3>6. g # None /\ err = "nil"
      BY <2>3, WritersAssumption DEF Failed
    <3>7. OpenStart = Len(order) - Len(batch[g]) /\ OpenStart' = Len(order)
      BY <1>3, <2>1, <3>6 DEF OpenStart
    <3>8. PlacedAt(batch[g], OpenStart, order) /\ Len(out) = OpenStart
      BY <2>1, <3>3, <3>6 DEF OrderedInv, OrderInv
    <3>9. /\ PlacedAt(batch'[g], Len(out') - sent'[g], order')
          /\ Len(out') - sent'[g] + Len(batch'[g]) = OpenStart'
      <4>1. Len(out) - sent[g] = Len(out) /\ Len(out) + Len(batch[g]) = Len(order)
        BY <1>1, <3>5, <3>7, <3>8
      <4> QED BY <1>3, <2>1, <2>3, <3>7, <3>8, <4>1
    <3>10. OrderInv'
      BY <2>1, <3>1, <3>4, <3>9 DEF OrderInv, Writing
    <3>11. InOrder'
      BY <1>3, <2>1 DEF OrderedInv, InOrder
    <3>12. SentAll'
      BY <2>1, <2>3, <3>1 DEF OrderedInv, SentAll
    <3> QED BY <3>10, <3>11, <3>12 DEF OrderedInv
  <2> QED BY <1>6, <2>2, <2>3 DEF Detach
<1>7. CASE Emit(g)
  <2>1. /\ UNCHANGED <<pc, batch, werr, buf, err>>
        /\ pc[g] = "write" /\ sent[g] < Len(batch[g]) /\ sent'[g] = sent[g] + 1
        /\ out' = Append(out, batch[g][sent[g] + 1])
        /\ \A h \in Writers : h # g => sent'[h] = sent[h]
    BY <1>7 DEF Emit, TypeInv, WriterTypeOK
  <2>2. err = "nil" /\ Writing(g) /\ \A h \in Writers : Writing(h) => h = g
    BY <1>2, <2>1 DEF Writing, IInv, LockInv, NoErrorWhileWriting
  <2>3. /\ PlacedAt(batch[g], Len(out) - sent[g], order)
        /\ Len(out) - sent[g] + Len(batch[g]) = OpenStart
    BY <2>2 DEF OrderedInv, OrderInv
  <2>4. sent[g] + 1 \in 1..Len(batch[g])
    BY <1>1, <2>1
  <2>5. Len(out) + 1 <= Len(order) /\ order[Len(out) + 1] = batch[g][sent[g] + 1]
    <3>1. (Len(out) - sent[g]) + (sent[g] + 1) = Len(out) + 1
      BY <1>1
    <3>2. order[(Len(out) - sent[g]) + (sent[g] + 1)] = batch[g][sent[g] + 1]
      BY <2>3, <2>4 DEF PlacedAt
    <3>3. Len(out) - sent[g] + Len(batch[g]) <= Len(order)
      BY <2>3 DEF PlacedAt
    <3> QED BY <1>1, <2>4, <3>1, <3>2, <3>3
  <2>6. batch[g][sent[g] + 1] \in Buffers
    BY <1>1, <2>4
  <2>7. /\ Len(out') = Len(out) + 1 /\ out'[Len(out) + 1] = batch[g][sent[g] + 1]
        /\ \A i \in 1..Len(out) : out'[i] = out[i]
    BY <1>1, <2>1, <2>6
  <2>8. InOrder'
    <3>1. ASSUME NEW i \in 1..Len(out') PROVE out'[i] = order[i]
      <4>1. CASE i = Len(out) + 1
        BY <2>5, <2>7, <4>1
      <4>2. CASE i # Len(out) + 1
        <5>1. i \in 1..Len(out)
          BY <1>1, <2>7, <4>2
        <5> QED BY <2>7, <5>1 DEF OrderedInv, InOrder
      <4> QED BY <4>1, <4>2
    <3> QED BY <1>3, <2>5, <2>7, <3>1 DEF InOrder
  <2>9. OrderInv'
    <3>1. OpenStart' = OpenStart
      BY <1>3, <2>1 DEF OpenStart
    <3>2. Len(out') - sent'[g] = Len(out) - sent[g]
      BY <1>1, <2>1, <2>7
    <3>3. \A h \in Writers : Writing(h)' <=> h = g
      BY <2>1, <2>2 DEF Writing
    <3>4. buf' # None => PlacedAt(batch'[buf'], OpenStart', order')
      BY <1>3, <2>1, <2>2, <3>1 DEF OrderedInv, OrderInv
    <3>5. /\ PlacedAt(batch'[g], Len(out') - sent'[g], order')
          /\ Len(out') - sent'[g] + Len(batch'[g]) = OpenStart'
      BY <1>3, <2>1, <2>3, <3>1, <3>2
    <3> QED BY <3>3, <3>4, <3>5 DEF OrderInv
  <2>10. SentAll'
    BY <2>1 DEF OrderedInv, SentAll
  <2> QED BY <2>8, <2>9, <2>10 DEF OrderedInv
<1>8. CASE \E e \in Errors : WriteReturn(g, e)
  <2>1. /\ UNCHANGED <<out, batch, sent, buf, err>>
        /\ pc[g] = "write" /\ pc'[g] = "wrote" /\ \A h \in Writers : h # g => pc'[h] = pc[h]
        /\ werr'[g] = "nil" => sent[g] = Len(batch[g])
        /\ \A h \in Writers : h # g => werr'[h] = werr[h]
    BY <1>8 DEF WriteReturn, SinkReturn, TypeInv, WriterTypeOK
  <2>2. InOrder' /\ OrderInv'
    BY <1>4, <2>1 DEF Writing
  <2>3. SentAll'
    BY <2>1 DEF OrderedInv, SentAll
  <2> QED BY <2>2, <2>3 DEF OrderedInv
<1>9. CASE Complete(g)
  <2>1. /\ UNCHANGED <<werr, buf, out>> /\ pc[g] = "wrote" /\ err' = werr[g] /\ Finish(g, werr[g])
    BY <1>9 DEF Complete, Outcome
  <2>2. /\ pc'[g] = "done" /\ \A h \in Writers : h # g => batch'[h] = batch[h] /\ sent'[h] = sent[h]
        /\ \A h \in Writers : pc'[h] \in {"write", "wrote"} => h # g /\ pc[h] = pc'[h]
    BY <2>1 DEF Finish, Follows, TypeInv, WriterTypeOK
  <2>3. SentAll'
    BY <2>1, <2>2 DEF OrderedInv, SentAll
  <2>4. InOrder'
    BY <1>3, <2>1 DEF OrderedInv, InOrder
  <2>5. ASSUME err' = "nil" PROVE OrderInv'
    <3>1. sent[g] = Len(batch[g]) /\ err = "nil" /\ Writing(g)
      BY <2>1, <2>5 DEF OrderedInv, SentAll, Writing, IInv, LockInv, NoErrorWhileWriting
    <3>2. \A h \in Writers : ~Writing(h)'
      BY <1>2, <2>2, <3>1 DEF Writing
    <3>3. buf # g
      BY <2>1 DEF IInv, LockInv, OpenBatch
    <3>4. buf # None => buf \in Writers /\ batch'[buf] = batch[buf]
      BY <2>2, <3>3 DEF TypeInv, WriterTypeOK
    <3>5. OpenStart' = OpenStart
      BY <1>3, <2>1, <3>4 DEF OpenStart
    <3>6. Len(out) = OpenStart
      BY <1>1, <3>1 DEF OrderedInv, OrderInv
    <3>7. buf' # None => PlacedAt(batch'[buf'], OpenStart', order')
      BY <1>3, <2>1, <3>1, <3>4, <3>5 DEF OrderedInv, OrderInv
    <3> QED BY <2>1, <3>2, <3>5, <3>6, <3>7 DEF OrderInv
  <2>6. OrderInv'
    BY <2>5 DEF OrderInv
  <2> QED BY <2>3, <2>4, <2>6 DEF OrderedInv
<1>10. CASE Follow(g)
  <2>1. /\ UNCHANGED <<out, batch, sent, buf, err, werr>>
        /\ pc[g] = "woken" /\ pc'[g] = "done" /\ \A h \in Writers : h # g => pc'[h] = pc[h]
    BY <1>10 DEF Follow, TypeInv, WriterTypeOK
  <2>2. InOrder' /\ OrderInv'
    BY <1>4, <2>1 DEF Writing
  <2>3. SentAll'
    BY <2>1 DEF OrderedInv, SentAll
  <2> QED BY <2>2, <2>3 DEF OrderedInv
<1>11. CASE Return(g)
  <2>1. /\ UNCHANGED <<out, batch, sent, buf, err, werr>>
        /\ pc[g] = "done" /\ pc'[g] = "idle" /\ \A h \in Writers : h # g => pc'[h] = pc[h]
    BY <1>11 DEF Return, Deliver, TypeInv, WriterTypeOK
  <2>2. InOrder' /\ OrderInv'
    BY <1>4, <2>1 DEF Writing
  <2>3. SentAll'
    BY <2>1 DEF OrderedInv, SentAll
  <2> QED BY <2>2, <2>3 DEF OrderedInv
<1> QED BY <1>5, <1>6, <1>7, <1>8, <1>9, <1>10, <1>11 DEF WriterStep

\* The underlying writer receives the buffers once each, none broken or
\* interleaved, in the order in which Write took them in: whichever goroutines
\* lead the batches, and whether or not the underlying writer fails.
THEOREM WrittenInOrder == WriterSpec => []InOrder
<1>1. WriterInit => OrderedInv
  BY DEF WriterInit, OrderedInv, InOrder, OrderInv, SentAll, Writing, OpenStart
<1>2. TypeInv /\ IInv /\ OrderedInv /\ [WriterNext]_wvars => OrderedInv'
  <2> SUFFICES ASSUME TypeInv, IInv, OrderedInv, [WriterNext]_wvars PROVE OrderedInv'
    OBVIOUS
  <2>1. CASE UNCHANGED wvars
    BY <2>1 DEF wvars, OrderedInv, InOrder, OrderInv, SentAll, Writing, OpenStart, PlacedAt
  <2>2. CASE WriterFinished
    BY <2>1, <2>2 DEF WriterFinished
  <2>3. CASE \E g \in Writers : Write(g) \/ WriterStep(g)
    BY <2>3, WriteKeepsOrder, StepKeepsOrder
  <2> QED BY <2>1, <2>2, <2>3 DEF WriterNext
<1>3. OrderedInv => InOrder
  BY DEF OrderedInv
<1> QED BY <1>1, <1>2, <1>3, Invariance, PTL DEF WriterSpec

=============================================================================
