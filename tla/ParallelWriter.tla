---------------------------- MODULE ParallelWriter ----------------------------
(***************************************************************************)
(* parallelwriter.Writer: concurrent Write calls are batched.  The first   *)
(* caller that finds no open batch becomes the leader of a new one; later  *)
(* callers append to the open batch and wait on its done channel.  The     *)
(* leader takes writeLock, closes the batch, hands it to the underlying    *)
(* io.Writer in one call, and wakes its followers.                         *)
(*                                                                         *)
(* Every critical section of Writer.lock is one action: all the fields it  *)
(* protects are read and written only inside it.  The underlying Write     *)
(* runs outside the lock, one buffer of the batch at a time, so that two   *)
(* overlapping calls would interleave in the output.                       *)
(***************************************************************************)
EXTENDS Naturals, Sequences

CONSTANTS
  Writers,    \* the goroutines that call Write
  MaxCalls,   \* bound: Write calls made by one goroutine
  None        \* nil

ASSUME WritersAssumption == None \notin Writers
ASSUME MaxCallsAssumption == MaxCalls \in Nat

VARIABLES
  pc,         \* where each goroutine is in Write
  calls,      \* number of Write calls each goroutine has made
  lead,       \* the leader whose done channel a follower waits on
  batch,      \* a leader's buf: the buffers collected for one underlying Write
  sent,       \* how many buffers of the batch the underlying Write has emitted
  werr,       \* what the underlying Write returned to the leader
  res,        \* the error Write is about to return
  buf,        \* Writer.buf and Writer.done: the open batch, named by its leader
  err,        \* Writer.err
  writeLock,  \* Writer.writeLock: its holder
  out,        \* the buffers the underlying writer received, in order
  order,      \* history: buffers in the order in which Write took them in
  acked       \* history: buffers whose Write returned no error

wvars == <<pc, calls, lead, batch, sent, werr, res, buf, err, writeLock,
           out, order, acked>>

Errors == {"nil", "fail"}

\* A buffer is named by the call that passed it: caller and call number.
Buffers == Writers \X (1..MaxCalls)
BufferOf(g) == <<g, calls[g]>>

Written(b) == \E i \in 1..Len(out) : out[i] = b

WriterPCs == {"idle", "wait", "woken", "lead", "locked", "write", "wrote", "done"}

WriterInit ==
  /\ pc = [g \in Writers |-> "idle"]
  /\ calls = [g \in Writers |-> 0]
  /\ lead = [g \in Writers |-> None]
  /\ batch = [g \in Writers |-> <<>>]
  /\ sent = [g \in Writers |-> 0]
  /\ werr = [g \in Writers |-> "nil"]
  /\ res = [g \in Writers |-> "nil"]
  /\ buf = None
  /\ err = "nil"
  /\ writeLock = None
  /\ out = <<>>
  /\ order = <<>>
  /\ acked = {}

-----------------------------------------------------------------------------
\* Write is called after an error: it is refused at once.
WriteRefused(g) ==
  /\ err # "nil"
  /\ pc' = [pc EXCEPT ![g] = "done"]
  /\ res' = [res EXCEPT ![g] = err]
  /\ UNCHANGED <<lead, batch, buf, order>>

\* Write finds an open batch: it appends its buffer and will wait for done.
WriteJoin(g) ==
  /\ err = "nil"
  /\ buf # None
  /\ batch' = [batch EXCEPT ![buf] = Append(@, <<g, calls[g] + 1>>)]
  /\ order' = Append(order, <<g, calls[g] + 1>>)
  /\ lead' = [lead EXCEPT ![g] = buf]
  /\ pc' = [pc EXCEPT ![g] = "wait"]
  /\ UNCHANGED <<res, buf>>

\* Write finds no open batch: it opens one and leads it.
WriteLead(g) ==
  /\ err = "nil"
  /\ buf = None
  /\ batch' = [batch EXCEPT ![g] = <<<<g, calls[g] + 1>>>>]
  /\ order' = Append(order, <<g, calls[g] + 1>>)
  /\ buf' = g
  /\ pc' = [pc EXCEPT ![g] = "lead"]
  /\ UNCHANGED <<lead, res>>

Write(g) ==
  /\ pc[g] = "idle"
  /\ calls[g] < MaxCalls
  /\ calls' = [calls EXCEPT ![g] = @ + 1]
  /\ WriteRefused(g) \/ WriteJoin(g) \/ WriteLead(g)
  /\ UNCHANGED <<sent, werr, err, writeLock, out, acked>>

\* Mutant: the leader does not wait for the previous underlying Write.
WriteUnlockedAlways == TRUE
WriteUnlocked == writeLock = None

AcquireWriteLock(g) ==
  /\ pc[g] = "lead"
  /\ WriteUnlocked
  /\ writeLock' = g
  /\ pc' = [pc EXCEPT ![g] = "locked"]
  /\ UNCHANGED <<calls, lead, batch, sent, werr, res, buf, err, out, order, acked>>

Follows(x, g) == pc[x] = "wait" /\ lead[x] = g

\* The leader's deferred calls, all under Writer.lock: unlock writeLock, close
\* done (which wakes every follower of this batch), reset the buffer.
Finish(g, e) ==
  /\ pc' = [x \in Writers |-> IF x = g THEN "done"
                              ELSE IF Follows(x, g) THEN "woken"
                              ELSE pc[x]]
  /\ res' = [res EXCEPT ![g] = e]
  /\ batch' = [batch EXCEPT ![g] = <<>>]
  /\ sent' = [sent EXCEPT ![g] = 0]
  /\ writeLock' = None

\* Mutant: the leader writes its batch without looking at the error again.
FailedNever == FALSE
Failed == err # "nil"

\* With writeLock held the leader closes the batch to further appends, and
\* gives up if an earlier batch failed meanwhile.
Detach(g) ==
  /\ pc[g] = "locked"
  /\ buf' = None
  /\ \/ /\ Failed
        /\ Finish(g, err)
     \/ /\ ~Failed
        /\ pc' = [pc EXCEPT ![g] = "write"]
        /\ UNCHANGED <<batch, sent, res, writeLock>>
  /\ UNCHANGED <<calls, lead, werr, err, out, order, acked>>

\* The underlying Write of the leader's batch emits its next buffer ...
Emit(g) ==
  /\ pc[g] = "write"
  /\ sent[g] < Len(batch[g])
  /\ out' = Append(out, batch[g][sent[g] + 1])
  /\ sent' = [sent EXCEPT ![g] = @ + 1]
  /\ UNCHANGED <<pc, calls, lead, batch, werr, res, buf, err, writeLock, order, acked>>

\* ... and returns: without error once everything is emitted, with one at any
\* point (io.Writer: a short write returns an error).
SinkReturn(g, e) ==
  /\ pc[g] = "write"
  /\ e = "nil" => sent[g] = Len(batch[g])

WriteReturn(g, e) ==
  /\ SinkReturn(g, e)
  /\ werr' = [werr EXCEPT ![g] = e]
  /\ pc' = [pc EXCEPT ![g] = "wrote"]
  /\ UNCHANGED <<calls, lead, batch, sent, res, buf, err, writeLock, out, order, acked>>

\* Mutant: the leader drops the underlying writer's error.
OutcomeDropped(g) == "nil"
Outcome(g) == werr[g]

\* The leader takes the lock again, publishes the result and returns.
Complete(g) ==
  /\ pc[g] = "wrote"
  /\ err' = Outcome(g)
  /\ Finish(g, Outcome(g))
  /\ UNCHANGED <<calls, lead, werr, buf, out, order, acked>>

\* A follower whose done channel is closed takes the lock and reads the error.
Follow(g) ==
  /\ pc[g] = "woken"
  /\ res' = [res EXCEPT ![g] = err]
  /\ pc' = [pc EXCEPT ![g] = "done"]
  /\ UNCHANGED <<calls, lead, batch, sent, werr, buf, err, writeLock, out, order, acked>>

\* Write returns to its caller, who is at p then.
Deliver(g, p) ==
  /\ pc' = [pc EXCEPT ![g] = p]
  /\ acked' = IF res[g] = "nil" THEN acked \cup {BufferOf(g)} ELSE acked
  /\ UNCHANGED <<calls, lead, batch, sent, werr, res, buf, err, writeLock, out, order>>

Return(g) == pc[g] = "done" /\ Deliver(g, "idle")

-----------------------------------------------------------------------------
WriterStep(g) ==
  \/ AcquireWriteLock(g)
  \/ Detach(g)
  \/ Emit(g)
  \/ \E e \in Errors : WriteReturn(g, e)
  \/ Complete(g)
  \/ Follow(g)
  \/ Return(g)

\* Every goroutine has made its calls and they have returned.
WriterFinished ==
  /\ \A g \in Writers : pc[g] = "idle" /\ calls[g] = MaxCalls
  /\ UNCHANGED wvars

WriterNext == (\E g \in Writers : Write(g) \/ WriterStep(g)) \/ WriterFinished

WriterSpec == WriterInit /\ [][WriterNext]_wvars

-----------------------------------------------------------------------------
\* The types of the variables; a waiting follower has a channel to wait on (a
\* receive from a nil channel blocks for ever).
WriterTypeOK ==
  /\ pc \in [Writers -> WriterPCs]
  /\ calls \in [Writers -> 0..MaxCalls]
  /\ lead \in [Writers -> Writers \cup {None}]
  /\ batch \in [Writers -> Seq(Buffers)]
  /\ sent \in [Writers -> Nat]
  /\ werr \in [Writers -> Errors]
  /\ res \in [Writers -> Errors]
  /\ buf \in Writers \cup {None}
  /\ err \in Errors
  /\ writeLock \in Writers \cup {None}
  /\ out \in Seq(Buffers)
  /\ order \in Seq(Buffers)
  /\ acked \subseteq Buffers
  /\ \A g \in Writers : pc[g] = "wait" => lead[g] # None

\* A Write that returned without an error has its buffer at the underlying
\* writer, although a follower never sees the underlying call and reads the
\* shared err only after it is scheduled again.
AckedIsWritten == \A b \in acked : Written(b)

\* "Parallel writes are atomic, and buffers are never interleaved or broken":
\* the underlying writer receives the buffers once each and in the order in
\* which Write took them in, whichever goroutines led the batches.
InOrder ==
  /\ Len(out) <= Len(order)
  /\ \A i \in 1..Len(out) : out[i] = order[i]

\* After the underlying writer failed it is not called again (the tests'
\* failingWriter panics on such a call) and the error stays.
FailStop == [][err # "nil" => err' = err /\ out' = out]_wvars
=============================================================================
