------------------------------- MODULE Failover -------------------------------
(***************************************************************************)
(* failover.DoSlice and failover.Do: the options are tried one after       *)
(* another, the next one when a timeout expires or an attempt asks for a   *)
(* fast failover; the first result is returned.                            *)
(*                                                                         *)
(* Four kinds of goroutines: the caller, the producer that DoSlice starts  *)
(* to send the options, the dispatcher that Do starts, and one attempt per *)
(* option.  A send on an unbuffered channel and its receive are one step.  *)
(***************************************************************************)
EXTENDS Naturals

CONSTANT NumOptions   \* rv.Len()
ASSUME OptionsAssumption == NumOptions \in Nat
Options == 1..NumOptions

VARIABLES
  mpc,        \* the caller inside DoSlice and Do
  ppc,        \* the producer
  dpc,        \* the dispatcher
  att,        \* the attempt on each option
  value,      \* what f returned: a value that may need closing, or an error
  next,       \* the option the producer sends next
  token,      \* failoverCh holds a token
  sliceCtx,   \* the context that DoSlice derives
  doCtx,      \* the context that Do derives from it
  got,        \* the attempt whose result the caller received, 0 for none
  result,     \* what Do returns
  cancelled   \* history: the caller's context was cancelled

vars == <<mpc, ppc, dpc, att, value, next, token, sliceCtx, doCtx, got, result, cancelled>>

CallerPCs == {"start", "receive", "leave", "join", "cleanup", "returned"}
DispatcherPCs == {"pick", "pause", "wait", "exited"}
AttemptPCs == {"none", "running", "offer", "block", "failed", "delivered", "discarded"}

Init ==
  /\ mpc = "start" /\ ppc = "sending" /\ dpc = "pick"
  /\ att = [i \in Options |-> "none"]
  /\ value = [i \in Options |-> "none"]
  /\ next = 1
  /\ token = 0
  /\ sliceCtx = "live" /\ doCtx = "live"
  /\ got = 0 /\ result = "none"
  /\ cancelled = FALSE

-----------------------------------------------------------------------------
\* The caller's context is cancelled (or its deadline passes).  The derived
\* contexts follow one after the other: context.cancelCtx closes its own Done
\* channel before it cancels its children.
CallerCancels ==
  /\ ~cancelled
  /\ mpc # "returned"
  /\ cancelled' = TRUE
  /\ sliceCtx' = "done"
  /\ UNCHANGED <<mpc, ppc, dpc, att, value, next, token, doCtx, got, result>>

Propagate ==
  /\ sliceCtx = "done"
  /\ doCtx = "live"
  /\ doCtx' = "done"
  /\ UNCHANGED <<mpc, ppc, dpc, att, value, next, token, sliceCtx, got, result, cancelled>>

-----------------------------------------------------------------------------
\* DoSlice's producer closes ch after the last option or when its context ends.
ProducerExit ==
  /\ ppc = "sending"
  /\ next > NumOptions \/ sliceCtx = "done"
  /\ ppc' = "exited"
  /\ UNCHANGED <<mpc, dpc, att, value, next, token, sliceCtx, doCtx, got, result, cancelled>>

\* The dispatcher receives the next option and starts an attempt on it ...
Dispatch ==
  /\ dpc = "pick"
  /\ ppc = "sending"
  /\ next <= NumOptions
  /\ att' = [att EXCEPT ![next] = "running"]
  /\ next' = next + 1
  /\ dpc' = "pause"
  /\ UNCHANGED <<mpc, ppc, value, token, sliceCtx, doCtx, got, result, cancelled>>

\* ... then waits for the timeout or for a failover token ...
Timeout ==
  /\ dpc = "pause"
  /\ dpc' = "pick"
  /\ UNCHANGED <<mpc, ppc, att, value, next, token, sliceCtx, doCtx, got, result, cancelled>>

FastFailover ==
  /\ dpc = "pause"
  /\ token = 1
  /\ token' = 0
  /\ dpc' = "pick"
  /\ UNCHANGED <<mpc, ppc, att, value, next, sliceCtx, doCtx, got, result, cancelled>>

\* ... and stops when ch is closed or the context ends.
DispatcherStop ==
  /\ \/ dpc = "pick" /\ ppc = "exited"
     \/ dpc \in {"pick", "pause"} /\ doCtx = "done"
  /\ dpc' = "wait"
  /\ UNCHANGED <<mpc, ppc, att, value, next, token, sliceCtx, doCtx, got, result, cancelled>>

Ended == {"none", "failed", "delivered", "discarded"}

AttemptsEnded == \A i \in Options : att[i] \in Ended

\* wg.Wait, then failoverCh, resultCh and done are closed.
DispatcherExit ==
  /\ dpc = "wait"
  /\ AttemptsEnded
  /\ dpc' = "exited"
  /\ UNCHANGED <<mpc, ppc, att, value, next, token, sliceCtx, doCtx, got, result, cancelled>>

-----------------------------------------------------------------------------
\* f gives up with ErrFailover or a context error: try to leave a token.
AttemptFails(i) ==
  /\ att[i] = "running"
  /\ token' = 1
  /\ att' = [att EXCEPT ![i] = "failed"]
  /\ UNCHANGED <<mpc, ppc, dpc, value, next, sliceCtx, doCtx, got, result, cancelled>>

\* f returns a value, which may be an io.Closer, or an error of its own.
AttemptEnds(i, v) ==
  /\ att[i] = "running"
  /\ att' = [att EXCEPT ![i] = "offer"]
  /\ value' = [value EXCEPT ![i] = v]
  /\ UNCHANGED <<mpc, ppc, dpc, next, token, sliceCtx, doCtx, got, result, cancelled>>

\* The result is handed to the caller if it is at the receive.
Deliver(i) ==
  /\ att[i] \in {"offer", "block"}
  /\ mpc = "receive"
  /\ att' = [att EXCEPT ![i] = "delivered"]
  /\ got' = i
  /\ result' = value[i]
  /\ mpc' = "leave"
  /\ UNCHANGED <<ppc, dpc, value, next, token, sliceCtx, doCtx, cancelled>>

\* Mutant: a result that cannot be handed over at once is dropped.
NotReceivedDropped == "discarded"
NotReceived == "block"

\* The first select takes its default case: nobody receives at the moment.
Postpone(i) ==
  /\ att[i] = "offer"
  /\ mpc # "receive"
  /\ att' = [att EXCEPT ![i] = NotReceived]
  /\ UNCHANGED <<mpc, ppc, dpc, value, next, token, sliceCtx, doCtx, got, result, cancelled>>

\* Mutant: an attempt that cannot deliver never looks at the context.
GivesUpNever == FALSE
GivesUp == doCtx = "done"

\* Mutant: the value is dropped without being closed.
CloseNot(v) == v
Close(v) == IF v = "value" THEN "closed" ELSE v

\* The second select sees the end of the context: a value is closed.
Discard(i) ==
  /\ att[i] = "block"
  /\ GivesUp
  /\ att' = [att EXCEPT ![i] = "discarded"]
  /\ value' = [value EXCEPT ![i] = Close(@)]
  /\ UNCHANGED <<mpc, ppc, dpc, next, token, sliceCtx, doCtx, got, result, cancelled>>

-----------------------------------------------------------------------------
\* The caller reaches the receive from resultCh.
Receive ==
  /\ mpc = "start"
  /\ mpc' = "receive"
  /\ UNCHANGED <<ppc, dpc, att, value, next, token, sliceCtx, doCtx, got, result, cancelled>>

\* resultCh is closed: the context's error, or ErrNoResult.
ReceiveClosed ==
  /\ mpc = "receive"
  /\ dpc = "exited"
  /\ result' = IF doCtx = "done" THEN "ctx" ELSE "noresult"
  /\ mpc' = "leave"
  /\ UNCHANGED <<ppc, dpc, att, value, next, token, sliceCtx, doCtx, got, cancelled>>

\* Do's deferred calls: cancel its context, wait for the dispatcher.
LeaveDo ==
  /\ mpc = "leave"
  /\ doCtx' = "done"
  /\ mpc' = "join"
  /\ UNCHANGED <<ppc, dpc, att, value, next, token, sliceCtx, got, result, cancelled>>

\* Do returns, and DoSlice cancels its context ...
JoinDispatcher ==
  /\ mpc = "join"
  /\ dpc = "exited"
  /\ sliceCtx' = "done"
  /\ mpc' = "cleanup"
  /\ UNCHANGED <<ppc, dpc, att, value, next, token, doCtx, got, result, cancelled>>

\* ... and waits for the producer.
JoinProducer ==
  /\ mpc = "cleanup"
  /\ ppc = "exited"
  /\ mpc' = "returned"
  /\ UNCHANGED <<ppc, dpc, att, value, next, token, sliceCtx, doCtx, got, result, cancelled>>

Returned == mpc = "returned" /\ UNCHANGED vars

-----------------------------------------------------------------------------
CallerStep == Receive \/ ReceiveClosed \/ LeaveDo \/ JoinDispatcher \/ JoinProducer
DispatcherStep == Dispatch \/ Timeout \/ FastFailover \/ DispatcherStop \/ DispatcherExit
AttemptStep(i) ==
  \/ AttemptFails(i)
  \/ \E v \in {"value", "error"} : AttemptEnds(i, v)
  \/ Deliver(i) \/ Postpone(i) \/ Discard(i)

Next ==
  \/ CallerCancels \/ Propagate
  \/ CallerStep \/ ProducerExit \/ DispatcherStep
  \/ \E i \in Options : AttemptStep(i)
  \/ Returned

\* Goroutines are scheduled fairly, timeouts expire and f returns.  Nobody is
\* obliged to cancel.
Spec ==
  /\ Init /\ [][Next]_vars
  /\ WF_vars(Propagate) /\ WF_vars(CallerStep) /\ WF_vars(ProducerExit)
  /\ WF_vars(DispatcherStep)
  /\ \A i \in Options : WF_vars(AttemptStep(i))

-----------------------------------------------------------------------------
\* The types of the variables; no attempt is left that could send on a channel
\* the dispatcher has closed, which would panic.
TypeOK ==
  /\ mpc \in CallerPCs /\ ppc \in {"sending", "exited"} /\ dpc \in DispatcherPCs
  /\ att \in [Options -> AttemptPCs]
  /\ value \in [Options -> {"none", "value", "error", "closed"}]
  /\ next \in 1..(NumOptions + 1)
  /\ token \in {0, 1}
  /\ sliceCtx \in {"live", "done"} /\ doCtx \in {"live", "done"}
  /\ got \in 0..NumOptions
  /\ result \in {"none", "value", "error", "ctx", "noresult"}
  /\ cancelled \in BOOLEAN
  /\ dpc = "exited" => \A i \in Options : att[i] \in Ended

\* When DoSlice has returned, all its goroutines have ended, and every value that
\* some attempt produced was either returned to the caller or closed.
NothingLeaks ==
  mpc = "returned" =>
    /\ ppc = "exited" /\ dpc = "exited"
    /\ \A i \in Options : att[i] \in Ended
    /\ \A i \in Options : value[i] = "value" => got = i /\ result = "value"

\* The goroutines of a call end before it does, none of them meets a closed
\* channel, and no value is left over.
FailoverInv == TypeOK /\ NothingLeaks

\* A result is not lost while nobody cancels: without a result every option was
\* tried and gave up.
NoResultIsHonest ==
  mpc = "returned" /\ ~cancelled =>
    \/ got # 0
    \/ result = "noresult" /\ \A i \in Options : att[i] = "failed"

\* DoSlice returns, and waits for nobody for ever.
DoReturns == <>(mpc = "returned")

\* "ErrNoResult indicates that no result was available after performing all
\* available tries", also when the caller's context is cancelled meanwhile.
NoResultAfterAllTries ==
  mpc = "returned" /\ result = "noresult" => \A i \in Options : att[i] = "failed"

=============================================================================
