---------------------------- MODULE HijackListener ----------------------------
(***************************************************************************)
(* The server side of hijacked connections: hijackHandler, an http.Handler *)
(* that hands each connection it takes over to Accept through a channel    *)
(* without buffer, under the filtered and the rate limited listener:       *)
(*   NewRateLimited(NewFiltered(hijackHandler, f), rate, burst)            *)
(*                                                                         *)
(* net/http runs one handler per connection, servers call Accept in a loop *)
(* until it fails, and any goroutine may call Close.  The rate limiter is  *)
(* external: a bucket of tokens that the passing of time refills.          *)
(***************************************************************************)
EXTENDS Integers, FiniteSets

CONSTANTS
  Conns,      \* bound: the connections
  Acceptors,  \* goroutines that accept
  Closers,    \* goroutines that call Close, once each
  Burst       \* tokens of the rate limiter

ASSUME BurstAssumption == Burst \in Nat /\ IsFiniteSet(Conns)

VARIABLES
  handler,    \* per connection, ServeHTTP: "none", "serve", "refused", "select", "returned"
  acceptor,   \* per acceptor: "limiter", "select", "filter" or "stopped"
  taken,      \* per acceptor: the connections it received and did not pass on
  server,     \* the connections returned to a caller of Accept
  shut,       \* the connections that the code has closed
  closer,     \* per closer: "idle", "swapped", "cancel" or "returned"
  ch,         \* per closer: whether it has the channel to close
  closedDone, \* hijackHandler.closedDone is not nil
  done,       \* the channel done is closed
  limitDone,  \* the context of the rate limited listener has ended
  tokens      \* of the limiter

listenerVars ==
  <<handler, acceptor, taken, server, shut, closer, ch, closedDone, done, limitDone, tokens>>

ListenerInit ==
  /\ handler = [i \in Conns |-> "none"]
  /\ acceptor = [a \in Acceptors |-> "limiter"]
  /\ taken = [a \in Acceptors |-> {}]
  /\ server = {}
  /\ shut = {}
  /\ closer = [k \in Closers |-> "idle"]
  /\ ch = [k \in Closers |-> FALSE]
  /\ closedDone = TRUE
  /\ done = FALSE
  /\ limitDone = FALSE
  /\ tokens = Burst

-----------------------------------------------------------------------------
\* ServeHTTP.
Request(i) ==
  /\ handler[i] = "none"
  /\ handler' = [handler EXCEPT ![i] = "serve"]
  /\ UNCHANGED <<acceptor, taken, server, shut, closer, ch, closedDone, done, limitDone, tokens>>

\* HTTP/2, no http.Hijacker, or Hijack fails: the connection stays with net/http.
Refuse(i) ==
  /\ handler[i] = "serve"
  /\ handler' = [handler EXCEPT ![i] = "refused"]
  /\ UNCHANGED <<acceptor, taken, server, shut, closer, ch, closedDone, done, limitDone, tokens>>

\* Hijack and newHijackedConn, whose flush may fail.
Hijack(i) ==
  /\ handler[i] = "serve"
  /\ \/ handler' = [handler EXCEPT ![i] = "select"] /\ UNCHANGED shut
     \/ handler' = [handler EXCEPT ![i] = "returned"] /\ shut' = shut \union {i}
  /\ UNCHANGED <<acceptor, taken, server, closer, ch, closedDone, done, limitDone, tokens>>

\* Mutant: the connection is not closed when the listener is.
ClosedByHandlerNot(i) == {}
\* What the select on done closes.
ClosedByHandler(i) == {i}

HandlerDone(i) ==
  /\ handler[i] = "select" /\ done
  /\ handler' = [handler EXCEPT ![i] = "returned"]
  /\ shut' = shut \union ClosedByHandler(i)
  /\ UNCHANGED <<acceptor, taken, server, closer, ch, closedDone, done, limitDone, tokens>>

-----------------------------------------------------------------------------
\* Accept.  rateLimitedListener: the limiter lets the call pass for a token, and
\* without one when the context has ended or the burst is zero, the error being
\* ignored.
Wait(a) ==
  /\ acceptor[a] = "limiter"
  /\ \/ tokens > 0 /\ tokens' = tokens - 1
     \/ (limitDone \/ Burst = 0) /\ UNCHANGED tokens
  /\ acceptor' = [acceptor EXCEPT ![a] = "select"]
  /\ UNCHANGED <<handler, taken, server, shut, closer, ch, closedDone, done, limitDone>>

\* hijackHandler.Accept receives from a handler; both go on.
HandOver(a, i) ==
  /\ acceptor[a] = "select" /\ handler[i] = "select"
  /\ acceptor' = [acceptor EXCEPT ![a] = "filter"]
  /\ taken' = [taken EXCEPT ![a] = @ \union {i}]
  /\ handler' = [handler EXCEPT ![i] = "returned"]
  /\ UNCHANGED <<server, shut, closer, ch, closedDone, done, limitDone, tokens>>

AcceptFails(a) ==
  /\ acceptor[a] = "select" /\ done
  /\ acceptor' = [acceptor EXCEPT ![a] = "stopped"]
  /\ UNCHANGED <<handler, taken, server, shut, closer, ch, closedDone, done, limitDone, tokens>>

\* filteredListener: a connection that f refuses is closed, and the call receives
\* again, without asking the limiter.
Filter(a) ==
  /\ acceptor[a] = "filter"
  /\ taken' = [taken EXCEPT ![a] = {}]
  /\ \/ /\ server' = server \union taken[a]
        /\ acceptor' = [acceptor EXCEPT ![a] = "limiter"]
        /\ UNCHANGED shut
     \/ /\ shut' = shut \union taken[a]
        /\ acceptor' = [acceptor EXCEPT ![a] = "select"]
        /\ UNCHANGED server
  /\ UNCHANGED <<handler, closer, ch, closedDone, done, limitDone, tokens>>

\* The limiter gains a token with time.
Refill ==
  /\ tokens < Burst
  /\ tokens' = tokens + 1
  /\ UNCHANGED <<handler, acceptor, taken, server, shut, closer, ch, closedDone, done, limitDone>>

-----------------------------------------------------------------------------
\* Close.  hijackHandler.Close takes the channel under its lock and closes it
\* after; then the rate limited listener cancels its context.
SwapDone(k) ==
  /\ closer[k] = "idle"
  /\ closer' = [closer EXCEPT ![k] = "swapped"]
  /\ ch' = [ch EXCEPT ![k] = closedDone]
  /\ closedDone' = FALSE
  /\ UNCHANGED <<handler, acceptor, taken, server, shut, done, limitDone, tokens>>

CloseDone(k) ==
  /\ closer[k] = "swapped"
  /\ closer' = [closer EXCEPT ![k] = "cancel"]
  /\ done' = (done \/ ch[k])
  /\ UNCHANGED <<handler, acceptor, taken, server, shut, ch, closedDone, limitDone, tokens>>

\* Mutant: the context is not cancelled.
CancelledNot == limitDone
Cancelled == TRUE

CancelContext(k) ==
  /\ closer[k] = "cancel"
  /\ closer' = [closer EXCEPT ![k] = "returned"]
  /\ limitDone' = Cancelled
  /\ UNCHANGED <<handler, acceptor, taken, server, shut, ch, closedDone, done, tokens>>

-----------------------------------------------------------------------------
HandlerNext(i) == Refuse(i) \/ Hijack(i) \/ HandlerDone(i)
AcceptorNext(a) == Wait(a) \/ AcceptFails(a) \/ Filter(a) \/ \E i \in Conns : HandOver(a, i)
CloserNext(k) == CloseDone(k) \/ CancelContext(k)

ListenerNext ==
  \/ Refill
  \/ \E i \in Conns : Request(i) \/ HandlerNext(i)
  \/ \E a \in Acceptors : AcceptorNext(a)
  \/ \E k \in Closers : SwapDone(k) \/ CloserNext(k)

\* Every goroutine that can go on does.  Time need not refill the limiter,
\* connections need not come and nobody need call Close.
ListenerFairness ==
  /\ \A i \in Conns : WF_listenerVars(HandlerNext(i))
  /\ \A a \in Acceptors : WF_listenerVars(AcceptorNext(a))
  /\ \A k \in Closers : WF_listenerVars(CloserNext(k))

ListenerSpec == ListenerInit /\ [][ListenerNext]_listenerVars /\ ListenerFairness

-----------------------------------------------------------------------------
\* A connection that was taken over from net/http is with its handler, with one
\* acceptor, with the server, or closed, and only one of these: none is dropped
\* when Close races the hand-over, and none is closed while somebody uses it.
\* The channel done is closed by one Close only.
Places(i) ==
  (IF handler[i] = "select" THEN {<<"handler">>} ELSE {})
  \union {<<"acceptor", a>> : a \in {a \in Acceptors : i \in taken[a]}}
  \union (IF i \in server THEN {<<"server">>} ELSE {})
  \union (IF i \in shut THEN {<<"closed">>} ELSE {})
ListenerInv ==
  /\ \A i \in Conns :
       Cardinality(Places(i)) = IF handler[i] \in {"select", "returned"} THEN 1 ELSE 0
  /\ \A a \in Acceptors : taken[a] # {} <=> acceptor[a] = "filter"
  /\ \A k, m \in Closers : ch[k] /\ ch[m] => k = m
  /\ done => \E k \in Closers : ch[k] /\ closer[k] \in {"cancel", "returned"}

\* net.Listener's contract that Close unblocks any waiting Accept: after a Close
\* every Accept fails in the end, also one that waits for the rate limiter, and
\* every handler that waits for an Accept returns.
CloseUnblocks ==
  /\ \A a \in Acceptors : (\E k \in Closers : closer[k] # "idle") ~> acceptor[a] = "stopped"
  /\ \A i \in Conns :
       (handler[i] = "select" /\ \E k \in Closers : closer[k] # "idle") ~> handler[i] = "returned"

=============================================================================
