------------------------------ MODULE RefContext ------------------------------
(***************************************************************************)
(* refcontext.RefContext: a context that stays alive as long as one of the *)
(* contexts that were added with Ref is.  A watcher goroutine waits for    *)
(* the first context of the list; finished ones are removed at random      *)
(* whenever the list changes.                                              *)
(*                                                                         *)
(* The clean-up loop reads contexts that end at any time while it holds    *)
(* RefContext.lock, so the lock is a variable and an iteration a step.     *)
(***************************************************************************)
EXTENDS Naturals, Sequences

CONSTANTS
  Contexts,  \* the contexts that callers may add
  MaxRefs    \* bound: contexts added

ASSUME ContextsAssumption == Contexts # {}
ASSUME MaxRefsAssumption == MaxRefs \in Nat \ {0}

VARIABLES
  ctxs,      \* RefContext.ctxs
  lock,      \* RefContext.lock: "free", or held by "watcher" or "ref"
  wpc,       \* the watcher: "start", "waiting" or "exited"
  watched,   \* the context the watcher waits for
  ended,     \* the contexts that are done
  err,       \* RefContext's own context: "live" or "done"
  watchPanicked, \* the watcher met its panic, or an empty list
  refd,      \* history: the contexts that were added
  refs,      \* history: how many times
  stopped    \* history: the CancelFunc returned by New was called

refVars == <<ctxs, lock, wpc, watched, ended, err, watchPanicked, refd, refs, stopped>>

\* New
RefInit ==
  /\ \E x \in Contexts : ctxs = <<x>> /\ watched = x /\ refd = {x}
  /\ lock = "free" /\ wpc = "start"
  /\ ended = {}
  /\ err = "live"
  /\ watchPanicked = FALSE
  /\ refs = 1
  /\ stopped = FALSE

-----------------------------------------------------------------------------
\* A context ends; the user calls the CancelFunc.  Neither takes the lock.
End(x) ==
  /\ x \notin ended
  /\ ended' = ended \cup {x}
  /\ UNCHANGED <<ctxs, lock, wpc, watched, err, watchPanicked, refd, refs, stopped>>

Stop ==
  /\ ~stopped
  /\ stopped' = TRUE
  /\ err' = "done"
  /\ UNCHANGED <<ctxs, lock, wpc, watched, ended, watchPanicked, refd, refs>>

\* The element at i is overwritten by the last one and the list shortened.
SwapDelete(s, i) == SubSeq([s EXCEPT ![i] = s[Len(s)]], 1, Len(s) - 1)

\* Ref that succeeds, up to its randCleanup.
Ref(x) ==
  /\ lock = "free"
  /\ refs < MaxRefs
  /\ ctxs # <<>> /\ err = "live"
  /\ ctxs' = Append(ctxs, x)
  /\ refd' = refd \cup {x}
  /\ refs' = refs + 1
  /\ lock' = "ref"
  /\ UNCHANGED <<wpc, watched, ended, err, watchPanicked, stopped>>

\* The watcher leaves: the deferred reset of the list, and Unlock.
Leave ==
  /\ ctxs' = <<>>
  /\ lock' = "free"
  /\ wpc' = "exited"

\* Mutant: the watcher leaves without cancelling.
CancelSelfNot == UNCHANGED err
CancelSelf == err' = "done"

\* randCleanup is over: Ref returns; the watcher cancels if nothing is left, or
\* goes on waiting for the first of the list.
CleanupOver ==
  \/ /\ lock = "ref"
     /\ lock' = "free"
     /\ UNCHANGED <<ctxs, wpc, watched, err>>
  \/ /\ lock = "watcher"
     /\ ctxs = <<>>
     /\ CancelSelf
     /\ Leave
     /\ UNCHANGED watched
  \/ /\ lock = "watcher"
     /\ ctxs # <<>>
     /\ watched' = Head(ctxs)
     /\ lock' = "free"
     /\ UNCHANGED <<ctxs, wpc, err>>

\* Mutants: the clean-up may remove the first of the list, or one that is alive.
RemovableAny == {i \in 1..Len(ctxs) : ctxs[i] \in ended}
RemovableLive == 2..Len(ctxs)
Removable == {i \in 2..Len(ctxs) : ctxs[i] \in ended}

\* An iteration of randCleanup picks any element but the first.  It is removed
\* if it has ended ...
CleanupRemoves ==
  /\ lock # "free"
  /\ \E i \in Removable : ctxs' = SwapDelete(ctxs, i)
  /\ UNCHANGED <<lock, wpc, watched, ended, err, watchPanicked, refd, refs, stopped>>

\* ... and the loop stops if it has not, or if no element but the first is left.
CleanupStops ==
  /\ lock # "free"
  /\ Len(ctxs) <= 1 \/ \E i \in 2..Len(ctxs) : ctxs[i] \notin ended
  /\ CleanupOver
  /\ UNCHANGED <<ended, watchPanicked, refd, refs, stopped>>

-----------------------------------------------------------------------------
\* The watcher starts with the first of the list.
WatchStart ==
  /\ wpc = "start"
  /\ lock = "free"
  /\ wpc' = "waiting"
  /\ watchPanicked' = (ctxs = <<>>)
  /\ watched' = IF ctxs = <<>> THEN watched ELSE Head(ctxs)
  /\ UNCHANGED <<ctxs, lock, ended, err, refd, refs, stopped>>

\* Mutant: the select has no case for the RefContext's own context.
SelfDoneLate == err = "done" /\ watched \in ended
SelfDone == err = "done"

\* Its select ended and it has the lock: the user stopped the RefContext ...
WatchStopped ==
  /\ wpc = "waiting"
  /\ lock = "free"
  /\ SelfDone
  /\ Leave
  /\ UNCHANGED <<watched, ended, err, watchPanicked, refd, refs, stopped>>

\* ... or the watched context ended, and is removed from the list.
WatchEnded ==
  /\ wpc = "waiting"
  /\ lock = "free"
  /\ err = "live"
  /\ watched \in ended
  /\ watchPanicked' = (ctxs = <<>> \/ Head(ctxs) # watched)
  /\ ctxs' = IF watchPanicked' THEN ctxs ELSE SwapDelete(ctxs, 1)
  /\ lock' = "watcher"
  /\ UNCHANGED <<wpc, watched, ended, err, refd, refs, stopped>>

-----------------------------------------------------------------------------
Cleanup == CleanupRemoves \/ CleanupStops
Watch == WatchStart \/ WatchStopped \/ WatchEnded

Quiet == wpc = "exited" /\ lock = "free" /\ UNCHANGED refVars

RefNext == (\E x \in Contexts : End(x) \/ Ref(x)) \/ Stop \/ Cleanup \/ Watch \/ Quiet

\* The goroutines are scheduled; the watcher gets the lock although callers of
\* Ref take it again and again (sync.Mutex hands over in its starvation mode).
RefSpec == RefInit /\ [][RefNext]_refVars /\ WF_refVars(Cleanup) /\ SF_refVars(Watch)

-----------------------------------------------------------------------------
\* The types of the variables.
RefTypeOK ==
  /\ ctxs \in Seq(Contexts)
  /\ lock \in {"free", "watcher", "ref"}
  /\ wpc \in {"start", "waiting", "exited"}
  /\ watched \in Contexts
  /\ ended \subseteq Contexts
  /\ err \in {"live", "done"}
  /\ watchPanicked \in BOOLEAN
  /\ refd \subseteq Contexts
  /\ refs \in 1..MaxRefs
  /\ stopped \in BOOLEAN

\* The watcher finds the context it waited for at the head of the list: neither
\* Ref nor the clean-up moves it (panic "ctx != ctxs[0]").
NoWatchPanic == ~watchPanicked

\* The list invariant: the watched context stays first in a list that shrinks at
\* random places.
ListInv == RefTypeOK /\ NoWatchPanic

\* The RefContext does not end while a context that was added is alive, unless
\* the user stopped it.
AliveWhileReferenced == err = "done" /\ ~stopped => refd \subseteq ended

\* When all contexts that were added have ended, so does the RefContext, unless
\* another one is added before the watcher is done.
EndsAfterAll == refd \subseteq ended ~> err = "done" \/ ~(refd \subseteq ended)

\* The watcher does not outlive the RefContext.
WatcherExits == err = "done" ~> wpc = "exited" /\ ctxs = <<>>

=============================================================================
