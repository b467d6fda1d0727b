----------------------------- MODULE SemaphoreMap -----------------------------
(***************************************************************************)
(* syncmap.SemaphoreMap: a map from keys to weighted semaphores that       *)
(* allocates a semaphore on first use and deletes it when nobody uses it.  *)
(*                                                                         *)
(* One action per critical section of SemaphoreMap.lock, per atomic access *)
(* and per call of semaphore.Weighted (external: a counter with a FIFO     *)
(* list of waiters, each call atomic).  As in LockMap, names of objects    *)
(* that nobody can reach any more are used again.                          *)
(***************************************************************************)
EXTENDS Integers, Sequences, FiniteSets

CONSTANTS
  Threads,   \* the goroutines
  Keys,
  Semas,     \* names for the Semaphore objects alive at one time
  N,         \* SemaphoreMap.n
  MaxWeight, \* bound: the weight of a request
  None       \* nil

ASSUME NAssumption == N \in Nat \ {0} /\ MaxWeight \in Nat /\ N <= MaxWeight
ASSUME FiniteAssumption == IsFiniteSet(Threads) /\ IsFiniteSet(Keys) /\ IsFiniteSet(Semas)
ASSUME NoneAssumption == None \notin Semas /\ Keys # {}
\* There is a name for a new object whenever one is made: the caller has no object
\* then, and neither has its key.
ASSUME SemasAssumption == Cardinality(Semas) + 1 >= Cardinality(Threads) + Cardinality(Keys)

VARIABLES
  semas,      \* SemaphoreMap.semas
  key,        \* Semaphore.key of each object
  refCount,   \* Semaphore.refCount of each object
  cur,        \* semaphore.Weighted: tokens taken
  waiters,    \* semaphore.Weighted: the goroutines that wait, in order
  pc,         \* where each goroutine is
  s,          \* the object each goroutine works with
  n,          \* what each goroutine asked for and is still counted with
  has         \* the tokens each goroutine has

vars == <<semas, key, refCount, cur, waiters, pc, s, n, has>>

PCs == {"idle", "acquire", "acquirectx", "try", "queued", "queuedctx",
        "held", "dropping", "deleting"}
Modes == {"acquire", "acquirectx", "try"}

Reachable == {s[t] : t \in Threads} \cup {semas[k] : k \in Keys}

Init ==
  /\ semas = [k \in Keys |-> None]
  /\ key = [x \in Semas |-> CHOOSE k \in Keys : TRUE]
  /\ refCount = [x \in Semas |-> 0]
  /\ cur = [x \in Semas |-> 0]
  /\ waiters = [x \in Semas |-> <<>>]
  /\ pc = [t \in Threads |-> "idle"]
  /\ s = [t \in Threads |-> None]
  /\ n = [t \in Threads |-> 0]
  /\ has = [t \in Threads |-> 0]

\* The tokens of the goroutines of S, w[t] for goroutine t.
Tokens(w, S) == {x \in S \X (1..MaxWeight) : x[2] <= w[x[1]]}

-----------------------------------------------------------------------------
\* fetchSemaEmtry, the first half of Acquire, AcquireContext and TryAcquire.
Fetch(t, mode, k, w) ==
  /\ pc[t] = "idle"
  /\ \/ /\ semas[k] # None
        /\ s' = [s EXCEPT ![t] = semas[k]]
        /\ refCount' = [refCount EXCEPT ![semas[k]] = @ + w]
        /\ UNCHANGED <<semas, key, cur, waiters>>
     \/ /\ semas[k] = None
        /\ \E x \in Semas \ Reachable :
             /\ s' = [s EXCEPT ![t] = x]
             /\ semas' = [semas EXCEPT ![k] = x]
             /\ key' = [key EXCEPT ![x] = k]
             /\ refCount' = [refCount EXCEPT ![x] = w]
             /\ cur' = [cur EXCEPT ![x] = 0]
             /\ waiters' = [waiters EXCEPT ![x] = <<>>]
  /\ n' = [n EXCEPT ![t] = w]
  /\ pc' = [pc EXCEPT ![t] = mode]
  /\ UNCHANGED has

-----------------------------------------------------------------------------
\* semaphore.Weighted
Available(x, w) == N - cur[x] >= w /\ waiters[x] = <<>>

Take(t, x) == cur' = [cur EXCEPT ![x] = @ + n[t]] /\ has' = [has EXCEPT ![t] = n[t]]

\* notifyWaiters: with c tokens taken, the waiters q get theirs in order, up to
\* the first for whom they do not suffice.  p is where everybody else is, and h
\* what they have.
Notify(x, q, c, p, h) ==
  LET upto(m) == Cardinality(Tokens(n, {q[i] : i \in 1..m}))
      m == Cardinality({j \in 1..Len(q) : c + upto(j) <= N})
      granted == {q[i] : i \in 1..m}
  IN  /\ cur' = [cur EXCEPT ![x] = c + upto(m)]
      /\ waiters' = [waiters EXCEPT ![x] = SubSeq(q, m + 1, Len(q))]
      /\ pc' = [u \in Threads |-> IF u \in granted THEN "held" ELSE p[u]]
      /\ has' = [u \in Threads |-> IF u \in granted THEN n[u] ELSE h[u]]

-----------------------------------------------------------------------------
\* TryAcquire, Acquire and AcquireContext get the tokens at once.
Acquire(t) ==
  /\ pc[t] \in Modes
  /\ Available(s[t], n[t])
  /\ Take(t, s[t])
  /\ pc' = [pc EXCEPT ![t] = "held"]
  /\ UNCHANGED <<semas, key, refCount, waiters, s, n>>

\* Acquire and AcquireContext join the waiters, unless they ask for more than there
\* can ever be.
Enqueue(t) ==
  /\ pc[t] \in {"acquire", "acquirectx"}
  /\ ~Available(s[t], n[t]) /\ n[t] <= N
  /\ waiters' = [waiters EXCEPT ![s[t]] = Append(@, t)]
  /\ pc' = [pc EXCEPT ![t] = IF @ = "acquire" THEN "queued" ELSE "queuedctx"]
  /\ UNCHANGED <<semas, key, refCount, cur, s, n, has>>

\* TryAcquire fails and drops its reference.
TryFails(t) ==
  /\ pc[t] = "try"
  /\ ~Available(s[t], n[t])
  /\ pc' = [pc EXCEPT ![t] = "dropping"]
  /\ UNCHANGED <<semas, key, refCount, cur, waiters, s, n, has>>

\* AcquireContext asks for more than there can ever be: it waits for the end of its
\* context, outside the queue.
TooLarge(t) ==
  /\ pc[t] = "acquirectx"
  /\ n[t] > N
  /\ pc' = [pc EXCEPT ![t] = "dropping"]
  /\ UNCHANGED <<semas, key, refCount, cur, waiters, s, n, has>>

\* container/list's Remove, of the element at i.
Without(q, i) == [j \in 1..(Len(q) - 1) |-> IF j < i THEN q[j] ELSE q[j + 1]]

\* AcquireContext's context ends while it waits: it leaves the queue, and if it
\* was the first, those behind it may get their tokens.
CtxEnds(t) ==
  LET x == s[t]
      p == [pc EXCEPT ![t] = "dropping"]
  IN  /\ pc[t] = "queuedctx"
      /\ \E i \in 1..Len(waiters[x]) :
           /\ waiters[x][i] = t
           /\ \/ i = 1 /\ Notify(x, Without(waiters[x], i), cur[x], p, has)
              \/ /\ i # 1
                 /\ waiters' = [waiters EXCEPT ![x] = Without(@, i)]
                 /\ pc' = p
                 /\ UNCHANGED <<cur, has>>
      /\ UNCHANGED <<semas, key, refCount, s, n>>

\* Mutant: the tokens are given back without serving the waiters.
ReleaseSilent(t, w) ==
  /\ pc[t] = "held"
  /\ w <= has[t]
  /\ cur' = [cur EXCEPT ![s[t]] = @ - w]
  /\ has' = [has EXCEPT ![t] = @ - w]
  /\ pc' = [pc EXCEPT ![t] = "dropping"]
  /\ UNCHANGED <<semas, key, refCount, waiters, s, n>>

\* Semaphore.Release gives back some of the tokens, or all ...
Release(t, w) ==
  /\ pc[t] = "held"
  /\ w <= has[t]
  /\ Notify(s[t], waiters[s[t]], cur[s[t]] - w,
            [pc EXCEPT ![t] = "dropping"], [has EXCEPT ![t] = @ - w])
  /\ UNCHANGED <<semas, key, refCount, s, n>>

Forget(t) ==
  /\ pc' = [pc EXCEPT ![t] = "idle"]
  /\ s' = [s EXCEPT ![t] = None]

\* What the atomic subtraction returns.  Mutant: it takes off one, not the weight.
RefsMinusOne(t) == refCount[s[t]] - 1
Refs(t) == refCount[s[t]] - (n[t] - has[t])

LastRef(t) == Refs(t) = 0

\* ... then, as a failed TryAcquire or AcquireContext does for all it asked for,
\* drops the references to them.  If these were the last it goes on to tryDelete;
\* if it has tokens left it may go on to release more.
Drop(t) ==
  /\ pc[t] = "dropping"
  /\ refCount' = [refCount EXCEPT ![s[t]] = Refs(t)]
  /\ n' = [n EXCEPT ![t] = has[t]]
  /\ \/ /\ LastRef(t)
        /\ pc' = [pc EXCEPT ![t] = "deleting"]
        /\ UNCHANGED s
     \/ /\ ~LastRef(t) /\ has[t] # 0
        /\ pc' = [pc EXCEPT ![t] = "held"]
        /\ UNCHANGED s
     \/ /\ ~LastRef(t) /\ has[t] = 0
        /\ Forget(t)
  /\ UNCHANGED <<semas, key, cur, waiters, has>>

\* tryDelete: the map forgets whatever it has for the key, unless the object is
\* in use again.  A negative refCount panics.
TryDelete(t) ==
  /\ pc[t] = "deleting"
  /\ refCount[s[t]] >= 0
  /\ semas' = IF refCount[s[t]] = 0 THEN [semas EXCEPT ![key[s[t]]] = None] ELSE semas
  /\ Forget(t)
  /\ UNCHANGED <<key, refCount, cur, waiters, n, has>>

-----------------------------------------------------------------------------
Step(t) ==
  \/ Acquire(t) \/ Enqueue(t) \/ TryFails(t) \/ Drop(t) \/ TryDelete(t)
  \/ \E w \in 1..MaxWeight : Release(t, w)

\* An Acquire of more than N tokens never returns: nobody calls it.
Largest(mode) == IF mode = "acquire" THEN N ELSE MaxWeight

Next ==
  \E t \in Threads :
    \/ \E mode \in Modes, k \in Keys : \E w \in 1..Largest(mode) : Fetch(t, mode, k, w)
    \/ CtxEnds(t)
    \/ TooLarge(t)
    \/ Step(t)

\* Goroutines are scheduled fairly and holders release; contexts need not end.
Spec == Init /\ [][Next]_vars /\ \A t \in Threads : WF_vars(Step(t))

-----------------------------------------------------------------------------
\* The types of the variables; refCount is never negative, which tryDelete checks
\* with a panic.
TypeOK ==
  /\ semas \in [Keys -> Semas \cup {None}]
  /\ key \in [Semas -> Keys]
  /\ refCount \in [Semas -> Nat]
  /\ cur \in [Semas -> 0..N]
  /\ waiters \in [Semas -> Seq(Threads)]
  /\ pc \in [Threads -> PCs]
  /\ s \in [Threads -> Semas \cup {None}]
  /\ n \in [Threads -> 0..MaxWeight]
  /\ has \in [Threads -> 0..MaxWeight]
  /\ \A t \in Threads : pc[t] = "idle" <=> s[t] = None

\* The goroutines whose references to x are counted.
Users(x) == {t \in Threads : s[t] = x /\ pc[t] \notin {"idle", "deleting"}}

\* refCount is the sum of the users' weights, whether they hold their tokens, wait
\* for them, have failed to get them or have released some.
RefCountExact ==
  \A x \in Reachable \ {None} : refCount[x] = Cardinality(Tokens(n, Users(x)))

\* "only consuming space proportional to the number of acquired semaphores": a
\* semaphore nobody uses is in the map only until it is deleted, also when the
\* last user was one that failed to acquire it.
NoLeak ==
  \A k \in Keys : semas[k] # None =>
    \/ Users(semas[k]) # {}
    \/ \E t \in Threads : pc[t] = "deleting" /\ s[t] = semas[k]

\* The count invariant, on which tryDelete's decisions rest, and what they achieve.
CountsInv == TypeOK /\ RefCountExact /\ NoLeak

\* Every Acquire gets its tokens, if the holders release theirs.
AcquireGranted == \A t \in Threads : pc[t] = "queued" ~> pc[t] = "held"

\* "concurrent resource limits": the tokens held for one key never exceed n.  It
\* fails the way LockMap's MutualExclusion does, and is not part of a run.
KeyLimit ==
  \A k \in Keys :
    Cardinality(Tokens(has, {t \in Threads : s[t] # None /\ key[s[t]] = k})) <= N

=============================================================================
