------------------------------- MODULE LockMap -------------------------------
(***************************************************************************)
(* syncmap.LockMap: a map from keys to mutexes that allocates a mutex when *)
(* a key is first locked and deletes it when nobody uses it any more.      *)
(*                                                                         *)
(* One action per critical section of LockMap.lock and per atomic access   *)
(* or mutex operation outside it.  A Lock object that the map and all      *)
(* goroutines have forgotten is garbage and its name is used again, so     *)
(* that the model has no bound on the number of calls.                     *)
(***************************************************************************)
EXTENDS Integers, FiniteSets

CONSTANTS
  Threads,   \* the goroutines
  Keys,
  Locks,     \* names for the Lock objects alive at one time
  None       \* nil

ASSUME FiniteAssumption == IsFiniteSet(Threads) /\ IsFiniteSet(Keys) /\ IsFiniteSet(Locks)
ASSUME KeysAssumption == Keys # {}
ASSUME NoneAssumption == None \notin Threads \cup Locks
\* There is a name for a new object whenever one is made: the caller has no object
\* then, and neither has its key.
ASSUME LocksAssumption == Cardinality(Locks) + 1 >= Cardinality(Threads) + Cardinality(Keys)

VARIABLES
  locks,      \* LockMap.locks
  key,        \* Lock.key of each object
  refCount,   \* Lock.refCount of each object
  holder,     \* Lock.lock of each object: who holds it
  pc,         \* where each goroutine is
  l           \* the object each goroutine works with

vars == <<locks, key, refCount, holder, pc, l>>

PCs == {"idle", "locking", "held", "unlocked", "deleting"}

\* The objects that the program can still reach.
Reachable == {l[t] : t \in Threads} \cup {locks[k] : k \in Keys}

Init ==
  /\ locks = [k \in Keys |-> None]
  /\ key = [x \in Locks |-> CHOOSE k \in Keys : TRUE]
  /\ refCount = [x \in Locks |-> 0]
  /\ holder = [x \in Locks |-> None]
  /\ pc = [t \in Threads |-> "idle"]
  /\ l = [t \in Threads |-> None]

-----------------------------------------------------------------------------
\* LockMap.Lock under LockMap.lock: find the object of k, or make one, and
\* count the reference.
Lock(t, k) ==
  /\ pc[t] = "idle"
  /\ \/ /\ locks[k] # None
        /\ l' = [l EXCEPT ![t] = locks[k]]
        /\ refCount' = [refCount EXCEPT ![locks[k]] = @ + 1]
        /\ UNCHANGED <<locks, key, holder>>
     \/ /\ locks[k] = None
        /\ \E x \in Locks \ Reachable :
             /\ l' = [l EXCEPT ![t] = x]
             /\ locks' = [locks EXCEPT ![k] = x]
             /\ key' = [key EXCEPT ![x] = k]
             /\ refCount' = [refCount EXCEPT ![x] = 1]
             /\ holder' = [holder EXCEPT ![x] = None]
  /\ pc' = [pc EXCEPT ![t] = "locking"]

\* l.lock.Lock() returns.
Acquire(t) ==
  /\ pc[t] = "locking"
  /\ holder[l[t]] = None
  /\ holder' = [holder EXCEPT ![l[t]] = t]
  /\ pc' = [pc EXCEPT ![t] = "held"]
  /\ UNCHANGED <<locks, key, refCount, l>>

\* Mutant: the mutex is left locked.
UnlockNever(t) ==
  /\ pc[t] = "held"
  /\ pc' = [pc EXCEPT ![t] = "unlocked"]
  /\ UNCHANGED <<locks, key, refCount, holder, l>>

\* Lock.Unlock: l.lock.Unlock() ...
Unlock(t) ==
  /\ pc[t] = "held"
  /\ holder' = [holder EXCEPT ![l[t]] = None]
  /\ pc' = [pc EXCEPT ![t] = "unlocked"]
  /\ UNCHANGED <<locks, key, refCount, l>>

\* What the atomic decrement returns.  Mutant: it takes off two.
RefsMinusTwo(t) == refCount[l[t]] - 2
Refs(t) == refCount[l[t]] - 1

LastRef(t) == Refs(t) = 0

\* ... then the atomic decrement; the last reference goes on to tryDelete.
Release(t) ==
  /\ pc[t] = "unlocked"
  /\ refCount' = [refCount EXCEPT ![l[t]] = Refs(t)]
  /\ \/ /\ LastRef(t)
        /\ pc' = [pc EXCEPT ![t] = "deleting"]
        /\ UNCHANGED l
     \/ /\ ~LastRef(t)
        /\ pc' = [pc EXCEPT ![t] = "idle"]
        /\ l' = [l EXCEPT ![t] = None]
  /\ UNCHANGED <<locks, key, holder>>

\* tryDelete under LockMap.lock: the map forgets whatever it has for the key,
\* unless the object is in use again.  A negative refCount panics.
TryDelete(t) ==
  /\ pc[t] = "deleting"
  /\ refCount[l[t]] >= 0
  /\ locks' = IF refCount[l[t]] = 0 THEN [locks EXCEPT ![key[l[t]]] = None] ELSE locks
  /\ pc' = [pc EXCEPT ![t] = "idle"]
  /\ l' = [l EXCEPT ![t] = None]
  /\ UNCHANGED <<key, refCount, holder>>

-----------------------------------------------------------------------------
Step(t) == Unlock(t) \/ Release(t) \/ TryDelete(t)

Next == \E t \in Threads : (\E k \in Keys : Lock(t, k)) \/ Acquire(t) \/ Step(t)

\* Holders unlock.  A sync.Mutex in starvation mode is handed to the goroutine
\* that has waited longest, so a goroutine whose mutex is released again and
\* again gets it.
Spec ==
  /\ Init /\ [][Next]_vars
  /\ \A t \in Threads : WF_vars(Step(t)) /\ SF_vars(Acquire(t))

-----------------------------------------------------------------------------
\* The types of the variables.  refCount is never negative, which tryDelete
\* checks with a panic, and a goroutine in a call has an object.
TypeOK ==
  /\ locks \in [Keys -> Locks \cup {None}]
  /\ key \in [Locks -> Keys]
  /\ refCount \in [Locks -> Nat]
  /\ holder \in [Locks -> Threads \cup {None}]
  /\ pc \in [Threads -> PCs]
  /\ l \in [Threads -> Locks \cup {None}]
  /\ \A t \in Threads : pc[t] = "idle" <=> l[t] = None

\* The goroutines whose Lock call counted a reference to x that they have not
\* dropped.
Users(x) == {t \in Threads : l[t] = x /\ pc[t] \in {"locking", "held", "unlocked"}}

\* refCount is the number of users, for objects in the map and for objects that
\* the map has lost, although it is changed inside and outside LockMap.lock.
RefCountExact ==
  \A x \in Reachable \ {None} : refCount[x] = Cardinality(Users(x))

\* "only consuming space proportional to the number of acquired mutexes": an
\* object that nobody uses is in the map only until the goroutine that dropped
\* the last reference has deleted it.
NoLeak ==
  \A k \in Keys : locks[k] # None =>
    \/ Users(locks[k]) # {}
    \/ \E t \in Threads : pc[t] = "deleting" /\ l[t] = locks[k]

\* The count invariant, on which tryDelete's decisions rest, and what they achieve.
CountsInv == TypeOK /\ RefCountExact /\ NoLeak

\* Every Lock call returns, if the holders unlock.
LockGranted == \A t \in Threads : pc[t] = "locking" ~> pc[t] = "held"

\* "fine-grained mutual exclusion": no two goroutines hold the lock of one key.
MutualExclusion ==
  \A t, u \in Threads :
    pc[t] = "held" /\ pc[u] = "held" /\ key[l[t]] = key[l[u]] => t = u

=============================================================================
