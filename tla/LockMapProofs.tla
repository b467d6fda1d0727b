---------------------------- MODULE LockMapProofs ----------------------------
(***************************************************************************)
(* Proofs about LockMap for any numbers of goroutines and keys: refCount   *)
(* counts the users of every object that can be reached, the map keeps no  *)
(* object that nobody uses, and an object has one holder.                  *)
(***************************************************************************)
EXTENDS LockMap, FiniteSetTheorems, TLAPS

-----------------------------------------------------------------------------
\* The map has an object only under the object's own key.
OwnKey == \A k \in Keys : locks[k] # None => key[locks[k]] = k

\* Who has returned from Lock holds the object's mutex.
HolderInv == \A t \in Threads : pc[t] = "held" => holder[l[t]] = t

IInv == CountsInv /\ OwnKey /\ HolderInv

\* No two goroutines hold one Lock object: where mutual exclusion of a key fails,
\* the key has two objects.
ObjectExclusion ==
  \A t, u \in Threads : pc[t] = "held" /\ pc[u] = "held" /\ l[t] = l[u] => t = u

\* Users form a finite set, which is counted exactly when one is added or removed.
LEMMA UsersFinite ==
  ASSUME NEW x
  PROVE  IsFiniteSet(Users(x)) /\ Cardinality(Users(x)) \in Nat
<1>1. Users(x) \subseteq Threads
  BY DEF Users
<1> QED BY <1>1, FiniteAssumption, FS_Subset, FS_CardinalityType

\* Whatever can be reached is an object or nil.
LEMMA ReachableTyped == TypeOK => Reachable \subseteq Locks \cup {None}
  BY DEF TypeOK, Reachable

\* Lock keeps the invariant, whether it finds an object or makes one.
LEMMA LockKeeps ==
  ASSUME IInv, NEW t \in Threads, NEW k \in Keys, Lock(t, k)
  PROVE  IInv'
<1> USE NoneAssumption DEF IInv, CountsInv, TypeOK
<1>1. /\ pc[t] = "idle" /\ l[t] = None /\ pc' = [pc EXCEPT ![t] = "locking"]
      /\ pc'[t] = "locking" /\ \A u \in Threads : u # t => pc'[u] = pc[u]
  BY DEF Lock
<1>2. PICK x \in Locks :
        /\ l' = [l EXCEPT ![t] = x] /\ x # None
        /\ \/ /\ x = locks[k] /\ refCount' = [refCount EXCEPT ![x] = @ + 1]
              /\ UNCHANGED <<locks, key, holder>>
           \/ /\ locks[k] = None /\ x \notin Reachable
              /\ locks' = [locks EXCEPT ![k] = x] /\ key' = [key EXCEPT ![x] = k]
              /\ refCount' = [refCount EXCEPT ![x] = 1]
              /\ holder' = [holder EXCEPT ![x] = None]
  BY DEF Lock
<1>3. l'[t] = x /\ \A u \in Threads : u # t => l'[u] = l[u]
  BY <1>2
<1>4. t \notin Users(x) /\ Users(x)' = Users(x) \cup {t} /\ \A y \in Locks : y # x => Users(y)' = Users(y)
  BY <1>1, <1>2, <1>3 DEF Users
<1>5. Cardinality(Users(x)') = Cardinality(Users(x)) + 1
  BY <1>4, UsersFinite, FS_AddElement
<1>6. \A y \in Reachable' : y = x \/ y \in Reachable
  BY <1>2, <1>3 DEF Reachable
<1>7. \A u \in Threads : u # t /\ l[u] = x => x \in Reachable
  BY DEF Reachable
<1>8. CASE x = locks[k] /\ refCount' = [refCount EXCEPT ![x] = @ + 1] /\ UNCHANGED <<locks, key, holder>>
  <2>1. TypeOK'
    BY <1>1, <1>2, <1>3, <1>8 DEF PCs
  <2>2. x \in Reachable
    BY <1>8 DEF Reachable
  <2>3. RefCountExact'
    <3> SUFFICES ASSUME NEW y \in Reachable', y # None PROVE refCount'[y] = Cardinality(Users(y)')
      BY DEF RefCountExact
    <3>1. y \in Reachable
      BY <1>6, <2>2
    <3>2. y \in Locks /\ refCount[y] = Cardinality(Users(y))
      BY <3>1, ReachableTyped DEF RefCountExact
    <3>3. x \in Locks /\ refCount[x] = Cardinality(Users(x))
      BY <1>2, <2>2 DEF RefCountExact
    <3> QED BY <1>4, <1>5, <1>8, <3>2, <3>3
  <2>4. NoLeak'
    <3> SUFFICES ASSUME NEW j \in Keys, locks[j] # None, locks[j] # x
                 PROVE  Users(locks[j])' # {} \/ \E u \in Threads : pc'[u] = "deleting" /\ l'[u] = locks[j]
      BY <1>4, <1>8 DEF NoLeak
    <3>1. Users(locks[j])' = Users(locks[j])
      BY <1>4, <1>8 DEF Users
    <3> QED BY <1>1, <1>3, <3>1 DEF NoLeak
  <2>5. OwnKey' /\ HolderInv'
    BY <1>1, <1>3, <1>8 DEF OwnKey, HolderInv
  <2> QED BY <2>1, <2>3, <2>4, <2>5
<1>9. CASE /\ locks[k] = None /\ x \notin Reachable
           /\ locks' = [locks EXCEPT ![k] = x] /\ key' = [key EXCEPT ![x] = k]
           /\ refCount' = [refCount EXCEPT ![x] = 1]
           /\ holder' = [holder EXCEPT ![x] = None]
  <2>1. TypeOK'
    BY <1>1, <1>2, <1>3, <1>9 DEF PCs
  <2>2. Users(x)' = {t}
    BY <1>4, <1>7, <1>9 DEF Users
  <2>3. RefCountExact'
    <3> SUFFICES ASSUME NEW y \in Reachable', y # None PROVE refCount'[y] = Cardinality(Users(y)')
      BY DEF RefCountExact
    <3>1. CASE y = x
      BY <1>9, <2>2, <3>1, FS_Singleton
    <3>2. CASE y # x
      <4>1. y \in Reachable
        BY <1>6, <3>2
      <4>2. y \in Locks /\ refCount[y] = Cardinality(Users(y))
        BY <4>1, ReachableTyped DEF RefCountExact
      <4> QED BY <1>4, <1>9, <3>2, <4>2
    <3> QED BY <3>1, <3>2
  <2>4. \A j \in Keys : j # k => locks'[j] = locks[j] /\ locks[j] # x
    BY <1>9 DEF Reachable
  <2>5. NoLeak'
    <3> SUFFICES ASSUME NEW j \in Keys, j # k, locks[j] # None, locks'[j] = locks[j], locks[j] # x
                 PROVE  Users(locks[j])' # {} \/ \E u \in Threads : pc'[u] = "deleting" /\ l'[u] = locks[j]
      BY <1>9, <2>2, <2>4 DEF NoLeak
    <3>1. Users(locks[j])' = Users(locks[j])
      BY <1>4 DEF Users
    <3> QED BY <1>1, <1>3, <3>1 DEF NoLeak
  <2>6. OwnKey'
    BY <1>9, <2>4 DEF OwnKey
  <2>7. HolderInv'
    BY <1>1, <1>3, <1>7, <1>9 DEF HolderInv
  <2> QED BY <2>1, <2>3, <2>5, <2>6, <2>7
<1> QED BY <1>2, <1>8, <1>9

\* The mutex keeps it.
LEMMA MutexKeeps ==
  ASSUME IInv, NEW t \in Threads, Acquire(t) \/ Unlock(t)
  PROVE  IInv'
<1> USE NoneAssumption DEF IInv, CountsInv, TypeOK
<1>1. /\ UNCHANGED <<locks, key, refCount, l>>
      /\ pc[t] \in {"locking", "held"} /\ pc'[t] \in {"held", "unlocked"} /\ pc' = [pc EXCEPT ![t] = pc'[t]]
      /\ \A u \in Threads : u # t => pc'[u] = pc[u]
  BY DEF Acquire, Unlock
<1>2. \A x : Users(x)' = Users(x)
  BY <1>1 DEF Users
<1>3. holder' \in [Locks -> Threads \cup {None}] /\ HolderInv'
  <2>1. CASE Acquire(t)
    BY <1>1, <2>1 DEF Acquire, HolderInv
  <2>2. CASE Unlock(t)
    BY <1>1, <2>2 DEF Unlock, HolderInv
  <2> QED BY <2>1, <2>2
<1>4. TypeOK'
  BY <1>1, <1>3 DEF PCs
<1>5. RefCountExact'
  BY <1>1, <1>2 DEF RefCountExact, Reachable
<1>6. NoLeak'
  BY <1>1, <1>2 DEF NoLeak
<1>7. OwnKey'
  BY <1>1 DEF OwnKey
<1> QED BY <1>3, <1>4, <1>5, <1>6, <1>7

\* The decrement keeps it: whoever drops the last reference goes on to delete.
LEMMA ReleaseKeeps ==
  ASSUME IInv, NEW t \in Threads, Release(t)
  PROVE  IInv'
<1> USE NoneAssumption DEF IInv, CountsInv, TypeOK
<1>1. PICK x \in Locks : x = l[t] /\ x # None
  BY DEF Release
<1>2. /\ pc[t] = "unlocked" /\ UNCHANGED <<locks, key, holder>>
      /\ refCount' = [refCount EXCEPT ![x] = refCount[x] - 1]
      /\ \/ refCount[x] - 1 = 0 /\ pc'[t] = "deleting" /\ l' = l
         \/ refCount[x] - 1 # 0 /\ pc'[t] = "idle" /\ l' = [l EXCEPT ![t] = None]
      /\ pc' = [pc EXCEPT ![t] = pc'[t]] /\ \A u \in Threads : u # t => pc'[u] = pc[u]
  BY <1>1 DEF Release, Refs, LastRef
<1>3. \A u \in Threads : u # t => l'[u] = l[u]
  BY <1>2
<1>4. t \in Users(x) /\ Users(x)' = Users(x) \ {t} /\ \A y \in Locks : y # x => Users(y)' = Users(y)
  BY <1>1, <1>2, <1>3 DEF Users
<1>5. refCount[x] = Cardinality(Users(x)) /\ x \in Reachable
  BY <1>1 DEF RefCountExact, Reachable
<1>6. /\ Cardinality(Users(x)) \in Nat /\ Cardinality(Users(x)') = Cardinality(Users(x)) - 1
      /\ Cardinality(Users(x)') \in Nat /\ (Users(x)' = {} <=> Cardinality(Users(x)') = 0)
  <2>1. IsFiniteSet(Users(x)) /\ IsFiniteSet(Users(x) \ {t})
    BY UsersFinite, FS_RemoveElement
  <2> QED BY <1>4, <2>1, FS_RemoveElement, FS_CardinalityType, FS_EmptySet
<1>7. TypeOK'
  <2>1. refCount[x] - 1 \in Nat
    BY <1>4, <1>5, <1>6
  <2> QED BY <1>1, <1>2, <1>3, <2>1 DEF PCs
<1>8. \A y \in Reachable' : y = None \/ y \in Reachable
  BY <1>2, <1>3 DEF Reachable
<1>9. RefCountExact'
  <2> SUFFICES ASSUME NEW y \in Reachable', y # None PROVE refCount'[y] = Cardinality(Users(y)')
    BY DEF RefCountExact
  <2>1. y \in Locks /\ refCount[y] = Cardinality(Users(y))
    BY <1>8, ReachableTyped DEF RefCountExact
  <2> QED BY <1>2, <1>4, <1>5, <1>6, <2>1
<1>10. NoLeak'
  <2> SUFFICES ASSUME NEW j \in Keys, locks[j] # None
               PROVE  Users(locks[j])' # {} \/ \E u \in Threads : pc'[u] = "deleting" /\ l'[u] = locks[j]
    BY <1>2 DEF NoLeak
  <2>1. CASE locks[j] = x
    <3>1. CASE Users(x)' = {}
      BY <1>1, <1>2, <1>4, <1>5, <1>6, <2>1, <3>1
    <3>2. CASE Users(x)' # {}
      BY <1>2, <2>1, <3>2 DEF Users
    <3> QED BY <3>1, <3>2
  <2>2. CASE locks[j] # x
    <3>1. Users(locks[j])' = Users(locks[j])
      BY <1>2, <1>4, <2>2 DEF Users
    <3> QED BY <1>1, <1>2, <1>3, <2>2, <3>1 DEF NoLeak
  <2> QED BY <2>1, <2>2
<1>11. OwnKey' /\ HolderInv'
  BY <1>2, <1>3 DEF OwnKey, HolderInv
<1> QED BY <1>7, <1>9, <1>10, <1>11

\* tryDelete keeps it: an object without users is forgotten under its own key.
LEMMA TryDeleteKeeps ==
  ASSUME IInv, NEW t \in Threads, TryDelete(t)
  PROVE  IInv'
<1> USE NoneAssumption DEF IInv, CountsInv, TypeOK
<1>1. PICK x \in Locks : x = l[t] /\ x # None
  BY DEF TryDelete
<1>2. /\ pc[t] = "deleting" /\ UNCHANGED <<key, refCount, holder>>
      /\ locks' = IF refCount[x] = 0 THEN [locks EXCEPT ![key[x]] = None] ELSE locks
      /\ pc' = [pc EXCEPT ![t] = "idle"] /\ l' = [l EXCEPT ![t] = None]
  BY <1>1 DEF TryDelete
<1>3. /\ pc'[t] = "idle" /\ l'[t] = None
      /\ \A u \in Threads : u # t => pc'[u] = pc[u] /\ l'[u] = l[u]
  BY <1>2
<1>4. \A y \in Locks : Users(y)' = Users(y)
  BY <1>2, <1>3 DEF Users
<1>5. TypeOK'
  BY <1>2, <1>3 DEF PCs
<1>6. \A j \in Keys : locks'[j] # None => locks'[j] = locks[j] /\ (locks[j] = x => refCount[x] # 0)
  BY <1>2 DEF OwnKey
<1>7. RefCountExact'
  <2> SUFFICES ASSUME NEW y \in Reachable', y # None PROVE refCount'[y] = Cardinality(Users(y)')
    BY DEF RefCountExact
  <2>1. y \in Reachable /\ y \in Locks
    BY <1>3, <1>6 DEF Reachable
  <2> QED BY <1>2, <1>4, <2>1 DEF RefCountExact
<1>8. NoLeak'
  <2> SUFFICES ASSUME NEW j \in Keys, (locks[j])' # None
               PROVE  Users(locks[j])' # {} \/ \E u \in Threads : pc'[u] = "deleting" /\ l'[u] = (locks[j])'
    BY DEF NoLeak
  <2>1. locks'[j] = locks[j] /\ locks[j] \in Locks
    BY <1>6
  <2>4. Users(locks[j])' = Users(locks[j])
    BY <1>2, <1>3, <2>1 DEF Users
  <2>2. CASE locks[j] = x
    <3>1. refCount[x] = Cardinality(Users(x)) /\ refCount[x] # 0
      BY <1>1, <1>6, <2>2 DEF RefCountExact, Reachable
    <3>2. Users(x) # {}
      BY <3>1, FS_EmptySet
    <3> QED BY <2>2, <2>4, <3>2
  <2>3. CASE locks[j] # x
    BY <1>1, <1>3, <2>1, <2>3, <2>4 DEF NoLeak
  <2> QED BY <2>2, <2>3
<1>9. OwnKey' /\ HolderInv'
  BY <1>2, <1>3, <1>6 DEF OwnKey, HolderInv
<1> QED BY <1>5, <1>7, <1>8, <1>9

\* The invariant holds in every reachable state.
LEMMA Invariance == Spec => []IInv
<1>1. Init => IInv
  <2> SUFFICES ASSUME Init PROVE IInv
    OBVIOUS
  <2>1. (CHOOSE k \in Keys : TRUE) \in Keys
    BY KeysAssumption
  <2>2. TypeOK
    BY <2>1, NoneAssumption DEF Init, TypeOK, PCs
  <2>3. Reachable \subseteq {None}
    BY DEF Init, Reachable
  <2>4. RefCountExact /\ NoLeak /\ OwnKey /\ HolderInv
    BY <2>3 DEF Init, RefCountExact, NoLeak, OwnKey, HolderInv
  <2> QED BY <2>2, <2>4 DEF IInv, CountsInv
<1>2. IInv /\ [Next]_vars => IInv'
  <2> SUFFICES ASSUME IInv, [Next]_vars PROVE IInv'
    OBVIOUS
  <2>1. CASE UNCHANGED vars
    <3>1. \A x : Users(x)' = Users(x)
      BY <2>1 DEF vars, Users
    <3>2. TypeOK'
      BY <2>1 DEF vars, IInv, CountsInv, TypeOK
    <3>3. RefCountExact'
      BY <2>1, <3>1 DEF vars, IInv, CountsInv, RefCountExact, Reachable
    <3>4. NoLeak' /\ OwnKey' /\ HolderInv'
      BY <2>1, <3>1 DEF vars, IInv, CountsInv, NoLeak, OwnKey, HolderInv
    <3> QED BY <3>2, <3>3, <3>4 DEF IInv, CountsInv
  <2> QED BY <2>1, LockKeeps, MutexKeeps, ReleaseKeeps, TryDeleteKeeps DEF Next, Step
<1> QED BY <1>1, <1>2, PTL DEF Spec

\* refCount is exact for every object that can be reached, inside or outside the
\* map, it never becomes negative, and the map keeps no object that nobody uses.
THEOREM CountsExact == Spec => []CountsInv
<1>1. IInv => CountsInv
  BY DEF IInv
<1> QED BY <1>1, Invariance, PTL

\* A Lock object has one holder at a time.
THEOREM ObjectsExclusive == Spec => []ObjectExclusion
<1>1. IInv => ObjectExclusion
  BY DEF IInv, HolderInv, ObjectExclusion
<1> QED BY <1>1, Invariance, PTL

=============================================================================
