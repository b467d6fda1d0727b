-------------------------- MODULE SemaphoreMapProofs --------------------------
(***************************************************************************)
(* Proofs about SemaphoreMap for any numbers of goroutines, keys and       *)
(* tokens: refCount is the weight of the users of every object that can be *)
(* reached, the map keeps no object that nobody uses, and no object gives  *)
(* out more tokens than it has.                                            *)
(***************************************************************************)
EXTENDS SemaphoreMap, FiniteSetTheorems, WellFoundedInduction, TLAPS

-----------------------------------------------------------------------------
\* The map has an object only under the object's own key.
OwnKey == \A k \in Keys : semas[k] # None => key[semas[k]] = k

\* Nobody has tokens that it is not counted with, and only holders have any, and
\* those who have released some.
Holding ==
  \A t \in Threads : has[t] <= n[t] /\ (pc[t] \notin {"held", "dropping"} => has[t] = 0)

\* Those who work with x, and those who wait for some of its tokens.
Owners(x) == {t \in Threads : s[t] = x}
Waiting(p, x) == {t \in Threads : s[t] = x /\ p[t] \in {"queued", "queuedctx"}}

\* The elements of the first j places of q, and that q has no element twice.
FirstOf(q, j) == {q[i] : i \in 1..j}
Distinct(q) == \A i, j \in 1..Len(q) : q[i] = q[j] => i = j

\* A Weighted's count is what its users have, and its list is those who wait.
TokensExact == \A x \in Reachable \ {None} : cur[x] = Cardinality(Tokens(has, Owners(x)))
QueueExact ==
  \A x \in Reachable \ {None} :
    Distinct(waiters[x]) /\ FirstOf(waiters[x], Len(waiters[x])) = Waiting(pc, x)

IInv == CountsInv /\ OwnKey /\ Holding /\ TokensExact /\ QueueExact

\* No object gives out more tokens than SemaphoreMap.n: where the limit of a key is
\* exceeded, the key has two objects.
ObjectLimit == \A x \in Semas : Cardinality(Tokens(has, Owners(x))) <= N

-----------------------------------------------------------------------------
\* Every set of naturals has a least element.
LEMMA Least ==
  ASSUME NEW T \in SUBSET Nat, T # {}
  PROVE  \E a \in T : \A b \in T : a <= b
<1>1. PICK a \in T : \A b \in T : ~(<<b, a>> \in OpToRel(<, Nat))
  BY NatLessThanWellFounded, WFMin
<1>2. \A b \in T : ~(b < a)
  BY <1>1 DEF OpToRel
<1> QED BY <1>2

\* A set of places that has with each place all those before it is a prefix, as
\* long as it has elements.
LEMMA Prefix ==
  ASSUME NEW L \in Nat, NEW J \in SUBSET (1..L), \A j \in J : \A i \in 1..j : i \in J
  PROVE  Cardinality(J) \in 0..L /\ J = 1..Cardinality(J)
<1> DEFINE T == {i \in 1..(L + 1) : i \notin J}
<1>1. T \in SUBSET Nat /\ L + 1 \in T
  OBVIOUS
<1>2. PICK a \in T : \A b \in T : a <= b
  BY <1>1, Least
<1>3. a \in 1..(L + 1) /\ J = 1..(a - 1)
  <2>1. a \in 1..(L + 1) /\ a \notin J
    BY <1>2
  <2>2. \A i \in 1..(a - 1) : i \in J
    BY <1>2, <2>1
  <2>3. ASSUME NEW j \in J PROVE j \in 1..(a - 1)
    <3>1. j \in 1..L /\ (a <= j => a \in 1..j)
      BY <2>1
    <3> QED BY <2>1, <3>1
  <2> QED BY <2>1, <2>2, <2>3
<1>4. Cardinality(J) = a - 1
  BY <1>3, FS_Interval
<1> QED BY <1>3, <1>4

-----------------------------------------------------------------------------
\* Tokens can be counted; those of two groups without a common member add up.
LEMMA TokensFinite ==
  ASSUME NEW w, NEW S \in SUBSET Threads
  PROVE  IsFiniteSet(Tokens(w, S)) /\ Cardinality(Tokens(w, S)) \in Nat
<1>1. IsFiniteSet(S) /\ IsFiniteSet(1..MaxWeight)
  BY FiniteAssumption, FS_Subset, FS_Interval, NAssumption
<1>2. IsFiniteSet(S \X (1..MaxWeight))
  BY <1>1, FS_Product
<1>3. Tokens(w, S) \subseteq S \X (1..MaxWeight)
  BY DEF Tokens
<1> QED BY <1>2, <1>3, FS_Subset, FS_CardinalityType

LEMMA TokensUnion ==
  ASSUME NEW w, NEW S \in SUBSET Threads, NEW T \in SUBSET Threads, S \cap T = {}
  PROVE  Cardinality(Tokens(w, S \cup T)) = Cardinality(Tokens(w, S)) + Cardinality(Tokens(w, T))
<1>1. Tokens(w, S \cup T) = Tokens(w, S) \cup Tokens(w, T)
  BY DEF Tokens
<1>2. Tokens(w, S) \cap Tokens(w, T) = {}
  BY DEF Tokens
<1>3. PICK A, B : A = Tokens(w, S) /\ B = Tokens(w, T)
  OBVIOUS
<1>4. IsFiniteSet(A) /\ IsFiniteSet(B) /\ Cardinality(A) \in Nat /\ Cardinality(B) \in Nat
  BY <1>3, TokensFinite
<1>5. A \cap B = {} /\ Cardinality(A \cap B) = 0
  BY <1>2, <1>3, FS_EmptySet
<1>6. Cardinality(A \cup B) = Cardinality(A) + Cardinality(B) - Cardinality(A \cap B)
  BY <1>4, FS_Union
<1>7. PICK a, b, c : /\ a = Cardinality(A) /\ b = Cardinality(B) /\ c = Cardinality(A \cup B)
                    /\ a \in Nat /\ b \in Nat
  BY <1>4
<1>8. c = a + b - 0
  BY <1>5, <1>6, <1>7, Zenon
<1>9. c = a + b
  BY <1>7, <1>8
<1> QED BY <1>1, <1>3, <1>7, <1>9, Zenon

\* One goroutine's tokens are as many as it asked for, and nobody's are none.
LEMMA TokensOne ==
  ASSUME NEW w, NEW t \in Threads, w[t] \in 0..MaxWeight
  PROVE  Cardinality(Tokens(w, {t})) = w[t]
<1>1. PICK m \in 0..MaxWeight : m = w[t]
  OBVIOUS
<1>2. PICK R, W : R = 1..m /\ W = Tokens(w, {t})
  OBVIOUS
<1>3. W = {t} \X R
  BY <1>1, <1>2, NAssumption DEF Tokens
<1>4. IsFiniteSet(R) /\ Cardinality(R) = m
  BY <1>2, FS_Interval
<1>5. IsFiniteSet({t}) /\ Cardinality({t}) = 1
  BY FS_Singleton
<1>6. Cardinality({t} \X R) = Cardinality({t}) * Cardinality(R)
  BY <1>4, <1>5, FS_Product
<1>7. Cardinality(W) = 1 * m
  BY <1>3, <1>4, <1>5, <1>6, Zenon
<1>8. 1 * m = m
  OBVIOUS
<1> QED BY <1>1, <1>2, <1>7, <1>8, Zenon

LEMMA TokensNone ==
  ASSUME NEW w
  PROVE  Tokens(w, {}) = {} /\ Cardinality(Tokens(w, {})) = 0
  BY FS_EmptySet DEF Tokens

\* A goroutine joins a group or leaves it.
LEMMA TokensAdd ==
  ASSUME NEW w, NEW S \in SUBSET Threads, NEW t \in Threads, t \notin S, w[t] \in 0..MaxWeight
  PROVE  Cardinality(Tokens(w, S \cup {t})) = Cardinality(Tokens(w, S)) + w[t]
<1>1. PICK T \in SUBSET Threads : T = {t}
  OBVIOUS
<1>2. S \cap T = {}
  BY <1>1
<1>3. Cardinality(Tokens(w, S \cup T)) = Cardinality(Tokens(w, S)) + Cardinality(Tokens(w, T))
  BY <1>2, TokensUnion
<1> QED BY <1>1, <1>3, TokensOne

LEMMA TokensRemove ==
  ASSUME NEW w, NEW S \in SUBSET Threads, NEW t \in S, w[t] \in 0..MaxWeight
  PROVE  Cardinality(Tokens(w, S \ {t})) = Cardinality(Tokens(w, S)) - w[t]
<1>1. PICK R \in SUBSET Threads : R = S \ {t}
  OBVIOUS
<1>2. t \in Threads /\ t \notin R /\ S = R \cup {t}
  BY <1>1
<1>3. Cardinality(Tokens(w, R)) \in Nat /\ Cardinality(Tokens(w, S)) \in Nat
  BY TokensFinite
<1>4. Cardinality(Tokens(w, S)) = Cardinality(Tokens(w, R)) + w[t]
  BY <1>2, TokensAdd
<1> QED BY <1>1, <1>3, <1>4

\* A part of a group has no more tokens than the group.
LEMMA TokensPart ==
  ASSUME NEW w, NEW S \in SUBSET Threads, NEW T \in SUBSET S
  PROVE  Cardinality(Tokens(w, T)) <= Cardinality(Tokens(w, S))
<1>1. Tokens(w, T) \subseteq Tokens(w, S)
  BY DEF Tokens
<1> QED BY <1>1, TokensFinite, FS_Subset

\* Only the weights of its members count.
LEMMA TokensAgree ==
  ASSUME NEW w, NEW v, NEW S, \A t \in S : w[t] = v[t]
  PROVE  Tokens(w, S) = Tokens(v, S)
  BY DEF Tokens

\* Who has none does not count, and what one of them has more the group has more.
LEMMA TokensZero ==
  ASSUME NEW w, NEW S, NEW t, w[t] = 0
  PROVE  Tokens(w, S \cup {t}) = Tokens(w, S) /\ Tokens(w, S \ {t}) = Tokens(w, S)
<1>1. \A i \in 1..MaxWeight : ~(i <= w[t])
  BY NAssumption
<1> QED BY <1>1 DEF Tokens

LEMMA TokensChange ==
  ASSUME NEW w, NEW v, NEW S \in SUBSET Threads, NEW t \in S, w[t] \in 0..MaxWeight, v[t] \in 0..MaxWeight,
         \A u \in S : u # t => v[u] = w[u]
  PROVE  Cardinality(Tokens(v, S)) = Cardinality(Tokens(w, S)) - w[t] + v[t]
<1>1. PICK R \in SUBSET Threads : R = S \ {t}
  OBVIOUS
<1>2. t \in Threads /\ t \notin R /\ S = R \cup {t} /\ \A u \in R : v[u] = w[u]
  BY <1>1
<1>3. Tokens(v, R) = Tokens(w, R)
  BY <1>2, TokensAgree
<1>4. Cardinality(Tokens(w, S)) = Cardinality(Tokens(w, R)) + w[t]
  BY <1>2, TokensAdd
<1>5. Cardinality(Tokens(v, S)) = Cardinality(Tokens(v, R)) + v[t]
  BY <1>2, TokensAdd
<1>6. Cardinality(Tokens(w, R)) \in Nat
  BY TokensFinite
<1> QED BY <1>3, <1>4, <1>5, <1>6

-----------------------------------------------------------------------------
\* The number of waiters of q that notifyWaiters serves when c tokens are taken:
\* what these ask for fits.
Upto(w, q, j) == Cardinality(Tokens(w, FirstOf(q, j)))
Served(w, q, c) == Cardinality({j \in 1..Len(q) : c + Upto(w, q, j) <= N})

LEMMA ServedFit ==
  ASSUME NEW w, NEW q \in Seq(Threads), NEW c \in 0..N
  PROVE  /\ Served(w, q, c) \in 0..Len(q)
         /\ c + Upto(w, q, Served(w, q, c)) \in 0..N
<1>1. PICK L \in Nat : L = Len(q)
  OBVIOUS
<1>2. PICK J : J = {j \in 1..L : c + Upto(w, q, j) <= N}
  OBVIOUS
<1>3. \A j \in 0..L : FirstOf(q, j) \in SUBSET Threads /\ Upto(w, q, j) \in Nat
  <2> SUFFICES ASSUME NEW j \in 0..L
               PROVE  FirstOf(q, j) \in SUBSET Threads /\ Upto(w, q, j) \in Nat
    OBVIOUS
  <2>1. FirstOf(q, j) \in SUBSET Threads
    BY <1>1 DEF FirstOf
  <2> QED BY <2>1, TokensFinite DEF Upto
<1>4. \A j \in J : \A i \in 1..j : i \in J
  <2> SUFFICES ASSUME NEW j \in J, NEW i \in 1..j PROVE i \in J
    OBVIOUS
  <2>1. j \in 1..L /\ i \in 1..L /\ c + Upto(w, q, j) <= N
    BY <1>2
  <2>2. FirstOf(q, i) \in SUBSET FirstOf(q, j)
    BY <2>1 DEF FirstOf
  <2>3. Upto(w, q, i) <= Upto(w, q, j)
    BY <1>3, <2>1, <2>2, TokensPart DEF Upto
  <2>4. PICK a, b : a = Upto(w, q, i) /\ b = Upto(w, q, j)
    OBVIOUS
  <2>5. a \in Nat /\ b \in Nat /\ a <= b /\ c + b <= N
    BY <1>3, <2>1, <2>3, <2>4
  <2>6. c + a <= N
    BY <2>5, NAssumption
  <2> QED BY <1>2, <2>1, <2>4, <2>6
<1>5. J \in SUBSET (1..L)
  BY <1>2
<1>6. PICK m : m = Served(w, q, c)
  OBVIOUS
<1>7. m = Cardinality(J)
  BY <1>1, <1>2, <1>6 DEF Served
<1>8. m \in 0..L /\ J = 1..m
  BY <1>4, <1>5, <1>7, Prefix
<1>9. c + Upto(w, q, m) \in 0..N
  <2>1. CASE m = 0
    <3>1. FirstOf(q, m) = {}
      BY <2>1 DEF FirstOf
    <3>2. Upto(w, q, m) = 0
      BY <3>1, TokensNone DEF Upto
    <3> QED BY <3>2, NAssumption
  <2>2. CASE m # 0
    <3>1. m \in J
      BY <1>8, <2>2
    <3>2. PICK a : a = Upto(w, q, m)
      OBVIOUS
    <3>3. a \in Nat /\ c + a <= N
      BY <1>2, <1>3, <1>8, <3>1, <3>2
    <3>4. c + a \in 0..N
      BY <3>3, NAssumption
    <3> QED BY <3>2, <3>4
  <2> QED BY <2>1, <2>2
<1> QED BY <1>1, <1>6, <1>8, <1>9

\* notifyWaiters on x, when everybody is where p says and has what h says, of x in
\* all c: it moves a prefix of the queue to the holders, and its count and its queue
\* are again exact.
NotifyPre(x, q, c, p, h) ==
  /\ q \in Seq(Threads) /\ Distinct(q) /\ FirstOf(q, Len(q)) = Waiting(p, x)
  /\ c \in 0..N /\ c = Cardinality(Tokens(h, Owners(x)))
  /\ p \in [Threads -> PCs] /\ h \in [Threads -> 0..MaxWeight]
  /\ \A u \in Threads : h[u] <= n[u] /\ (p[u] \notin {"held", "dropping"} => h[u] = 0)

Settles(x, p, h) ==
  /\ cur' = [cur EXCEPT ![x] = cur'[x]] /\ waiters' = [waiters EXCEPT ![x] = waiters'[x]]
  /\ cur'[x] \in 0..N /\ waiters'[x] \in Seq(Threads)
  /\ cur'[x] = Cardinality(Tokens(has', Owners(x)))
  /\ Distinct(waiters'[x]) /\ FirstOf(waiters'[x], Len(waiters'[x])) = Waiting(pc', x)
  /\ pc' \in [Threads -> PCs] /\ has' \in [Threads -> 0..MaxWeight]
  /\ \A u \in Threads :
       \/ pc'[u] = p[u] /\ has'[u] = h[u]
       \/ s[u] = x /\ p[u] \in {"queued", "queuedctx"} /\ pc'[u] = "held" /\ has'[u] = n[u]

LEMMA NotifyMoves ==
  ASSUME NEW x \in Semas, NEW q, NEW c, NEW p, NEW h, NotifyPre(x, q, c, p, h), Notify(x, q, c, p, h),
         cur \in [Semas -> 0..N], waiters \in [Semas -> Seq(Threads)], n \in [Threads -> 0..MaxWeight],
         UNCHANGED <<s, n>>
  PROVE  Settles(x, p, h)
<1> USE DEF NotifyPre
<1>1. PICK m : m = Served(n, q, c)
  OBVIOUS
<1>2. m \in 0..Len(q) /\ c + Upto(n, q, m) \in 0..N
  BY <1>1, ServedFit
<1>3. PICK G : G = FirstOf(q, m)
  OBVIOUS
<1>4. /\ cur' = [cur EXCEPT ![x] = c + Upto(n, q, m)]
      /\ waiters' = [waiters EXCEPT ![x] = SubSeq(q, m + 1, Len(q))]
      /\ pc' = [u \in Threads |-> IF u \in G THEN "held" ELSE p[u]]
      /\ has' = [u \in Threads |-> IF u \in G THEN n[u] ELSE h[u]]
  BY <1>1, <1>3 DEF Notify, Served, Upto, FirstOf
<1>5. G \subseteq Waiting(p, x)
  BY <1>2, <1>3 DEF FirstOf
<1>6. cur'[x] = c + Upto(n, q, m) /\ cur'[x] \in 0..N
  BY <1>2, <1>4
<1>7. PICK r : r = SubSeq(q, m + 1, Len(q))
  OBVIOUS
<1>8. PICK L \in Nat : L = Len(q)
  OBVIOUS
<1>9. /\ r \in Seq(Threads) /\ Len(r) = L - m
      /\ \A i \in 1..(L - m) : r[i] = q[i + m]
  BY <1>2, <1>7, <1>8
<1>10. waiters'[x] = r
  BY <1>4, <1>7
<1>11. cur'[x] = Cardinality(Tokens(has', Owners(x)))
  <2>1. PICK S, R : S = Owners(x) /\ R = S \ G
    OBVIOUS
  <2>2. S \in SUBSET Threads /\ G \in SUBSET Threads /\ R \in SUBSET Threads /\ R \cap G = {} /\ S = R \cup G
    BY <1>5, <2>1 DEF Owners, Waiting
  <2>3. PICK g : g = has'
    OBVIOUS
  <2>4. (\A u \in R : g[u] = h[u]) /\ (\A u \in G : g[u] = n[u])
    BY <1>4, <2>2, <2>3
  <2>5. Tokens(g, R) = Tokens(h, R) /\ Tokens(g, G) = Tokens(n, G)
    BY <2>4, TokensAgree
  <2>6. Cardinality(Tokens(g, S)) = Cardinality(Tokens(g, R)) + Cardinality(Tokens(g, G))
    BY <2>2, TokensUnion
  <2>7. Cardinality(Tokens(h, S)) = Cardinality(Tokens(h, R)) + Cardinality(Tokens(h, G))
    BY <2>2, TokensUnion
  <2>8. \A u \in G : h[u] = 0
    BY <1>5, <2>2 DEF Waiting
  <2>9. Tokens(h, G) = {}
    <3>1. ASSUME NEW u \in G, NEW i \in 1..MaxWeight PROVE ~(i <= h[u])
      BY <2>8, NAssumption
    <3> QED BY <3>1 DEF Tokens
  <2>10. Cardinality(Tokens(h, G)) = 0
    BY <2>9, FS_EmptySet
  <2>11. Cardinality(Tokens(h, R)) \in Nat /\ Cardinality(Tokens(n, G)) \in Nat
    BY <2>2, TokensFinite
  <2>12. PICK a, b, d : a = Cardinality(Tokens(h, R)) /\ b = Cardinality(Tokens(n, G)) /\ d = Cardinality(Tokens(g, S))
    OBVIOUS
  <2>13. a \in Nat /\ b \in Nat /\ d = a + b /\ c = a + 0
    BY <2>1, <2>5, <2>6, <2>7, <2>10, <2>11, <2>12
  <2>14. cur'[x] = c + b
    BY <1>3, <1>6, <2>12 DEF Upto
  <2>15. cur'[x] = d
    BY <2>13, <2>14
  <2> QED BY <2>1, <2>3, <2>12, <2>15
<1>12. Distinct(r)
  <2> SUFFICES ASSUME NEW i \in 1..(L - m), NEW j \in 1..(L - m), r[i] = r[j] PROVE i = j
    BY <1>9 DEF Distinct
  <2>1. i + m \in 1..L /\ j + m \in 1..L /\ q[i + m] = q[j + m]
    BY <1>2, <1>8, <1>9
  <2>2. i + m = j + m
    BY <1>8, <2>1 DEF Distinct
  <2> QED BY <1>2, <2>2
<1>13. FirstOf(r, Len(r)) = Waiting(pc', x)
  <2>1. ASSUME NEW i \in 1..Len(r) PROVE r[i] \in Waiting(pc', x)
    <3>1. i + m \in 1..L /\ r[i] = q[i + m]
      BY <1>2, <1>8, <1>9
    <3>2. r[i] \in Waiting(p, x)
      BY <1>8, <3>1 DEF FirstOf
    <3>3. r[i] \notin G
      BY <1>2, <1>3, <1>8, <3>1 DEF FirstOf, Distinct
    <3> QED BY <1>4, <3>2, <3>3 DEF Waiting
  <2>2. ASSUME NEW u \in Waiting(pc', x) PROVE \E i \in 1..Len(r) : r[i] = u
    <3>1. u \in Waiting(p, x) /\ u \notin G
      BY <1>4, <2>2 DEF Waiting
    <3>2. PICK j \in 1..L : q[j] = u
      BY <1>8, <3>1 DEF FirstOf
    <3>3. j \notin 1..m
      BY <1>3, <3>1, <3>2 DEF FirstOf
    <3>4. j - m \in 1..(L - m) /\ (j - m) + m = j
      BY <1>2, <1>8, <3>2, <3>3
    <3> QED BY <1>9, <3>2, <3>4
  <2> QED BY <2>1, <2>2 DEF FirstOf
<1>14. pc' \in [Threads -> PCs] /\ has' \in [Threads -> 0..MaxWeight]
  <2>1. pc' \in [Threads -> PCs]
    BY <1>4 DEF PCs
  <2>2. has' \in [Threads -> 0..MaxWeight]
    BY <1>4
  <2> QED BY <2>1, <2>2
<1>15. \A u \in Threads :
         \/ pc'[u] = p[u] /\ has'[u] = h[u]
         \/ s[u] = x /\ p[u] \in {"queued", "queuedctx"} /\ pc'[u] = "held" /\ has'[u] = n[u]
  BY <1>4, <1>5 DEF Waiting
<1> QED BY <1>4, <1>6, <1>9, <1>10, <1>11, <1>12, <1>13, <1>14, <1>15 DEF Settles

-----------------------------------------------------------------------------
\* Whatever can be reached is an object or nil.
LEMMA ReachableTyped == TypeOK => Reachable \subseteq Semas \cup {None}
  BY DEF TypeOK, Reachable

\* A step of semaphore.Weighted leaves the references alone.
LEMMA WeightedKeeps ==
  ASSUME IInv, UNCHANGED <<semas, key, refCount, s, n>>,
         pc' \in [Threads -> PCs], cur' \in [Semas -> 0..N], waiters' \in [Semas -> Seq(Threads)],
         has' \in [Threads -> 0..MaxWeight],
         \A u \in Threads :
           \/ pc'[u] = pc[u]
           \/ {pc[u], pc'[u]} \cap {"idle", "deleting"} = {}
  PROVE  CountsInv' /\ OwnKey' /\ Reachable' = Reachable /\ \A x : Owners(x)' = Owners(x)
<1> USE DEF IInv, CountsInv
<1>1. \A x : Users(x)' = Users(x)
  BY DEF Users
<1>2. Reachable' = Reachable
  BY DEF Reachable
<1>3. TypeOK'
  BY DEF TypeOK
<1>4. RefCountExact'
  BY <1>1, <1>2 DEF RefCountExact
<1>5. NoLeak'
  BY <1>1 DEF NoLeak
<1>6. OwnKey' /\ \A x : Owners(x)' = Owners(x)
  BY DEF OwnKey, Owners
<1> QED BY <1>2, <1>3, <1>4, <1>5, <1>6

\* A goroutine that gets its tokens at once, queues, fails to try or gives up.
LEMMA AcquireKeeps ==
  ASSUME IInv, NEW t \in Threads, Acquire(t)
  PROVE  IInv'
<1> USE NoneAssumption, NAssumption DEF IInv, CountsInv, TypeOK
<1>1. PICK x \in Semas : x = s[t] /\ x # None
  BY DEF Acquire, Modes
<1>2. /\ UNCHANGED <<semas, key, refCount, waiters, s, n>> /\ pc[t] \in Modes
      /\ pc' = [pc EXCEPT ![t] = "held"] /\ pc' \in [Threads -> PCs]
      /\ pc'[t] = "held" /\ \A u \in Threads : u # t => pc'[u] = pc[u]
  BY DEF Acquire, PCs
<1>3. cur[x] + n[t] \in 0..N /\ cur' = [cur EXCEPT ![x] = cur[x] + n[t]] /\ has' = [has EXCEPT ![t] = n[t]]
  BY <1>1 DEF Acquire, Available, Take
<1>4. cur' \in [Semas -> 0..N] /\ has' \in [Threads -> 0..MaxWeight]
  BY <1>3
<1>5. CountsInv' /\ OwnKey' /\ Reachable' = Reachable /\ \A y : Owners(y)' = Owners(y)
  BY <1>2, <1>4, WeightedKeeps DEF Modes
<1>6. has[t] = 0 /\ has'[t] = n[t] /\ \A u \in Threads : u # t => has'[u] = has[u]
  BY <1>2, <1>3 DEF Holding, Modes
<1>7. Holding'
  BY <1>2, <1>6 DEF Holding
<1>8. TokensExact'
  <2> SUFFICES ASSUME NEW y \in Reachable, y # None
               PROVE  cur'[y] = Cardinality(Tokens(has', Owners(y)))
    BY <1>5 DEF TokensExact
  <2>1. y \in Semas /\ cur[y] = Cardinality(Tokens(has, Owners(y)))
    BY ReachableTyped DEF TokensExact
  <2>2. PICK S \in SUBSET Threads : S = Owners(y)
    BY DEF Owners
  <2>5. PICK g : g = has'
    OBVIOUS
  <2>3. CASE y # x
    <3>1. \A u \in S : g[u] = has[u]
      BY <1>1, <1>6, <2>2, <2>3, <2>5 DEF Owners
    <3>2. Tokens(g, S) = Tokens(has, S)
      BY ONLY <3>1, TokensAgree
    <3> QED BY <1>3, <2>1, <2>2, <2>3, <2>5, <3>2
  <2>4. CASE y = x
    <3>1. /\ S \in SUBSET Threads /\ t \in S /\ has[t] \in 0..MaxWeight /\ g[t] \in 0..MaxWeight
          /\ \A u \in S : u # t => g[u] = has[u]
      BY <1>1, <1>6, <2>2, <2>4, <2>5 DEF Owners
    <3>2. Cardinality(Tokens(g, S)) = Cardinality(Tokens(has, S)) - has[t] + g[t]
      BY ONLY <3>1, TokensChange
    <3>3. cur'[x] = cur[x] + n[t] /\ cur[x] \in 0..N /\ n[t] \in 0..MaxWeight
      BY <1>3
    <3> QED BY <1>6, <2>1, <2>2, <2>4, <2>5, <3>2, <3>3
  <2> QED BY <2>3, <2>4
<1>9. QueueExact'
  <2>1. \A y : Waiting(pc, y)' = Waiting(pc, y)
    BY <1>2 DEF Waiting, Modes
  <2> QED BY <1>2, <1>5, <2>1 DEF QueueExact
<1> QED BY <1>5, <1>7, <1>8, <1>9

LEMMA EnqueueKeeps ==
  ASSUME IInv, NEW t \in Threads, Enqueue(t)
  PROVE  IInv'
<1> USE NoneAssumption, NAssumption DEF IInv, CountsInv, TypeOK
<1>1. PICK x \in Semas : x = s[t] /\ x # None
  BY DEF Enqueue
<1>2. /\ UNCHANGED <<semas, key, refCount, cur, s, n, has>> /\ pc[t] \in {"acquire", "acquirectx"}
      /\ pc'[t] \in {"queued", "queuedctx"} /\ pc' \in [Threads -> PCs]
      /\ \A u \in Threads : u # t => pc'[u] = pc[u]
  BY DEF Enqueue, PCs
<1>3. waiters' = [waiters EXCEPT ![x] = Append(waiters[x], t)]
  BY <1>1 DEF Enqueue
<1>4. waiters' \in [Semas -> Seq(Threads)]
  BY <1>3
<1>5. CountsInv' /\ OwnKey' /\ Reachable' = Reachable /\ \A y : Owners(y)' = Owners(y)
  BY <1>2, <1>4, WeightedKeeps
<1>6. TokensExact' /\ Holding'
  BY <1>2, <1>5 DEF TokensExact, Holding
<1>7. QueueExact'
  <2> SUFFICES ASSUME NEW y \in Reachable, y # None
               PROVE  Distinct(waiters'[y]) /\ FirstOf(waiters'[y], Len(waiters'[y])) = Waiting(pc, y)'
    BY <1>5 DEF QueueExact
  <2>1. /\ y \in Semas /\ Distinct(waiters[y])
        /\ FirstOf(waiters[y], Len(waiters[y])) = Waiting(pc, y)
    BY ReachableTyped DEF QueueExact
  <2>2. CASE y # x
    <3>1. Waiting(pc, y)' = Waiting(pc, y)
      BY <1>1, <1>2, <2>2 DEF Waiting
    <3> QED BY <1>3, <2>1, <2>2, <3>1
  <2>3. CASE y = x
    <3>1. PICK q, r, L : q = waiters[x] /\ r = waiters'[x] /\ L = Len(q)
      OBVIOUS
    <3>2. q \in Seq(Threads) /\ L \in Nat /\ r = Append(q, t)
      BY <1>3, <3>1
    <3>3. Len(r) = L + 1 /\ r[L + 1] = t /\ \A i \in 1..L : r[i] = q[i]
      BY <3>1, <3>2
    <3>4. Waiting(pc, x)' = Waiting(pc, x) \cup {t} /\ t \notin Waiting(pc, x)
      BY <1>1, <1>2 DEF Waiting
    <3>5. \A i \in 1..L : q[i] \in Waiting(pc, x)
      BY <2>1, <2>3, <3>1 DEF FirstOf
    <3>6. Distinct(r)
      BY <2>1, <2>3, <3>1, <3>2, <3>3, <3>4, <3>5 DEF Distinct
    <3>7. FirstOf(r, L + 1) = FirstOf(q, L) \cup {t}
      BY <3>2, <3>3 DEF FirstOf
    <3> QED BY <2>1, <2>3, <3>1, <3>2, <3>4, <3>6, <3>7
  <2> QED BY <2>2, <2>3
<1> QED BY <1>5, <1>6, <1>7

LEMMA TryFailsKeeps ==
  ASSUME IInv, NEW t \in Threads, TryFails(t) \/ TooLarge(t)
  PROVE  IInv'
<1> USE DEF IInv, CountsInv, TypeOK
<1>1. /\ UNCHANGED <<semas, key, refCount, cur, waiters, s, n, has>> /\ pc[t] \in {"try", "acquirectx"}
      /\ pc'[t] = "dropping" /\ pc' \in [Threads -> PCs]
      /\ \A u \in Threads : u # t => pc'[u] = pc[u]
  BY DEF TryFails, TooLarge, PCs
<1>2. CountsInv' /\ OwnKey' /\ Reachable' = Reachable /\ \A y : Owners(y)' = Owners(y)
  BY <1>1, WeightedKeeps
<1>3. \A y : Waiting(pc, y)' = Waiting(pc, y)
  BY <1>1 DEF Waiting
<1>4. TokensExact' /\ Holding'
  BY <1>1, <1>2 DEF TokensExact, Holding
<1>5. QueueExact'
  BY <1>1, <1>2, <1>3 DEF QueueExact
<1> QED BY <1>2, <1>4, <1>5

\* A goroutine gives its tokens back or leaves the queue, and the Weighted settles.
LEMMA SettlesKeeps ==
  ASSUME IInv, NEW t \in Threads, NEW x \in Semas, x = s[t], pc[t] \in {"queuedctx", "held"},
         NEW p, p = [pc EXCEPT ![t] = "dropping"],
         NEW h, \A u \in Threads : u # t => h[u] = has[u], h[t] <= n[t], Settles(x, p, h),
         UNCHANGED <<semas, key, refCount, s, n>>
  PROVE  IInv'
<1> USE NoneAssumption DEF IInv, CountsInv, TypeOK
<1>1. /\ p[t] = "dropping" /\ \A u \in Threads : u # t => p[u] = pc[u]
      /\ pc' \in [Threads -> PCs]
      /\ \A u \in Threads :
           \/ pc'[u] = p[u] /\ has'[u] = h[u]
           \/ s[u] = x /\ p[u] \in {"queued", "queuedctx"} /\ pc'[u] = "held" /\ has'[u] = n[u]
  BY DEF Settles
<1>2. cur' \in [Semas -> 0..N] /\ waiters' \in [Semas -> Seq(Threads)] /\ has' \in [Threads -> 0..MaxWeight]
  BY DEF Settles
<1>3. \A u \in Threads : \/ pc'[u] = pc[u]
                         \/ {pc[u], pc'[u]} \cap {"idle", "deleting"} = {}
  BY <1>1
<1>4. CountsInv' /\ OwnKey' /\ Reachable' = Reachable /\ \A y : Owners(y)' = Owners(y)
  BY <1>1, <1>2, <1>3, WeightedKeeps
<1>5. ASSUME NEW y \in Semas, y # x
      PROVE  /\ Tokens(has', Owners(y)) = Tokens(has, Owners(y)) /\ Waiting(pc, y)' = Waiting(pc, y)
             /\ cur'[y] = cur[y] /\ waiters'[y] = waiters[y]
  <2>1. cur'[y] = cur[y] /\ waiters'[y] = waiters[y]
    BY <1>5 DEF Settles
  <2>2. \A u \in Threads : s[u] = y => pc'[u] = pc[u] /\ has'[u] = has[u]
    BY <1>1, <1>5
  <2>3. PICK S, g : S = Owners(y) /\ g = has'
    OBVIOUS
  <2>4. \A u \in S : g[u] = has[u]
    BY <2>2, <2>3 DEF Owners
  <2>5. Tokens(g, S) = Tokens(has, S)
    BY ONLY <2>4, TokensAgree
  <2> QED BY <2>1, <2>2, <2>3, <2>5 DEF Waiting
<1>6. Waiting(pc, x)' = Waiting(pc', x)
  BY DEF Waiting
<1>7. TokensExact'
  <2> SUFFICES ASSUME NEW y \in Reachable, y # None
               PROVE  cur'[y] = Cardinality(Tokens(has', Owners(y)))
    BY <1>4 DEF TokensExact
  <2>1. y \in Semas /\ cur[y] = Cardinality(Tokens(has, Owners(y)))
    BY ReachableTyped DEF TokensExact
  <2>2. CASE y # x
    BY <1>5, <2>1, <2>2
  <2>3. CASE y = x
    BY <2>3 DEF Settles
  <2> QED BY <2>2, <2>3
<1>8. QueueExact'
  <2> SUFFICES ASSUME NEW y \in Reachable, y # None
               PROVE  Distinct(waiters'[y]) /\ FirstOf(waiters'[y], Len(waiters'[y])) = Waiting(pc, y)'
    BY <1>4 DEF QueueExact
  <2>1. /\ y \in Semas /\ Distinct(waiters[y])
        /\ FirstOf(waiters[y], Len(waiters[y])) = Waiting(pc, y)
    BY ReachableTyped DEF QueueExact
  <2>2. CASE y # x
    BY <1>5, <2>1, <2>2
  <2>3. CASE y = x
    BY <1>6, <2>3 DEF Settles
  <2> QED BY <2>2, <2>3
<1>9. Holding'
  <2> SUFFICES ASSUME NEW u \in Threads
               PROVE  has'[u] <= n[u] /\ (pc'[u] \notin {"held", "dropping"} => has'[u] = 0)
    BY DEF Holding
  <2>1. has[u] <= n[u] /\ (pc[u] \notin {"held", "dropping"} => has[u] = 0) /\ n[u] \in 0..MaxWeight
    BY DEF Holding
  <2>3. CASE u = t
    BY <1>1, <2>3
  <2>4. CASE u # t
    <3>1. p[u] = pc[u] /\ h[u] = has[u]
      BY <1>1, <2>4
    <3>2. CASE pc'[u] = p[u] /\ has'[u] = h[u]
      BY <2>1, <3>1, <3>2
    <3>3. CASE pc'[u] = "held" /\ has'[u] = n[u]
      BY <2>1, <3>3
    <3> QED BY <1>1, <3>2, <3>3
  <2> QED BY <2>3, <2>4
<1> QED BY <1>4, <1>7, <1>8, <1>9

\* Release gives back some of what its goroutine holds, or all.
LEMMA ReleaseKeeps ==
  ASSUME IInv, NEW t \in Threads, NEW w \in 1..MaxWeight, Release(t, w)
  PROVE  IInv'
<1> USE NoneAssumption DEF IInv, CountsInv, TypeOK
<1>1. PICK x \in Semas : x = s[t] /\ x # None
  BY DEF Release
<1>2. /\ pc[t] = "held" /\ has[t] \in 0..MaxWeight /\ n[t] \in 0..MaxWeight /\ w <= has[t] /\ has[t] <= n[t]
      /\ UNCHANGED <<semas, key, refCount, s, n>>
  BY DEF Release, Holding
<1>3. PICK p, c, h : p = [pc EXCEPT ![t] = "dropping"] /\ c = cur[x] - w /\ h = [has EXCEPT ![t] = has[t] - w]
  OBVIOUS
<1>4. Notify(x, waiters[x], c, p, h)
  BY <1>1, <1>3 DEF Release
<1>5. x \in Reachable
  BY <1>1 DEF Reachable
<1>6. has[t] - w \in 0..MaxWeight /\ has[t] - w <= n[t]
  BY <1>2, NAssumption
<1>7. /\ h \in [Threads -> 0..MaxWeight] /\ h[t] = has[t] - w /\ h[t] <= n[t]
      /\ \A u \in Threads : u # t => h[u] = has[u]
  BY <1>3, <1>6
<1>8. NotifyPre(x, waiters[x], c, p, h)
  <2>1. PICK S \in SUBSET Threads : S = Owners(x)
    BY DEF Owners
  <2>2. t \in S /\ Waiting(p, x) = Waiting(pc, x)
    BY <1>1, <1>2, <1>3, <2>1 DEF Owners, Waiting
  <2>3. cur[x] = Cardinality(Tokens(has, S)) /\ cur[x] \in 0..N
    BY <1>1, <1>5, <2>1 DEF TokensExact
  <2>12. /\ S \in SUBSET Threads /\ t \in S /\ has[t] \in 0..MaxWeight /\ h[t] \in 0..MaxWeight
         /\ \A u \in S : u # t => h[u] = has[u]
    BY <1>2, <1>7, <2>2
  <2>4. Cardinality(Tokens(h, S)) = Cardinality(Tokens(has, S)) - has[t] + h[t]
    BY ONLY <2>12, TokensChange
  <2>5. Cardinality(Tokens(h, S)) \in Nat
    BY TokensFinite
  <2>6. c = Cardinality(Tokens(h, S)) /\ c \in Nat
    BY <1>2, <1>3, <1>7, <2>3, <2>4, <2>5
  <2>7. c \in 0..N
    BY <1>3, <2>3, <2>6, NAssumption
  <2>8. /\ waiters[x] \in Seq(Threads) /\ Distinct(waiters[x])
        /\ FirstOf(waiters[x], Len(waiters[x])) = Waiting(pc, x)
    BY <1>1, <1>5 DEF QueueExact
  <2>9. p \in [Threads -> PCs]
    BY <1>3 DEF PCs
  <2>10. p[t] = "dropping" /\ \A u \in Threads : u # t => p[u] = pc[u]
    BY <1>3
  <2>11. \A u \in Threads : h[u] <= n[u] /\ (p[u] \notin {"held", "dropping"} => h[u] = 0)
    BY <1>7, <2>10 DEF Holding
  <2> QED BY <1>7, <2>1, <2>2, <2>6, <2>7, <2>8, <2>9, <2>11 DEF NotifyPre
<1>9. Settles(x, p, h)
  BY <1>2, <1>4, <1>8, NotifyMoves
<1> QED BY <1>1, <1>2, <1>3, <1>7, <1>9, SettlesKeeps

\* What is left of a queue without a place is the others, in order.
LEMMA WithoutOne ==
  ASSUME NEW q \in Seq(Threads), Distinct(q), NEW i \in 1..Len(q)
  PROVE  /\ Without(q, i) \in Seq(Threads) /\ Distinct(Without(q, i))
         /\ FirstOf(Without(q, i), Len(Without(q, i))) = FirstOf(q, Len(q)) \ {q[i]}
<1>1. PICK L, r : L = Len(q) /\ r = Without(q, i)
  OBVIOUS
<1>2. /\ L \in Nat /\ i \in 1..L /\ r \in Seq(Threads) /\ Len(r) = L - 1
      /\ \A j \in 1..(L - 1) : r[j] = IF j < i THEN q[j] ELSE q[j + 1]
  BY <1>1 DEF Without
<1>3. Distinct(r)
  BY <1>1, <1>2 DEF Distinct
<1>4. ASSUME NEW j \in 1..(L - 1) PROVE \E m \in 1..L : m # i /\ q[m] = r[j]
  <2>1. CASE j < i
    BY <1>2, <2>1
  <2>2. CASE j >= i
    BY <1>2, <2>2
  <2> QED BY <1>2, <2>1, <2>2
<1>5. ASSUME NEW m \in 1..L, m # i PROVE \E j \in 1..(L - 1) : q[m] = r[j]
  <2>1. CASE m < i
    BY <1>2, <2>1
  <2>2. CASE m > i
    <3>1. m - 1 \in 1..(L - 1) /\ ~(m - 1 < i) /\ (m - 1) + 1 = m
      BY <1>2, <2>2
    <3> QED BY <1>2, <3>1
  <2> QED BY <1>2, <1>5, <2>1, <2>2
<1>6. \A m \in 1..L : m # i => q[m] # q[i]
  BY <1>1, <1>2 DEF Distinct
<1>7. FirstOf(r, L - 1) = FirstOf(q, L) \ {q[i]}
  <2>1. ASSUME NEW a \in FirstOf(r, L - 1) PROVE a \in FirstOf(q, L) \ {q[i]}
    <3>1. PICK j \in 1..(L - 1) : a = r[j]
      BY <2>1 DEF FirstOf
    <3>2. PICK m \in 1..L : m # i /\ q[m] = r[j]
      BY <1>4
    <3> QED BY <1>6, <3>1, <3>2 DEF FirstOf
  <2>2. ASSUME NEW a \in FirstOf(q, L) \ {q[i]} PROVE a \in FirstOf(r, L - 1)
    <3>1. PICK m \in 1..L : a = q[m] /\ m # i
      BY <2>2 DEF FirstOf
    <3> QED BY <1>5, <3>1 DEF FirstOf
  <2> QED BY <2>1, <2>2
<1> QED BY <1>1, <1>2, <1>3, <1>7

\* A waiter whose context ends leaves the queue.
LEMMA CtxEndsKeeps ==
  ASSUME IInv, NEW t \in Threads, CtxEnds(t)
  PROVE  IInv'
<1> USE NoneAssumption DEF IInv, CountsInv, TypeOK
<1>1. PICK x \in Semas : x = s[t] /\ x # None
  BY DEF CtxEnds
<1>2. pc[t] = "queuedctx" /\ UNCHANGED <<semas, key, refCount, s, n>>
  BY DEF CtxEnds
<1>3. PICK p : p = [pc EXCEPT ![t] = "dropping"]
  OBVIOUS
<1>4. PICK i \in 1..Len(waiters[x]) :
        /\ waiters[x][i] = t
        /\ \/ i = 1 /\ Notify(x, Without(waiters[x], i), cur[x], p, has)
           \/ /\ i # 1
              /\ waiters' = [waiters EXCEPT ![x] = Without(waiters[x], i)]
              /\ pc' = p
              /\ UNCHANGED <<cur, has>>
  BY <1>1, <1>3 DEF CtxEnds
<1>5. x \in Reachable
  BY <1>1 DEF Reachable
<1>6. /\ waiters[x] \in Seq(Threads) /\ Distinct(waiters[x])
      /\ FirstOf(waiters[x], Len(waiters[x])) = Waiting(pc, x)
  BY <1>1, <1>5 DEF QueueExact
<1>7. PICK q : q = Without(waiters[x], i)
  OBVIOUS
<1>8. q \in Seq(Threads) /\ Distinct(q) /\ FirstOf(q, Len(q)) = Waiting(pc, x) \ {t}
  BY <1>4, <1>6, <1>7, WithoutOne
<1>9. Waiting(p, x) = Waiting(pc, x) \ {t} /\ p \in [Threads -> PCs]
  BY <1>1, <1>2, <1>3 DEF Waiting, PCs
<1>13. \A u \in Threads : has[u] <= n[u] /\ (p[u] \notin {"held", "dropping"} => has[u] = 0)
  BY <1>3 DEF Holding
<1>10. cur[x] \in 0..N /\ cur[x] = Cardinality(Tokens(has, Owners(x)))
  BY <1>1, <1>5 DEF TokensExact
<1>11. CASE i = 1 /\ Notify(x, Without(waiters[x], i), cur[x], p, has)
  <2>1. NotifyPre(x, q, cur[x], p, has)
    BY <1>8, <1>9, <1>10, <1>13 DEF NotifyPre
  <2>2. Settles(x, p, has)
    BY <1>2, <1>7, <1>11, <2>1, NotifyMoves
  <2> QED BY <1>1, <1>2, <1>3, <1>13, <2>2, SettlesKeeps
<1>12. CASE /\ i # 1
            /\ waiters' = [waiters EXCEPT ![x] = Without(waiters[x], i)]
            /\ pc' = p
            /\ UNCHANGED <<cur, has>>
  <2>1. waiters'[x] = q /\ cur'[x] = cur[x]
    BY <1>7, <1>12
  <2>2. cur' = [cur EXCEPT ![x] = cur'[x]] /\ waiters' = [waiters EXCEPT ![x] = waiters'[x]]
    BY <1>7, <1>12, <2>1
  <2>3. Settles(x, p, has)
    BY <1>8, <1>9, <1>10, <1>12, <2>1, <2>2 DEF Settles
  <2> QED BY <1>1, <1>2, <1>3, <1>13, <2>3, SettlesKeeps
<1> QED BY <1>4, <1>11, <1>12

-----------------------------------------------------------------------------
\* A goroutine that has no tokens takes up an object or leaves it: the tokens of
\* every object's users stay the same.
LEMMA OwnersKeep ==
  ASSUME NEW t \in Threads, UNCHANGED has, has[t] = 0 \/ s'[t] = s[t],
         \A u \in Threads : u # t => s'[u] = s[u], NEW y
  PROVE  Tokens(has', Owners(y)') = Tokens(has, Owners(y))
<1>1. PICK S, T, w : S = Owners(y) /\ T = Owners(y)' /\ w = has
  OBVIOUS
<1>2. CASE s'[t] = s[t]
  <2>1. T = S
    BY <1>1, <1>2 DEF Owners
  <2> QED BY <1>1, <2>1
<1>3. CASE has[t] = 0
  <2>1. T \cup {t} = S \cup {t}
    BY <1>1 DEF Owners
  <2>2. Tokens(w, T \cup {t}) = Tokens(w, T)
    BY <1>1, <1>3, TokensZero
  <2>3. Tokens(w, S \cup {t}) = Tokens(w, S)
    BY <1>1, <1>3, TokensZero
  <2> QED BY <1>1, <2>1, <2>2, <2>3
<1> QED BY <1>2, <1>3

\* The subtraction keeps the invariant: whoever drops the last references goes on
\* to delete.
LEMMA DropKeeps ==
  ASSUME IInv, NEW t \in Threads, Drop(t)
  PROVE  IInv'
<1> USE NoneAssumption, NAssumption DEF IInv, CountsInv, TypeOK
<1>1. PICK x \in Semas : x = s[t] /\ x # None
  BY DEF Drop
<1>2. /\ pc[t] = "dropping" /\ UNCHANGED <<semas, key, cur, waiters, has>>
      /\ refCount' = [refCount EXCEPT ![x] = refCount[x] - (n[t] - has[t])]
      /\ n' = [n EXCEPT ![t] = has[t]]
      /\ \/ /\ refCount[x] - (n[t] - has[t]) = 0 /\ pc' = [pc EXCEPT ![t] = "deleting"] /\ s' = s
         \/ /\ refCount[x] - (n[t] - has[t]) # 0 /\ pc' = [pc EXCEPT ![t] = "held"] /\ s' = s
         \/ /\ refCount[x] - (n[t] - has[t]) # 0 /\ has[t] = 0 /\ pc' = [pc EXCEPT ![t] = "idle"]
            /\ s' = [s EXCEPT ![t] = None]
  BY <1>1 DEF Drop, Refs, LastRef, Forget
<1>3. /\ pc' = [pc EXCEPT ![t] = pc'[t]] /\ pc'[t] \in {"idle", "deleting", "held"} /\ n'[t] = has[t]
      /\ \A u \in Threads : u # t => pc'[u] = pc[u] /\ s'[u] = s[u] /\ n'[u] = n[u]
  BY <1>2
<1>4. n[t] \in 0..MaxWeight /\ has[t] \in 0..MaxWeight /\ has[t] <= n[t]
  BY DEF Holding
<1>5. /\ t \in Users(x) /\ Users(x) \in SUBSET Threads
      /\ Users(x)' = IF pc'[t] = "held" THEN Users(x) ELSE Users(x) \ {t}
      /\ \A y \in Semas : y # x => Users(y)' = Users(y)
  <2>1. t \in Users(x) /\ Users(x) \in SUBSET Threads
    BY <1>1, <1>2 DEF Users
  <2>2. s'[t] = s[t] \/ (s'[t] = None /\ pc'[t] = "idle")
    BY <1>2
  <2>3. \A y \in Semas : y # x => Users(y)' = Users(y)
    <3> SUFFICES ASSUME NEW y \in Semas, y # x, NEW u \in Threads
                 PROVE  (s'[u] = y /\ pc'[u] \notin {"idle", "deleting"}) <=> (s[u] = y /\ pc[u] \notin {"idle", "deleting"})
      BY DEF Users
    <3> QED BY <1>1, <1>3, <2>2
  <2>4. CASE pc'[t] = "held"
    <3>1. s'[t] = s[t]
      BY <2>2, <2>4
    <3>2. Users(x)' = Users(x)
      <4> SUFFICES ASSUME NEW u \in Threads
                   PROVE  (s'[u] = x /\ pc'[u] \notin {"idle", "deleting"}) <=> (s[u] = x /\ pc[u] \notin {"idle", "deleting"})
        BY DEF Users
      <4> QED BY <1>2, <1>3, <2>4, <3>1
    <3> QED BY <2>1, <2>3, <2>4, <3>2
  <2>5. CASE pc'[t] # "held"
    <3>1. pc'[t] \in {"idle", "deleting"}
      BY <1>3, <2>5
    <3>2. Users(x)' = Users(x) \ {t}
      <4> SUFFICES ASSUME NEW u \in Threads
                   PROVE  (s'[u] = x /\ pc'[u] \notin {"idle", "deleting"}) <=> (s[u] = x /\ pc[u] \notin {"idle", "deleting"} /\ u # t)
        BY DEF Users
      <4> QED BY <1>3, <3>1
    <3> QED BY <2>1, <2>3, <2>5, <3>2
  <2> QED BY <2>4, <2>5
<1>6. ASSUME NEW y \in Semas, y # x PROVE Tokens(n', Users(y)') = Tokens(n, Users(y))
  <2>1. PICK U, v : U = Users(y) /\ v = n'
    OBVIOUS
  <2>2. \A u \in U : v[u] = n[u]
    BY <1>1, <1>3, <1>6, <2>1 DEF Users
  <2>3. Tokens(v, U) = Tokens(n, U)
    BY <2>2, TokensAgree
  <2> QED BY <1>5, <1>6, <2>1, <2>3
<1>7. refCount[x] = Cardinality(Tokens(n, Users(x))) /\ x \in Reachable /\ refCount[x] \in Nat
  BY <1>1 DEF RefCountExact, Reachable
<1>8. /\ Cardinality(Tokens(n', Users(x)')) = refCount[x] - (n[t] - has[t])
      /\ refCount[x] - (n[t] - has[t]) \in Nat
      /\ pc'[t] # "held" => has[t] = 0
  <2>1. PICK U, v : U = Users(x) /\ v = n'
    OBVIOUS
  <2>2. /\ U \in SUBSET Threads /\ t \in U /\ v[t] = has[t] /\ v[t] \in 0..MaxWeight
        /\ \A u \in U : u # t => v[u] = n[u]
    BY <1>3, <1>4, <1>5, <2>1
  <2>3. Cardinality(Tokens(v, U)) = Cardinality(Tokens(n, U)) - n[t] + v[t]
    BY ONLY <1>4, <2>2, TokensChange
  <2>4. Cardinality(Tokens(n, U \ {t})) = Cardinality(Tokens(n, U)) - n[t]
    BY <1>4, <2>2, TokensRemove
  <2>5. Cardinality(Tokens(v, U)) \in Nat /\ Cardinality(Tokens(n, U \ {t})) \in Nat
    BY <2>2, TokensFinite
  <2>6. Cardinality(Tokens(v, U)) = refCount[x] - (n[t] - has[t]) /\ refCount[x] - n[t] \in Nat
    BY <1>4, <1>7, <2>1, <2>2, <2>3, <2>4, <2>5
  <2>7. pc'[t] # "held" => has[t] = 0
    BY <1>2, <1>4, <1>7, <2>6
  <2>8. CASE pc'[t] = "held"
    BY <1>5, <2>1, <2>5, <2>6, <2>7, <2>8
  <2>9. CASE pc'[t] # "held"
    <3>2. v[t] = 0
      BY <2>2, <2>7, <2>9
    <3>1. Tokens(v, U \ {t}) = Tokens(v, U)
      BY <3>2, TokensZero, Zenon
    <3> QED BY <1>5, <2>1, <2>5, <2>6, <2>7, <2>9, <3>1
  <2> QED BY <2>8, <2>9
<1>9. TypeOK'
  <2>1. refCount' \in [Semas -> Nat]
    BY <1>2, <1>8
  <2>2. pc' \in [Threads -> PCs]
    BY <1>3 DEF PCs
  <2>3. s' \in [Threads -> Semas \cup {None}]
    BY <1>2
  <2>5. n' \in [Threads -> 0..MaxWeight]
    BY <1>2, <1>4
  <2>4. \A u \in Threads : pc'[u] = "idle" <=> s'[u] = None
    BY <1>1, <1>2, <1>3
  <2> QED BY <1>2, <2>1, <2>2, <2>3, <2>4, <2>5
<1>10. \A y \in Reachable' : y = None \/ y \in Reachable
  BY <1>2, <1>3 DEF Reachable
<1>11. RefCountExact'
  <2> SUFFICES ASSUME NEW y \in Reachable', y # None
               PROVE  refCount'[y] = Cardinality(Tokens(n', Users(y)'))
    BY DEF RefCountExact
  <2>1. y \in Semas /\ refCount[y] = Cardinality(Tokens(n, Users(y)))
    BY <1>10, ReachableTyped DEF RefCountExact
  <2>2. CASE y = x
    BY <1>2, <1>8, <2>2
  <2>3. CASE y # x
    BY <1>2, <1>6, <2>1, <2>3
  <2> QED BY <2>2, <2>3
<1>12. Users(x)' = {} => refCount[x] - (n[t] - has[t]) = 0
  BY <1>8, TokensNone
<1>13. NoLeak'
  <2> SUFFICES ASSUME NEW j \in Keys, semas[j] # None
               PROVE  Users(semas[j])' # {} \/ \E u \in Threads : pc'[u] = "deleting" /\ s'[u] = semas[j]
    BY <1>2 DEF NoLeak
  <2>1. CASE semas[j] = x
    <3>1. CASE Users(x)' = {}
      BY <1>1, <1>2, <1>12, <2>1, <3>1
    <3>2. CASE Users(x)' # {}
      BY <1>2, <2>1, <3>2 DEF Users
    <3> QED BY <3>1, <3>2
  <2>2. CASE semas[j] # x
    <3>1. Users(semas[j])' = Users(semas[j])
      BY <1>2, <1>5, <2>2 DEF Users
    <3>2. CASE Users(semas[j]) = {}
      <4>1. PICK u \in Threads : pc[u] = "deleting" /\ s[u] = semas[j]
        BY <3>2 DEF NoLeak
      <4> QED BY <1>2, <1>3, <4>1
    <3> QED BY <3>1, <3>2
  <2> QED BY <2>1, <2>2
<1>14. OwnKey' /\ Holding'
  BY <1>2, <1>3, <1>4, <1>8 DEF OwnKey, Holding
<1>15. \A y \in Semas : /\ Waiting(pc, y)' = Waiting(pc, y)
                        /\ Tokens(has', Owners(y)') = Tokens(has, Owners(y))
  <2>1. \A y \in Semas : Waiting(pc, y)' = Waiting(pc, y)
    BY <1>2, <1>3 DEF Waiting
  <2>2. has[t] = 0 \/ s'[t] = s[t]
    BY <1>2
  <2>3. \A y : Tokens(has', Owners(y)') = Tokens(has, Owners(y))
    BY <1>2, <1>3, <2>2, OwnersKeep
  <2> QED BY <2>1, <2>3
<1>16. TokensExact'
  <2> SUFFICES ASSUME NEW y \in Reachable', y # None
               PROVE  cur'[y] = Cardinality(Tokens(has', Owners(y)'))
    BY DEF TokensExact
  <2>1. y \in Semas /\ cur[y] = Cardinality(Tokens(has, Owners(y)))
    BY <1>10, ReachableTyped DEF TokensExact
  <2> QED BY <1>2, <1>15, <2>1
<1>17. QueueExact'
  <2> SUFFICES ASSUME NEW y \in Reachable', y # None
               PROVE  Distinct(waiters'[y]) /\ FirstOf(waiters'[y], Len(waiters'[y])) = Waiting(pc, y)'
    BY DEF QueueExact
  <2>1. /\ y \in Semas /\ Distinct(waiters[y])
        /\ FirstOf(waiters[y], Len(waiters[y])) = Waiting(pc, y)
    BY <1>10, ReachableTyped DEF QueueExact
  <2> QED BY <1>2, <1>15, <2>1
<1> QED BY <1>9, <1>11, <1>13, <1>14, <1>16, <1>17

\* tryDelete keeps it: an object without users is forgotten under its own key.
LEMMA TryDeleteKeeps ==
  ASSUME IInv, NEW t \in Threads, TryDelete(t)
  PROVE  IInv'
<1> USE NoneAssumption, NAssumption DEF IInv, CountsInv, TypeOK
<1>1. PICK x \in Semas : x = s[t] /\ x # None
  BY DEF TryDelete
<1>2. /\ pc[t] = "deleting" /\ UNCHANGED <<key, refCount, cur, waiters, n, has>>
      /\ semas' = IF refCount[x] = 0 THEN [semas EXCEPT ![key[x]] = None] ELSE semas
      /\ pc' = [pc EXCEPT ![t] = "idle"] /\ s' = [s EXCEPT ![t] = None]
  BY <1>1 DEF TryDelete, Forget
<1>3. /\ pc'[t] = "idle" /\ s'[t] = None
      /\ \A u \in Threads : u # t => pc'[u] = pc[u] /\ s'[u] = s[u]
  BY <1>2
<1>4. \A y \in Semas : Users(y)' = Users(y) /\ Waiting(pc, y)' = Waiting(pc, y)
  BY <1>2, <1>3 DEF Users, Waiting
<1>5. has[t] = 0 /\ \A y \in Semas : Tokens(has', Owners(y)') = Tokens(has, Owners(y))
  <2>1. has[t] = 0
    BY <1>2 DEF Holding
  <2> QED BY <1>2, <1>3, <2>1, OwnersKeep
<1>6. TypeOK'
  <2>1. semas' \in [Keys -> Semas \cup {None}]
    BY <1>2
  <2>2. pc' \in [Threads -> PCs] /\ s' \in [Threads -> Semas \cup {None}] /\ n' \in [Threads -> 0..MaxWeight]
    BY <1>2 DEF PCs
  <2>3. \A u \in Threads : pc'[u] = "idle" <=> s'[u] = None
    BY <1>3
  <2> QED BY <1>2, <2>1, <2>2, <2>3
<1>7. \A j \in Keys : semas'[j] # None => semas'[j] = semas[j] /\ (semas[j] = x => refCount[x] # 0)
  BY <1>2 DEF OwnKey
<1>8. \A y \in Reachable' : y = None \/ (y \in Reachable /\ y \in Semas)
  <2>1. \A u \in Threads : s'[u] = None \/ (s'[u] \in Reachable /\ s'[u] \in Semas)
    BY <1>3 DEF Reachable
  <2>2. \A j \in Keys : semas'[j] = None \/ (semas'[j] \in Reachable /\ semas'[j] \in Semas)
    BY <1>7 DEF Reachable
  <2>3. \A y \in Reachable' : (\E u \in Threads : y = s'[u]) \/ (\E j \in Keys : y = semas'[j])
    BY DEF Reachable
  <2>4. ASSUME NEW y \in Reachable', y # None PROVE y \in Reachable /\ y \in Semas
    <3>1. CASE \E u \in Threads : y = s'[u]
      BY <2>1, <2>4, <3>1
    <3>2. CASE \E j \in Keys : y = semas'[j]
      BY <2>2, <2>4, <3>2
    <3> QED BY <2>3, <3>1, <3>2
  <2> QED BY <2>4
<1>9. RefCountExact'
  <2> SUFFICES ASSUME NEW y \in Reachable', y # None
               PROVE  refCount'[y] = Cardinality(Tokens(n', Users(y)'))
    BY DEF RefCountExact
  <2>1. y \in Semas /\ refCount[y] = Cardinality(Tokens(n, Users(y)))
    BY <1>8 DEF RefCountExact
  <2> QED BY <1>2, <1>4, <1>5, <2>1
<1>10. TokensExact'
  <2> SUFFICES ASSUME NEW y \in Reachable', y # None
               PROVE  cur'[y] = Cardinality(Tokens(has', Owners(y)'))
    BY DEF TokensExact
  <2>1. y \in Semas /\ cur[y] = Cardinality(Tokens(has, Owners(y)))
    BY <1>8 DEF TokensExact
  <2> QED BY <1>2, <1>4, <1>5, <2>1
<1>11. QueueExact'
  <2> SUFFICES ASSUME NEW y \in Reachable', y # None
               PROVE  Distinct(waiters'[y]) /\ FirstOf(waiters'[y], Len(waiters'[y])) = Waiting(pc, y)'
    BY DEF QueueExact
  <2>1. /\ y \in Semas /\ Distinct(waiters[y])
        /\ FirstOf(waiters[y], Len(waiters[y])) = Waiting(pc, y)
    BY <1>8 DEF QueueExact
  <2> QED BY <1>2, <1>4, <2>1
<1>12. NoLeak'
  <2> SUFFICES ASSUME NEW j \in Keys, (semas[j])' # None
               PROVE  Users(semas[j])' # {} \/ \E u \in Threads : pc'[u] = "deleting" /\ s'[u] = (semas[j])'
    BY DEF NoLeak
  <2>1. semas'[j] = semas[j] /\ semas[j] \in Semas
    BY <1>7
  <2>2. Users(semas[j])' = Users(semas[j])
    BY <1>2, <1>3, <2>1 DEF Users
  <2>3. CASE semas[j] = x
    <3>1. refCount[x] = Cardinality(Tokens(n, Users(x))) /\ refCount[x] # 0
      BY <1>1, <1>7, <2>1, <2>3 DEF RefCountExact, Reachable
    <3>2. Users(x) # {}
      BY <3>1, TokensNone
    <3> QED BY <2>2, <2>3, <3>2
  <2>4. CASE semas[j] # x
    <3>1. CASE Users(semas[j]) = {}
      <4>1. PICK u \in Threads : pc[u] = "deleting" /\ s[u] = semas[j]
        BY <2>1, <3>1 DEF NoLeak
      <4> QED BY <1>1, <1>3, <2>1, <2>4, <4>1
    <3> QED BY <2>2, <3>1
  <2> QED BY <2>3, <2>4
<1>13. OwnKey' /\ Holding'
  BY <1>2, <1>3, <1>5, <1>7 DEF OwnKey, Holding
<1> QED BY <1>6, <1>9, <1>10, <1>11, <1>12, <1>13

\* Fetching an object keeps it, whether the map has one or one is made.
LEMMA FetchKeeps ==
  ASSUME IInv, NEW t \in Threads, NEW mode \in Modes, NEW k \in Keys, NEW w \in 1..MaxWeight,
         Fetch(t, mode, k, w)
  PROVE  IInv'
<1> USE NoneAssumption, NAssumption DEF IInv, CountsInv, TypeOK
<1>1. /\ pc[t] = "idle" /\ s[t] = None /\ pc' = [pc EXCEPT ![t] = mode] /\ n' = [n EXCEPT ![t] = w]
      /\ pc'[t] = mode /\ n'[t] = w /\ \A u \in Threads : u # t => pc'[u] = pc[u] /\ n'[u] = n[u]
      /\ has' = has /\ has[t] = 0
  BY DEF Fetch, Holding
<1>2. PICK x \in Semas :
        /\ s' = [s EXCEPT ![t] = x] /\ x # None
        /\ \/ /\ x = semas[k] /\ refCount' = [refCount EXCEPT ![x] = @ + w]
              /\ UNCHANGED <<semas, key, cur, waiters>>
           \/ /\ semas[k] = None /\ x \notin Reachable
              /\ semas' = [semas EXCEPT ![k] = x] /\ key' = [key EXCEPT ![x] = k]
              /\ refCount' = [refCount EXCEPT ![x] = w]
              /\ cur' = [cur EXCEPT ![x] = 0] /\ waiters' = [waiters EXCEPT ![x] = <<>>]
  BY DEF Fetch
<1>3. s'[t] = x /\ \A u \in Threads : u # t => s'[u] = s[u]
  BY <1>2
<1>4. mode \in {"acquire", "acquirectx", "try"}
  BY DEF Modes
<1>5. t \notin Users(x) /\ Users(x)' = Users(x) \cup {t} /\ \A y \in Semas : y # x => Users(y)' = Users(y)
  BY <1>1, <1>2, <1>3, <1>4 DEF Users
<1>6. \A y \in Semas : Waiting(pc, y)' = Waiting(pc, y)
  BY <1>1, <1>3, <1>4 DEF Waiting
<1>7. \A y \in Semas : /\ Tokens(n', Users(y)) = Tokens(n, Users(y))
                       /\ Tokens(has', Owners(y)') = Tokens(has, Owners(y))
  <2> SUFFICES ASSUME NEW y \in Semas
               PROVE  /\ Tokens(n', Users(y)) = Tokens(n, Users(y))
                      /\ Tokens(has', Owners(y)') = Tokens(has, Owners(y))
    OBVIOUS
  <2>1. PICK U : U = Users(y)
    OBVIOUS
  <2>2. \A u \in U : n'[u] = n[u]
    BY <1>1, <2>1 DEF Users
  <2>3. Tokens(n', U) = Tokens(n, U)
    BY <2>2, TokensAgree
  <2>4. Tokens(has', Owners(y)') = Tokens(has, Owners(y))
    BY <1>1, <1>3, OwnersKeep
  <2> QED BY <2>1, <2>3, <2>4
<1>8. Cardinality(Tokens(n', Users(x)')) = Cardinality(Tokens(n, Users(x))) + w
  <2>1. PICK U, v : U = Users(x) /\ v = n'
    OBVIOUS
  <2>2. U \in SUBSET Threads /\ t \notin U /\ v[t] \in 0..MaxWeight /\ v[t] = w
    BY <1>1, <1>5, <2>1 DEF Users
  <2>3. Cardinality(Tokens(v, U \cup {t})) = Cardinality(Tokens(v, U)) + v[t]
    BY <2>2, TokensAdd
  <2> QED BY <1>5, <1>7, <2>1, <2>2, <2>3
<1>9. \A y \in Reachable' : y = x \/ y \in Reachable
  BY <1>2, <1>3 DEF Reachable
<1>10. pc' \in [Threads -> PCs] /\ s' \in [Threads -> Semas \cup {None}] /\ n' \in [Threads -> 0..MaxWeight]
  <2>1. pc' \in [Threads -> PCs]
    BY <1>1, <1>4 DEF PCs
  <2>2. s' \in [Threads -> Semas \cup {None}]
    BY <1>2
  <2>3. n' \in [Threads -> 0..MaxWeight]
    BY <1>1
  <2> QED BY <2>1, <2>2, <2>3
<1>11. Holding' /\ \A u \in Threads : pc'[u] = "idle" <=> s'[u] = None
  BY <1>1, <1>2, <1>3, <1>4 DEF Holding
<1>12. CASE /\ x = semas[k] /\ refCount' = [refCount EXCEPT ![x] = @ + w]
            /\ UNCHANGED <<semas, key, cur, waiters>>
  <2>1. refCount' \in [Semas -> Nat] /\ refCount'[x] = refCount[x] + w
    BY <1>12
  <2>2. TypeOK'
    BY <1>1, <1>10, <1>11, <1>12, <2>1
  <2>3. x \in Reachable
    BY <1>12 DEF Reachable
  <2>4. \A y \in Reachable' : y = None \/ (y \in Reachable /\ y \in Semas)
    BY <1>9, <2>3, ReachableTyped
  <2>5. RefCountExact'
    <3> SUFFICES ASSUME NEW y \in Reachable', y # None
                 PROVE  refCount'[y] = Cardinality(Tokens(n', Users(y)'))
      BY DEF RefCountExact
    <3>1. y \in Semas /\ refCount[y] = Cardinality(Tokens(n, Users(y)))
      BY <2>4 DEF RefCountExact
    <3>2. CASE y = x
      BY <1>8, <2>1, <3>1, <3>2
    <3>3. CASE y # x
      BY <1>5, <1>7, <1>12, <3>1, <3>3
    <3> QED BY <3>2, <3>3
  <2>6. TokensExact'
    <3> SUFFICES ASSUME NEW y \in Reachable', y # None
                 PROVE  cur'[y] = Cardinality(Tokens(has', Owners(y)'))
      BY DEF TokensExact
    <3>1. y \in Semas /\ cur[y] = Cardinality(Tokens(has, Owners(y)))
      BY <2>4 DEF TokensExact
    <3> QED BY <1>6, <1>7, <1>12, <3>1
  <2>7. QueueExact'
    <3> SUFFICES ASSUME NEW y \in Reachable', y # None
                 PROVE  Distinct(waiters'[y]) /\ FirstOf(waiters'[y], Len(waiters'[y])) = Waiting(pc, y)'
      BY DEF QueueExact
    <3>1. /\ y \in Semas /\ Distinct(waiters[y])
          /\ FirstOf(waiters[y], Len(waiters[y])) = Waiting(pc, y)
      BY <2>4 DEF QueueExact
    <3> QED BY <1>6, <1>12, <3>1
  <2>8. NoLeak'
    <3> SUFFICES ASSUME NEW j \in Keys, semas[j] # None, semas[j] # x
                 PROVE  Users(semas[j])' # {} \/ \E u \in Threads : pc'[u] = "deleting" /\ s'[u] = semas[j]
      BY <1>5, <1>12 DEF NoLeak
    <3>1. Users(semas[j])' = Users(semas[j])
      BY <1>5, <1>12 DEF Users
    <3>2. CASE Users(semas[j]) = {}
      <4>1. PICK u \in Threads : pc[u] = "deleting" /\ s[u] = semas[j]
        BY <3>2 DEF NoLeak
      <4> QED BY <1>1, <1>3, <4>1
    <3> QED BY <3>1, <3>2
  <2>9. OwnKey'
    BY <1>12 DEF OwnKey
  <2> QED BY <1>11, <2>2, <2>5, <2>6, <2>7, <2>8, <2>9
<1>13. CASE /\ semas[k] = None /\ x \notin Reachable
            /\ semas' = [semas EXCEPT ![k] = x] /\ key' = [key EXCEPT ![x] = k]
            /\ refCount' = [refCount EXCEPT ![x] = w]
            /\ cur' = [cur EXCEPT ![x] = 0] /\ waiters' = [waiters EXCEPT ![x] = <<>>]
  <2>1. semas' \in [Keys -> Semas \cup {None}] /\ key' \in [Semas -> Keys]
    BY <1>13
  <2>2. refCount' \in [Semas -> Nat] /\ cur' \in [Semas -> 0..N] /\ waiters' \in [Semas -> Seq(Threads)]
    BY <1>13
  <2>3. TypeOK'
    BY <1>1, <1>10, <1>11, <2>1, <2>2
  <2>4. Users(x) = {} /\ Owners(x) = {} /\ Waiting(pc, x) = {}
    BY <1>13 DEF Users, Owners, Waiting, Reachable
  <2>5. \A y \in Reachable' : y = None \/ y = x \/ (y \in Reachable /\ y \in Semas)
    BY <1>9, ReachableTyped
  <2>6. RefCountExact'
    <3> SUFFICES ASSUME NEW y \in Reachable', y # None
                 PROVE  refCount'[y] = Cardinality(Tokens(n', Users(y)'))
      BY DEF RefCountExact
    <3>1. CASE y = x
      <4>1. Cardinality(Tokens(n, Users(x))) = 0
        BY <2>4, TokensNone
      <4>2. Cardinality(Tokens(n', Users(x)')) = w
        BY <1>8, <4>1
      <4>3. refCount'[x] = w
        BY <1>13
      <4> QED BY <3>1, <4>2, <4>3
    <3>2. CASE y # x
      <4>1. y \in Semas /\ refCount[y] = Cardinality(Tokens(n, Users(y)))
        BY <2>5, <3>2 DEF RefCountExact
      <4> QED BY <1>5, <1>7, <1>13, <3>2, <4>1
    <3> QED BY <3>1, <3>2
  <2>7. TokensExact'
    <3> SUFFICES ASSUME NEW y \in Reachable', y # None
                 PROVE  cur'[y] = Cardinality(Tokens(has', Owners(y)'))
      BY DEF TokensExact
    <3>1. CASE y = x
      <4>1. Cardinality(Tokens(has', Owners(x)')) = 0
        BY <1>7, <2>4, TokensNone
      <4> QED BY <1>13, <3>1, <4>1
    <3>2. CASE y # x
      <4>1. y \in Semas /\ cur[y] = Cardinality(Tokens(has, Owners(y)))
        BY <2>5, <3>2 DEF TokensExact
      <4> QED BY <1>6, <1>7, <1>13, <3>2, <4>1
    <3> QED BY <3>1, <3>2
  <2>8. QueueExact'
    <3> SUFFICES ASSUME NEW y \in Reachable', y # None
                 PROVE  Distinct(waiters'[y]) /\ FirstOf(waiters'[y], Len(waiters'[y])) = Waiting(pc, y)'
      BY DEF QueueExact
    <3>1. CASE y = x
      <4>1. waiters'[y] = <<>>
        BY <1>13, <3>1
      <4>2. Distinct(<<>>) /\ FirstOf(<<>>, Len(<<>>)) = {}
        BY DEF Distinct, FirstOf
      <4> QED BY <1>6, <2>4, <3>1, <4>1, <4>2
    <3>2. CASE y # x
      <4>1. /\ y \in Semas /\ Distinct(waiters[y])
            /\ FirstOf(waiters[y], Len(waiters[y])) = Waiting(pc, y)
        BY <2>5, <3>2 DEF QueueExact
      <4> QED BY <1>6, <1>13, <3>2, <4>1
    <3> QED BY <3>1, <3>2
  <2>9. \A j \in Keys : j # k => semas'[j] = semas[j] /\ semas[j] # x
    BY <1>13 DEF Reachable
  <2>10. NoLeak'
    <3> SUFFICES ASSUME NEW j \in Keys, j # k, semas[j] # None, semas'[j] = semas[j], semas[j] # x
                 PROVE  Users(semas[j])' # {} \/ \E u \in Threads : pc'[u] = "deleting" /\ s'[u] = semas[j]
      BY <1>5, <1>13, <2>9 DEF NoLeak
    <3>1. Users(semas[j])' = Users(semas[j])
      BY <1>5 DEF Users
    <3>2. CASE Users(semas[j]) = {}
      <4>1. PICK u \in Threads : pc[u] = "deleting" /\ s[u] = semas[j]
        BY <3>2 DEF NoLeak
      <4> QED BY <1>1, <1>3, <4>1
    <3> QED BY <3>1, <3>2
  <2>11. OwnKey'
    BY <1>13, <2>9 DEF OwnKey
  <2> QED BY <1>11, <2>3, <2>6, <2>7, <2>8, <2>10, <2>11
<1> QED BY <1>2, <1>12, <1>13

-----------------------------------------------------------------------------
\* The invariant holds in every reachable state.
LEMMA Invariance == Spec => []IInv
<1>1. Init => IInv
  <2> SUFFICES ASSUME Init PROVE IInv
    OBVIOUS
  <2>1. (CHOOSE k \in Keys : TRUE) \in Keys
    BY NoneAssumption
  <2>2. TypeOK
    BY <2>1, NoneAssumption, NAssumption DEF Init, TypeOK, PCs
  <2>3. Reachable \subseteq {None}
    BY DEF Init, Reachable
  <2>4. RefCountExact /\ TokensExact /\ QueueExact
    BY <2>3 DEF RefCountExact, TokensExact, QueueExact
  <2>5. NoLeak /\ OwnKey /\ Holding
    BY DEF Init, NoLeak, OwnKey, Holding
  <2> QED BY <2>2, <2>4, <2>5 DEF IInv, CountsInv
<1>2. IInv /\ [Next]_vars => IInv'
  <2> SUFFICES ASSUME IInv, [Next]_vars PROVE IInv'
    OBVIOUS
  <2>1. CASE UNCHANGED vars
    <3>1. /\ \A x : Users(x)' = Users(x) /\ Owners(x)' = Owners(x) /\ Waiting(pc, x)' = Waiting(pc, x)
          /\ Reachable' = Reachable
      BY <2>1 DEF vars, Users, Owners, Waiting, Reachable
    <3>2. TypeOK'
      BY <2>1 DEF vars, IInv, CountsInv, TypeOK
    <3>3. RefCountExact' /\ TokensExact' /\ QueueExact'
      BY <2>1, <3>1 DEF vars, IInv, CountsInv, RefCountExact, TokensExact, QueueExact
    <3>4. NoLeak' /\ OwnKey' /\ Holding'
      BY <2>1, <3>1 DEF vars, IInv, CountsInv, NoLeak, OwnKey, Holding
    <3> QED BY <3>2, <3>3, <3>4 DEF IInv, CountsInv
  <2>2. ASSUME NEW mode \in Modes, NEW w \in 1..Largest(mode) PROVE w \in 1..MaxWeight
    BY NAssumption DEF Largest
  <2> QED BY <2>1, <2>2, FetchKeeps, CtxEndsKeeps, AcquireKeeps, EnqueueKeeps, TryFailsKeeps,
             ReleaseKeeps, DropKeeps, TryDeleteKeeps DEF Next, Step
<1> QED BY <1>1, <1>2, PTL DEF Spec

\* refCount is the weight of all who use the object, for every object that can be
\* reached, inside or outside the map; it never becomes negative, and the map keeps
\* no object that nobody uses.
THEOREM WeightsExact == Spec => []CountsInv
<1>1. IInv => CountsInv
  BY DEF IInv
<1> QED BY <1>1, Invariance, PTL

\* A Semaphore object never gives out more than n tokens, also when waiters are
\* served in groups and some give up.
THEOREM ObjectsLimited == Spec => []ObjectLimit
<1>1. IInv => ObjectLimit
  <2> SUFFICES ASSUME IInv, NEW x \in Semas PROVE Cardinality(Tokens(has, Owners(x))) <= N
    BY DEF ObjectLimit
  <2>1. CASE x \in Reachable
    <3>1. cur[x] = Cardinality(Tokens(has, Owners(x))) /\ cur[x] \in 0..N
      BY <2>1, NoneAssumption DEF IInv, CountsInv, TypeOK, TokensExact
    <3> QED BY <3>1, NAssumption
  <2>2. CASE x \notin Reachable
    <3>1. Owners(x) = {}
      BY <2>2 DEF Owners, Reachable
    <3> QED BY <3>1, TokensNone, NAssumption
  <2> QED BY <2>1, <2>2
<1> QED BY <1>1, Invariance, PTL

=============================================================================
