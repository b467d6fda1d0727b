--------------------------- MODULE ContainersProofs ---------------------------
(***************************************************************************)
(* Proofs about the containers, each about its own specification and for   *)
(* every value of its constants:                                           *)
(*   - MovingCounter reports the values of its period and does not panic   *)
(*     when its buckets share the period evenly;                           *)
(*   - compressedbuffer.Buffer reads back what was written, and is an      *)
(*     append-only log with a sequential reader;                           *)
(*   - Bitmap256 answers every query for the set of positions that are     *)
(*     set.                                                                *)
(***************************************************************************)
EXTENDS MovingCounter, CompressedBuffer, Bitmap256,
        FiniteSetTheorems, SequenceTheorems, WellFoundedInduction, TLAPS

-----------------------------------------------------------------------------
\* MovingCounter.  Induction over the naturals, for a set.
LEMMA SetInduction ==
  ASSUME NEW T, 0 \in T, \A k \in Nat : k \in T => k + 1 \in T
  PROVE  \A k \in Nat : k \in T
<1> DEFINE F == {k \in Nat : k \notin T}
<1> SUFFICES ASSUME F # {} PROVE FALSE
  OBVIOUS
<1>1. PICK a \in F : \A b \in F : ~(<<b, a>> \in OpToRel(<, Nat))
  BY NatLessThanWellFounded, WFMin
<1>2. a \in Nat /\ a # 0 /\ a - 1 \in Nat /\ a - 1 < a
  OBVIOUS
<1>3. a - 1 \notin F
  BY <1>1, <1>2 DEF OpToRel
<1> QED BY <1>2, <1>3

\* P holds the sums of the first 0, 1, ... n values of f.
IsSum(P, f, n) ==
  P \in [0..n -> Int] /\ P[0] = 0 /\ \A j \in 1..n : P[j] = P[j - 1] + f[j - 1]
Summable(f, n) == \A j \in 0..(n - 1) : f[j] \in Int
SumTable(P, f, n) == P = [k \in 0..n |-> IF k = 0 THEN 0 ELSE P[k - 1] + f[k - 1]]

LEMMA SumExists ==
  ASSUME NEW n \in Nat, NEW f, Summable(f, n)
  PROVE  \E P : IsSum(P, f, n)
<1> DEFINE T == {k \in Nat : k <= n => \E P : IsSum(P, f, k)}
<1>1. 0 \in T
  <2>1. IsSum([k \in 0..0 |-> 0], f, 0)
    BY DEF IsSum
  <2> QED BY <2>1
<1>2. ASSUME NEW k \in Nat, k \in T PROVE k + 1 \in T
  <2> SUFFICES ASSUME k + 1 <= n PROVE \E P : IsSum(P, f, k + 1)
    OBVIOUS
  <2>1. PICK P : IsSum(P, f, k)
    BY <1>2
  <2>2. k \in 0..(n - 1) /\ f[k] \in Int /\ P \in [0..k -> Int] /\ P[k] + f[k] \in Int
    BY <2>1 DEF Summable, IsSum
  <2>3. PICK Q : Q = [j \in 0..(k + 1) |-> IF j = k + 1 THEN P[k] + f[k] ELSE P[j]]
    OBVIOUS
  <2>4. Q \in [0..(k + 1) -> Int]
    BY <2>2, <2>3
  <2>5. Q[0] = 0
    BY <2>1, <2>3 DEF IsSum
  <2>6. ASSUME NEW j \in 1..(k + 1) PROVE Q[j] = Q[j - 1] + f[j - 1]
    <3>1. CASE j = k + 1
      BY <3>1, <2>2, <2>3
    <3>2. CASE j \in 1..k
      BY <3>2, <2>1, <2>3 DEF IsSum
    <3> QED BY <3>1, <3>2
  <2> QED BY <2>4, <2>5, <2>6 DEF IsSum
<1>3. n \in T
  <2> HIDE DEF T
  <2> QED BY <1>1, <1>2, SetInduction
<1> QED BY <1>3

LEMMA SumUnique ==
  ASSUME NEW n \in Nat, NEW f, NEW P, NEW Q, IsSum(P, f, n), IsSum(Q, f, n)
  PROVE  P[n] = Q[n]
<1> DEFINE T == {k \in Nat : k <= n => P[k] = Q[k]}
<1>1. 0 \in T
  BY DEF IsSum
<1>2. ASSUME NEW k \in Nat, k \in T PROVE k + 1 \in T
  <2> SUFFICES ASSUME k + 1 <= n PROVE P[k + 1] = Q[k + 1]
    OBVIOUS
  <2>1. k + 1 \in 1..n /\ (k + 1) - 1 = k /\ P[k] = Q[k]
    BY <1>2
  <2> QED BY <2>1 DEF IsSum
<1>3. n \in T
  <2> HIDE DEF T
  <2> QED BY <1>1, <1>2, SetInduction
<1> QED BY <1>3

\* SumFirst is the last of the sums.
LEMMA SumIs ==
  ASSUME NEW n \in Nat, NEW f, Summable(f, n), NEW P, IsSum(P, f, n)
  PROVE  SumFirst(f, n) = P[n]
<1>1. ASSUME NEW Q, SumTable(Q, f, n) PROVE IsSum(Q, f, n)
  <2> DEFINE T == {k \in Nat : k <= n => Q[k] \in Int}
  <2>1. Q = [k \in 0..n |-> IF k = 0 THEN 0 ELSE Q[k - 1] + f[k - 1]]
    BY <1>1 DEF SumTable
  <2>2. Q[0] = 0 /\ \A k \in 1..n : Q[k] = Q[k - 1] + f[k - 1]
    <3>1. 0 \in 0..n
      OBVIOUS
    <3>2. Q[0] = 0
      BY <2>1, <3>1
    <3>3. ASSUME NEW k \in 1..n PROVE Q[k] = Q[k - 1] + f[k - 1]
      <4>1. k \in 0..n /\ k # 0
        OBVIOUS
      <4> QED BY <2>1, <4>1
    <3> QED BY <3>2, <3>3
  <2>3. 0 \in T
    BY <2>2
  <2>4. ASSUME NEW k \in Nat, k \in T PROVE k + 1 \in T
    <3> SUFFICES ASSUME k + 1 <= n PROVE Q[k + 1] \in Int
      OBVIOUS
    <3>1. k + 1 \in 1..n /\ (k + 1) - 1 = k /\ k \in 0..(n - 1) /\ Q[k] \in Int
      BY <2>4
    <3>2. f[k] \in Int
      BY <3>1 DEF Summable
    <3> QED BY <2>2, <3>1, <3>2
  <2>5. \A k \in Nat : k \in T
    <3> HIDE DEF T
    <3> QED BY <2>3, <2>4, SetInduction
  <2>6. \A k \in 0..n : Q[k] \in Int
    BY <2>5
  <2>7. DOMAIN Q = 0..n
    BY <2>1
  <2>8. Q = [k \in 0..n |-> Q[k]]
    BY <2>1
  <2>9. Q \in [0..n -> Int]
    BY <2>6, <2>8
  <2> QED BY <2>2, <2>9 DEF IsSum
<1>2. SumTable(P, f, n)
  <2>1. P \in [0..n -> Int] /\ P[0] = 0 /\ \A j \in 1..n : P[j] = P[j - 1] + f[j - 1]
    BY DEF IsSum
  <2>2. ASSUME NEW k \in 0..n PROVE P[k] = IF k = 0 THEN 0 ELSE P[k - 1] + f[k - 1]
    <3>1. k = 0 \/ k \in 1..n
      OBVIOUS
    <3> QED BY <2>1, <3>1
  <2> QED BY <2>1, <2>2 DEF SumTable
<1>3. PICK Q : SumTable(Q, f, n) /\ SumFirst(f, n) = Q[n]
  <2>1. SumFirst(f, n) = (CHOOSE Q : SumTable(Q, f, n))[n]
    BY DEF SumFirst, SumTable
  <2>2. SumTable(CHOOSE Q : SumTable(Q, f, n), f, n)
    BY <1>2
  <2> QED BY <2>1, <2>2
<1> QED BY <1>1, <1>3, SumUnique

LEMMA SumZero ==
  ASSUME NEW f
  PROVE  SumFirst(f, 0) = 0
<1>1. IsSum([k \in 0..0 |-> 0], f, 0) /\ Summable(f, 0)
  BY DEF IsSum, Summable
<1> QED BY <1>1, SumIs

LEMMA SumStep ==
  ASSUME NEW n \in Nat, NEW f, Summable(f, n + 1)
  PROVE  /\ Summable(f, n) /\ f[n] \in Int
         /\ SumFirst(f, n) \in Int
         /\ SumFirst(f, n + 1) = SumFirst(f, n) + f[n]
<1>1. Summable(f, n) /\ f[n] \in Int /\ n + 1 \in Nat
  BY DEF Summable
<1>2. PICK P : IsSum(P, f, n + 1)
  BY <1>1, SumExists
<1>3. PICK Q : Q = [k \in 0..n |-> P[k]]
  OBVIOUS
<1>4. IsSum(Q, f, n)
  BY <1>2, <1>3 DEF IsSum
<1>5. SumFirst(f, n + 1) = P[n + 1] /\ SumFirst(f, n) = Q[n]
  BY <1>1, <1>2, <1>4, SumIs
<1>6. n + 1 \in 1..(n + 1) /\ (n + 1) - 1 = n /\ n \in 0..n
  OBVIOUS
<1>7. P[n + 1] = P[n] + f[n] /\ Q[n] = P[n] /\ P[n] \in Int
  BY <1>2, <1>3, <1>6 DEF IsSum
<1> QED BY <1>1, <1>5, <1>7

LEMMA SumInt ==
  ASSUME NEW n \in Nat, NEW f, Summable(f, n)
  PROVE  SumFirst(f, n) \in Int
<1>1. PICK P : IsSum(P, f, n)
  BY SumExists
<1> QED BY <1>1, SumIs DEF IsSum

LEMMA SumSame ==
  ASSUME NEW n \in Nat, NEW f, NEW g, Summable(f, n), \A j \in 0..(n - 1) : g[j] = f[j]
  PROVE  SumFirst(g, n) = SumFirst(f, n)
<1>1. PICK P : IsSum(P, f, n)
  BY SumExists
<1>2. Summable(g, n) /\ IsSum(P, g, n)
  BY <1>1 DEF IsSum, Summable
<1> QED BY <1>1, <1>2, SumIs

LEMMA SumNone ==
  ASSUME NEW n \in Nat, NEW f, \A j \in 0..(n - 1) : f[j] = 0
  PROVE  SumFirst(f, n) = 0
<1>1. PICK P : P = [k \in 0..n |-> 0]
  OBVIOUS
<1>2. Summable(f, n) /\ IsSum(P, f, n) /\ P[n] = 0
  BY <1>1 DEF IsSum, Summable
<1> QED BY <1>2, SumIs

LEMMA SumAdd ==
  ASSUME NEW n \in Nat, NEW f, NEW g, NEW h, Summable(f, n), Summable(g, n),
         \A j \in 0..(n - 1) : h[j] = f[j] + g[j]
  PROVE  SumFirst(h, n) = SumFirst(f, n) + SumFirst(g, n)
<1>1. PICK P : IsSum(P, f, n)
  BY SumExists
<1>2. PICK Q : IsSum(Q, g, n)
  BY SumExists
<1>3. PICK R : R = [k \in 0..n |-> P[k] + Q[k]]
  OBVIOUS
<1>4. Summable(h, n)
  BY DEF Summable
<1>5. R \in [0..n -> Int] /\ R[0] = 0 /\ R[n] = P[n] + Q[n]
  BY <1>1, <1>2, <1>3 DEF IsSum
<1>6. ASSUME NEW j \in 1..n PROVE R[j] = R[j - 1] + h[j - 1]
  <2>1. j \in 0..n /\ j - 1 \in 0..n /\ j - 1 \in 0..(n - 1)
    OBVIOUS
  <2>2. P[j] = P[j - 1] + f[j - 1] /\ Q[j] = Q[j - 1] + g[j - 1] /\ P[j - 1] \in Int /\ Q[j - 1] \in Int
    BY <1>1, <1>2, <2>1 DEF IsSum
  <2>3. f[j - 1] \in Int /\ g[j - 1] \in Int /\ h[j - 1] = f[j - 1] + g[j - 1]
    BY <2>1 DEF Summable
  <2>4. R[j] = P[j] + Q[j] /\ R[j - 1] = P[j - 1] + Q[j - 1]
    BY <1>3, <2>1
  <2> QED BY <2>2, <2>3, <2>4
<1>7. IsSum(R, h, n)
  BY <1>5, <1>6 DEF IsSum
<1> QED BY <1>1, <1>2, <1>4, <1>5, <1>7, SumIs

\* The sum of the first a values is that of the first n and that of the rest.
LEMMA SumSplit ==
  ASSUME NEW a \in Nat, NEW n \in 0..a, NEW f, NEW g, Summable(f, a),
         \A j \in 0..(a - n - 1) : g[j] = f[n + j]
  PROVE  SumFirst(f, a) = SumFirst(f, n) + SumFirst(g, a - n)
<1>1. PICK P : IsSum(P, f, a)
  BY SumExists
<1>2. PICK Q : Q = [k \in 0..n |-> P[k]]
  OBVIOUS
<1>3. PICK R : R = [k \in 0..(a - n) |-> P[n + k] - P[n]]
  OBVIOUS
<1>4. Summable(f, n) /\ Summable(g, a - n) /\ a - n \in Nat
  BY DEF Summable
<1>5. IsSum(Q, f, n)
  BY <1>1, <1>2 DEF IsSum
<1>6. P \in [0..a -> Int] /\ P[n] \in Int /\ \A k \in 0..(a - n) : P[n + k] \in Int
  BY <1>1 DEF IsSum
<1>7. R \in [0..(a - n) -> Int] /\ R[0] = 0
  BY <1>3, <1>6
<1>8. ASSUME NEW j \in 1..(a - n) PROVE R[j] = R[j - 1] + g[j - 1]
  <2>1. j \in 0..(a - n) /\ j - 1 \in 0..(a - n) /\ j - 1 \in 0..(a - n - 1) /\ n + j \in 1..a /\ (n + j) - 1 = n + (j - 1)
    OBVIOUS
  <2>2. R[j] = P[n + j] - P[n] /\ R[j - 1] = P[n + (j - 1)] - P[n]
    BY <1>3, <2>1
  <2>3. P[n + j] = P[n + (j - 1)] + f[n + (j - 1)]
    <3>1. P[n + j] = P[(n + j) - 1] + f[(n + j) - 1]
      BY <1>1, <2>1 DEF IsSum
    <3> QED BY <3>1, <2>1
  <2>4. g[j - 1] = f[n + (j - 1)] /\ g[j - 1] \in Int
    BY <1>4, <2>1 DEF Summable
  <2>5. P[n + j] \in Int /\ P[n + (j - 1)] \in Int
    BY <1>6, <2>1
  <2> QED BY <1>6, <2>2, <2>3, <2>4, <2>5
<1>9. IsSum(R, g, a - n) /\ R[a - n] = P[a] - P[n] /\ Q[n] = P[n] /\ P[a] \in Int
  <2>1. IsSum(R, g, a - n)
    BY <1>7, <1>8 DEF IsSum
  <2>2. a - n \in 0..(a - n) /\ n + (a - n) = a /\ n \in 0..n
    OBVIOUS
  <2>3. R[a - n] = P[n + (a - n)] - P[n] /\ Q[n] = P[n] /\ P[n + (a - n)] \in Int
    BY <1>2, <1>3, <1>6, <2>2
  <2> QED BY <2>1, <2>2, <2>3
<1>10. SumFirst(f, a) = P[a] /\ SumFirst(f, n) = Q[n] /\ SumFirst(g, a - n) = R[a - n]
  BY <1>1, <1>4, <1>5, <1>9, SumIs
<1> QED BY <1>6, <1>9, <1>10

LEMMA SumPositive ==
  ASSUME NEW n \in Nat, NEW f, \A j \in 0..(n - 1) : f[j] \in Nat /\ f[j] > 0
  PROVE  SumFirst(f, n) \in Nat /\ SumFirst(f, n) >= n
<1>1. Summable(f, n)
  BY DEF Summable
<1>2. PICK P : IsSum(P, f, n)
  BY <1>1, SumExists
<1> DEFINE T == {k \in Nat : k <= n => P[k] \in Nat /\ P[k] >= k}
<1>3. 0 \in T
  BY <1>2 DEF IsSum
<1>4. ASSUME NEW k \in Nat, k \in T PROVE k + 1 \in T
  <2> SUFFICES ASSUME k + 1 <= n PROVE P[k + 1] \in Nat /\ P[k + 1] >= k + 1
    OBVIOUS
  <2>1. k + 1 \in 1..n /\ (k + 1) - 1 = k /\ k \in 0..(n - 1) /\ P[k] \in Nat /\ P[k] >= k
    BY <1>4
  <2>2. P[k + 1] = P[k] + f[k] /\ f[k] \in Nat /\ f[k] > 0
    BY <1>2, <2>1 DEF IsSum
  <2> QED BY <2>1, <2>2
<1>5. n \in T
  <2> HIDE DEF T
  <2> QED BY <1>3, <1>4, SetInduction
<1> QED BY <1>1, <1>2, <1>5, SumIs

-----------------------------------------------------------------------------
\* Aligned times.
LEMMA AlignedFacts ==
  ASSUME NEW t \in Nat
  PROVE  /\ Aligned(t) \in Nat /\ Aligned(t) <= t /\ t < Aligned(t) + BucketPeriod
         /\ Aligned(t) % BucketPeriod = 0
         /\ \A s \in Nat : s % BucketPeriod = 0 /\ s + BucketPeriod <= t => s + BucketPeriod <= Aligned(t)
         /\ \A s \in Nat : s % BucketPeriod = 0 /\ s <= t /\ t < s + BucketPeriod => Aligned(t) = s
<1>1. PICK B \in Nat : B = BucketPeriod /\ B > 0
  BY PeriodAssumption, BucketPeriodAssumption DEF BucketPeriod
<1>2. t % B \in 0..(B - 1) /\ Aligned(t) = t - (t % B)
  BY <1>1 DEF Aligned
<1>3. t = B * (t \div B) + (t % B) /\ t \div B \in Nat
  BY <1>1
<1>4. PICK q \in Nat : q = t \div B
  BY <1>3
<1>5. Aligned(t) = B * q /\ Aligned(t) \in Nat
  BY <1>1, <1>2, <1>3, <1>4
<1>6. \A r \in Nat : (B * r) % B = 0
  BY <1>1
<1>7. ASSUME NEW s \in Nat, s % B = 0 PROVE s = B * (s \div B) /\ s \div B \in Nat
  BY <1>1, <1>7
<1>8. ASSUME NEW s \in Nat, s % B = 0, s + B <= t PROVE s + B <= Aligned(t)
  <2>1. PICK r \in Nat : s = B * r
    BY <1>7, <1>8
  <2>2. B * r + B <= t /\ t < B * q + B
    BY <1>1, <1>2, <1>5, <1>8, <2>1
  <2>3. B * r < B * q
    BY <1>1, <1>4, <2>2
  <2>4. r < q
    BY <1>1, <1>4, <2>3
  <2> QED BY <1>1, <1>4, <1>5, <2>1, <2>4
<1>9. ASSUME NEW s \in Nat, s % B = 0, s <= t, t < s + B PROVE Aligned(t) = s
  <2>1. PICK r \in Nat : s = B * r
    BY <1>7, <1>9
  <2>2. B * r <= t /\ t < B * r + B /\ B * q <= t /\ t < B * q + B
    BY <1>1, <1>2, <1>5, <1>9, <2>1
  <2>3. B * r < B * (q + 1) /\ B * q < B * (r + 1)
    BY <1>1, <1>4, <2>2
  <2>4. r < q + 1 /\ q < r + 1
    BY <1>1, <1>4, <2>3
  <2>5. r = q
    BY <1>4, <2>4
  <2> QED BY <1>5, <2>1, <2>5
<1> QED BY <1>1, <1>2, <1>5, <1>6, <1>8, <1>9

-----------------------------------------------------------------------------
\* The counter's buckets, and a counter between two calls.
BucketRecs == [startTime : Times, count : Nat, total : Int, min : Int, max : Int]
Counters ==
  [buckets : [Indices -> BucketRecs], first : Indices, active : 0..NumBuckets, total : Int, count : Nat]

Active(m) == 0..(m.active - 1)
ApartIn(m) ==
  /\ \A i \in Active(m) : Bucket(m, i).startTime % BucketPeriod = 0
  /\ \A i, j \in Active(m) :
       i < j => Bucket(m, j).startTime >= Bucket(m, i).startTime + (j - i) * BucketPeriod
BalancedIn(m) == m.count = SumFirst(Counts(m), m.active) /\ m.total = SumFirst(Totals(m), m.active)
NoneEmpty(m) == \A i \in Active(m) : Bucket(m, i).count > 0
GoodCounter(m) == m \in Counters /\ ApartIn(m) /\ BalancedIn(m) /\ NoneEmpty(m)

LEMMA BucketSizes == NumBuckets \in Nat /\ NumBuckets > 0 /\ Period \in Nat /\ BucketPeriod \in Nat /\ BucketPeriod > 0
BY PeriodAssumption, BucketPeriodAssumption DEF BucketPeriod

LEMMA RoundTheRing ==
  ASSUME NEW x \in 0..(2 * NumBuckets - 1)
  PROVE  x % NumBuckets = IF x < NumBuckets THEN x ELSE x - NumBuckets
<1>1. CASE x < NumBuckets
  BY <1>1, BucketSizes
<1>2. CASE x \in NumBuckets..(2 * NumBuckets - 1)
  BY <1>2, BucketSizes
<1> QED BY <1>1, <1>2, BucketSizes

LEMMA IndexFacts ==
  ASSUME NEW m, m.first \in Indices
  PROVE  /\ \A i \in Indices : Index(m, i) \in Indices
         /\ \A i, j \in Indices : Index(m, i) = Index(m, j) => i = j
<1>1. \A i \in Indices : m.first + i \in 0..(2 * NumBuckets - 1) /\ m.first + i \in Nat
  BY BucketSizes DEF Indices
<1>2. \A i \in Indices : Index(m, i) = IF m.first + i < NumBuckets THEN m.first + i ELSE (m.first + i) - NumBuckets
  <2> TAKE i \in Indices
  <2>1. PICK x \in 0..(2 * NumBuckets - 1) : x = m.first + i
    BY <1>1
  <2>2. Index(m, i) = x % NumBuckets
    BY <2>1 DEF Index
  <2>3. x % NumBuckets = IF x < NumBuckets THEN x ELSE x - NumBuckets
    BY RoundTheRing
  <2> QED BY <2>1, <2>2, <2>3
<1> QED BY <1>1, <1>2, BucketSizes DEF Indices

LEMMA BucketFacts ==
  ASSUME NEW m \in Counters
  PROVE  /\ m.first \in Indices /\ m.active \in 0..NumBuckets /\ m.active \in Nat
         /\ m.buckets \in [Indices -> BucketRecs] /\ m.total \in Int /\ m.count \in Nat
         /\ \A i \in Indices : Bucket(m, i) \in BucketRecs
         /\ \A i \in Active(m) : i \in Indices
<1>1. m.first \in Indices /\ m.active \in 0..NumBuckets /\ m.active \in Nat /\ m.buckets \in [Indices -> BucketRecs]
      /\ m.total \in Int /\ m.count \in Nat
  BY DEF Counters
<1>2. \A i \in Indices : Index(m, i) \in Indices
  BY <1>1, IndexFacts
<1>3. \A i \in Indices : Bucket(m, i) \in BucketRecs
  BY <1>1, <1>2 DEF Bucket
<1>4. \A i \in Active(m) : i \in Indices
  BY <1>1, BucketSizes DEF Active, Indices
<1> QED BY <1>1, <1>3, <1>4

LEMMA SumsOf ==
  ASSUME NEW m \in Counters
  PROVE  /\ Summable(Counts(m), m.active) /\ Summable(Totals(m), m.active)
         /\ \A i \in Active(m) : Counts(m)[i] = Bucket(m, i).count /\ Totals(m)[i] = Bucket(m, i).total
<1>1. \A i \in Active(m) : Bucket(m, i).count \in Int /\ Bucket(m, i).total \in Int
  BY BucketFacts DEF BucketRecs
<1>2. \A i \in Active(m) : Counts(m)[i] = Bucket(m, i).count /\ Totals(m)[i] = Bucket(m, i).total
  BY DEF Counts, Totals, Active
<1> QED BY <1>1, <1>2 DEF Summable, Active

\* The buckets that expireOld drops are those from the first up to the first
\* that is not old.
LEMMA ExpiredAre ==
  ASSUME NEW m \in Counters, NEW t \in Int, NEW n, n = ExpiredCount(m, t)
  PROVE  /\ n \in 0..m.active
         /\ \A i \in 0..(n - 1) : Old(Bucket(m, i), t)
         /\ n < m.active => ~Old(Bucket(m, n), t)
<1>1. PICK a \in Nat : a = m.active
  BY BucketFacts
<1> DEFINE J == {k \in 1..a : \A i \in 0..(k - 1) : Old(Bucket(m, i), t)}
           F == {k \in Nat : k = a \/ ~Old(Bucket(m, k), t)}
<1>2. PICK b \in F : \A k \in F : ~(<<k, b>> \in OpToRel(<, Nat))
  <2>1. F \in SUBSET Nat /\ F # {}
    OBVIOUS
  <2> QED BY <2>1, NatLessThanWellFounded, WFMin
<1>3. b \in Nat /\ b \in F /\ \A k \in Nat : k < b => k \notin F
  BY <1>2 DEF OpToRel
<1>4. b <= a /\ (b < a => ~Old(Bucket(m, b), t)) /\ \A i \in 0..(b - 1) : Old(Bucket(m, i), t)
  <2>1. a \in F
    OBVIOUS
  <2>2. b <= a
    BY <1>3, <2>1
  <2>3. b < a => ~Old(Bucket(m, b), t)
    BY <1>3
  <2>4. ASSUME NEW i \in 0..(b - 1) PROVE Old(Bucket(m, i), t)
    BY <1>3
  <2> QED BY <2>2, <2>3, <2>4
<1>5. J = 1..b
  <2>1. ASSUME NEW k \in J PROVE k \in 1..b
    <3>1. k \in 1..a /\ (b < k => b \in 0..(k - 1) /\ b < a)
      BY <1>3
    <3>2. ~(b < k)
      BY <1>4, <3>1
    <3> QED BY <1>3, <3>1, <3>2
  <2>2. ASSUME NEW k \in 1..b PROVE k \in J
    BY <1>3, <1>4
  <2> QED BY <2>1, <2>2
<1>6. n = Cardinality(J)
  BY <1>1 DEF ExpiredCount
<1>7. n = b
  <2>1. b \in Int /\ 1 \in Int /\ Cardinality(1..b) = IF 1 > b THEN 0 ELSE b - 1 + 1
    BY <1>3, FS_Interval
  <2>2. Cardinality(1..b) = b
    BY <1>3, <2>1
  <2> QED BY <1>5, <1>6, <2>2
<1> QED BY <1>1, <1>3, <1>4, <1>7

\* The buckets that are left follow those that were dropped.
LEMMA IndexShift ==
  ASSUME NEW m \in Counters, NEW z, NEW n \in 0..m.active, z.first = NewFirst(m, n), z.active = m.active - n,
         z.buckets = m.buckets
  PROVE  /\ z.first \in Indices /\ z.active \in 0..m.active
         /\ \A i \in Active(z) : n + i \in Active(m) /\ Bucket(z, i) = Bucket(m, n + i)
<1>1. PICK a \in 0..NumBuckets : a = m.active
  BY BucketFacts
<1>2. PICK f \in 0..(NumBuckets - 1) : f = m.first
  BY BucketFacts DEF Indices
<1>3. CASE n = a
  BY <1>1, <1>3, BucketSizes DEF NewFirst, Active, Indices
<1>4. CASE n < a
  <2>1. PICK g : g = z.first
    OBVIOUS
  <2>2. g = (f + n) % NumBuckets
    BY <1>1, <1>2, <1>4, <2>1 DEF NewFirst, Index
  <2>3. PICK x \in 0..(2 * NumBuckets - 1) : x = f + n
    BY <1>1, <1>2, <1>4, BucketSizes
  <2>4. x % NumBuckets = IF x < NumBuckets THEN x ELSE x - NumBuckets
    BY RoundTheRing
  <2>5. g = IF x < NumBuckets THEN x ELSE x - NumBuckets
    BY <2>2, <2>3, <2>4
  <2>6. g \in 0..(NumBuckets - 1)
    BY <2>3, <2>5, BucketSizes
  <2>7. ASSUME NEW i \in Active(z) PROVE n + i \in Active(m) /\ Bucket(z, i) = Bucket(m, n + i)
    <3>1. i \in 0..(a - n - 1) /\ n + i \in 0..(a - 1) /\ n + i \in 0..(NumBuckets - 1)
      BY <1>1, <1>4, BucketSizes DEF Active
    <3>2. PICK y \in 0..(2 * NumBuckets - 1) : y = f + (n + i)
      BY <1>2, <3>1, BucketSizes
    <3>3. PICK w \in 0..(2 * NumBuckets - 1) : w = g + i
      BY <2>6, <3>1, <1>1, BucketSizes
    <3>4. y % NumBuckets = IF y < NumBuckets THEN y ELSE y - NumBuckets
      BY RoundTheRing
    <3>5. w % NumBuckets = IF w < NumBuckets THEN w ELSE w - NumBuckets
      BY RoundTheRing
    <3>6. (w < NumBuckets => y = w \/ y = w + NumBuckets) /\ (~(w < NumBuckets) => y = w)
      <4>1. y = x + i /\ i < NumBuckets
        BY <1>1, <1>2, <2>3, <3>1, <3>2, BucketSizes
      <4>2. CASE x < NumBuckets
        BY <2>3, <2>5, <3>1, <3>2, <3>3, <4>1, <4>2, BucketSizes
      <4>3. CASE ~(x < NumBuckets)
        <5>1. g = x - NumBuckets /\ w = (x - NumBuckets) + i /\ y = w + NumBuckets
          BY <2>5, <3>1, <3>3, <4>1, <4>3, BucketSizes
        <5> QED BY <3>2, <3>3, <5>1, BucketSizes
      <4> QED BY <4>2, <4>3
    <3>7. y % NumBuckets = w % NumBuckets
      BY <3>2, <3>3, <3>4, <3>5, <3>6, BucketSizes
    <3>8. Index(z, i) = w % NumBuckets /\ Index(m, n + i) = y % NumBuckets
      BY <1>2, <2>1, <3>2, <3>3 DEF Index
    <3> QED BY <1>1, <3>1, <3>7, <3>8 DEF Bucket, Active
  <2> QED BY <1>1, <1>4, <2>1, <2>6, <2>7 DEF Indices
<1> QED BY <1>1, <1>3, <1>4

Expired(m, t, z, n) ==
  /\ n \in 0..m.active /\ z.active = m.active - n
  /\ \A i \in Active(z) : n + i \in Active(m) /\ Bucket(z, i) = Bucket(m, n + i)
  /\ \A i \in 0..(n - 1) : Old(Bucket(m, i), t)
  /\ z.active > 0 => ~Old(Bucket(z, 0), t)

LEMMA ExpireOldIs ==
  ASSUME NEW m, GoodCounter(m), NEW t \in Int, NEW z, z = ExpireOld(m, t)
  PROVE  GoodCounter(z) /\ ~ExpireOldPanics(z) /\ \E n : Expired(m, t, z, n)
<1>1. m \in Counters /\ ApartIn(m) /\ BalancedIn(m) /\ NoneEmpty(m)
  BY DEF GoodCounter
<1>2. PICK n : n = ExpiredCount(m, t)
  OBVIOUS
<1>3. /\ n \in 0..m.active
      /\ \A i \in 0..(n - 1) : Old(Bucket(m, i), t)
      /\ n < m.active => ~Old(Bucket(m, n), t)
  BY <1>1, <1>2, ExpiredAre
<1>4. PICK a \in 0..NumBuckets : a = m.active /\ n \in 0..a
  BY <1>1, <1>3, BucketFacts
<1>5. PICK C, D : C = SumFirst(Counts(m), n) /\ D = SumFirst(Totals(m), n)
  OBVIOUS
<1>6. /\ z.buckets = m.buckets /\ z.first = NewFirst(m, n) /\ z.active = m.active - n
      /\ z.count = m.count - C /\ z.total = IF z.count = 0 THEN 0 ELSE m.total - D
      /\ z = [buckets |-> z.buckets, first |-> z.first, active |-> z.active, count |-> z.count, total |-> z.total]
  BY <1>2, <1>5 DEF ExpireOld, DroppedTotal
<1>7. /\ z.first \in Indices /\ z.active \in 0..m.active
      /\ \A i \in Active(z) : n + i \in Active(m) /\ Bucket(z, i) = Bucket(m, n + i)
  BY <1>1, <1>3, <1>6, IndexShift
<1>8. /\ Summable(Counts(m), a) /\ Summable(Totals(m), a)
      /\ \A i \in Active(m) : Counts(m)[i] = Bucket(m, i).count /\ Totals(m)[i] = Bucket(m, i).total
  BY <1>1, <1>4, SumsOf
<1>9. \A i \in 0..(a - n - 1) : Counts(z)[i] = Counts(m)[n + i] /\ Totals(z)[i] = Totals(m)[n + i]
  <2>1. Active(z) = 0..(a - n - 1)
    BY <1>4, <1>6 DEF Active
  <2>2. \A i \in Active(z) : Counts(z)[i] = Bucket(z, i).count /\ Totals(z)[i] = Bucket(z, i).total
    BY DEF Counts, Totals, Active
  <2> QED BY <1>7, <1>8, <2>1, <2>2
<1>10. /\ SumFirst(Counts(m), a) = C + SumFirst(Counts(z), a - n)
       /\ SumFirst(Totals(m), a) = D + SumFirst(Totals(z), a - n)
  <2>1. a \in Nat
    BY <1>4
  <2> HIDE DEF ExpireOld
  <2>2. PICK f, g, h, k : f = Counts(m) /\ g = Counts(z) /\ h = Totals(m) /\ k = Totals(z)
    OBVIOUS
  <2>3. /\ n \in 0..a /\ Summable(f, a) /\ Summable(h, a)
        /\ \A j \in 0..(a - n - 1) : g[j] = f[n + j]
        /\ \A j \in 0..(a - n - 1) : k[j] = h[n + j]
    BY <1>4, <1>8, <1>9, <2>2
  <2>4. SumFirst(f, a) = SumFirst(f, n) + SumFirst(g, a - n)
    BY <2>1, <2>3, SumSplit
  <2>5. SumFirst(h, a) = SumFirst(h, n) + SumFirst(k, a - n)
    BY <2>1, <2>3, SumSplit
  <2> QED BY <1>5, <2>2, <2>4, <2>5
<1>11. PICK b \in Nat : b = a - n
  BY <1>4
<1>12. \A i \in 0..(b - 1) : Counts(z)[i] \in Nat /\ Counts(z)[i] > 0 /\ Totals(z)[i] \in Int
  <2>1. \A i \in 0..(b - 1) : n + i \in Active(m) /\ Counts(z)[i] = Bucket(m, n + i).count /\ Totals(z)[i] = Bucket(m, n + i).total
    BY <1>4, <1>8, <1>9, <1>11 DEF Active
  <2>2. \A j \in Active(m) : Bucket(m, j).count \in Nat /\ Bucket(m, j).count > 0 /\ Bucket(m, j).total \in Int
    BY <1>1, BucketFacts DEF NoneEmpty, BucketRecs
  <2> QED BY <2>1, <2>2
<1>13. SumFirst(Counts(z), b) \in Nat /\ SumFirst(Counts(z), b) >= b /\ SumFirst(Totals(z), b) \in Int
  <2>1. Summable(Totals(z), b)
    BY <1>12 DEF Summable
  <2> QED BY <2>1, <1>12, SumPositive, SumInt
<1>14. C \in Int /\ D \in Int
  <2>1. Summable(Counts(m), n) /\ Summable(Totals(m), n) /\ n \in Nat
    BY <1>4, <1>8 DEF Summable
  <2> QED BY <1>5, <2>1, SumInt
<1>15. m.count = SumFirst(Counts(m), a) /\ m.total = SumFirst(Totals(m), a)
  BY <1>1, <1>4 DEF BalancedIn
<1>16. z.count = SumFirst(Counts(z), b) /\ z.total = SumFirst(Totals(z), b)
  <2>1. z.count = SumFirst(Counts(z), b) /\ m.total - D = SumFirst(Totals(z), b)
    BY <1>6, <1>10, <1>11, <1>13, <1>14, <1>15
  <2>2. CASE z.count = 0
    <3>1. b = 0
      BY <1>13, <2>1, <2>2
    <3>2. SumFirst(Totals(z), 0) = 0
      BY SumZero
    <3> QED BY <1>6, <2>1, <2>2, <3>1, <3>2
  <2>3. CASE z.count # 0
    BY <1>6, <2>1, <2>3
  <2> QED BY <2>2, <2>3
<1>17. z \in Counters
  <2>1. z.buckets \in [Indices -> BucketRecs] /\ z.active \in 0..NumBuckets /\ z.total \in Int /\ z.count \in Nat
    <3>1. z.buckets \in [Indices -> BucketRecs]
      BY <1>1, <1>6, BucketFacts
    <3>2. z.active \in 0..NumBuckets
      BY <1>4, <1>7, BucketSizes
    <3> QED BY <1>13, <1>16, <3>1, <3>2
  <2> QED BY <1>6, <1>7, <2>1 DEF Counters
<1>18. ApartIn(z)
  <2>1. \A i \in Active(z) : Bucket(z, i).startTime % BucketPeriod = 0
    BY <1>1, <1>7 DEF ApartIn
  <2>2. ASSUME NEW i \in Active(z), NEW j \in Active(z), i < j
        PROVE  Bucket(z, j).startTime >= Bucket(z, i).startTime + (j - i) * BucketPeriod
    <3>1. n + i \in Active(m) /\ n + j \in Active(m) /\ n + i < n + j /\ (n + j) - (n + i) = j - i
      BY <1>4, <1>7, <2>2 DEF Active
    <3>2. Bucket(m, n + j).startTime >= Bucket(m, n + i).startTime + ((n + j) - (n + i)) * BucketPeriod
      BY <1>1, <3>1 DEF ApartIn
    <3> QED BY <1>7, <3>1, <3>2
  <2> QED BY <2>1, <2>2 DEF ApartIn
<1>19. NoneEmpty(z)
  BY <1>1, <1>7 DEF NoneEmpty
<1>20. BalancedIn(z)
  BY <1>4, <1>6, <1>11, <1>16 DEF BalancedIn
<1>21. ~ExpireOldPanics(z)
  <2>1. b = 0 => SumFirst(Counts(z), b) = 0
    BY SumZero
  <2> QED BY <1>4, <1>6, <1>11, <1>16, <2>1 DEF ExpireOldPanics
<1>22. z.active > 0 => ~Old(Bucket(z, 0), t)
  <2> SUFFICES ASSUME z.active > 0 PROVE ~Old(Bucket(z, 0), t)
    OBVIOUS
  <2>1. 0 \in Active(z) /\ n + 0 = n /\ n < m.active
    BY <1>4, <1>6 DEF Active
  <2> QED BY <1>3, <1>7, <2>1
<1> QED BY <1>3, <1>6, <1>7, <1>17, <1>18, <1>19, <1>20, <1>21, <1>22 DEF GoodCounter, Expired

LEMMA AddToBucketIs ==
  ASSUME NEW b \in BucketRecs, NEW v \in Int, NEW c, c = AddToBucket(b, v)
  PROVE  /\ c \in BucketRecs /\ c.startTime = b.startTime /\ c.count = b.count + 1
         /\ b.count = 0 => c.total = v /\ c.min = v /\ c.max = v
         /\ b.count # 0 => c.total = b.total + v /\ c.min = Lesser(b.min, v) /\ c.max = Greater(b.max, v)
<1>1. b.count \in Nat /\ b.total \in Int /\ b.min \in Int /\ b.max \in Int /\ b.startTime \in Times
  BY DEF BucketRecs
<1>2. CASE b.count = 0
  <2>1. PICK s \in Nat : s = 1
    OBVIOUS
  <2>2. c = [b EXCEPT !.total = v, !.min = v, !.max = v, !.count = s]
    BY <1>2, <2>1 DEF AddToBucket
  <2>3. c.startTime = b.startTime /\ c.count = s /\ c.total = v /\ c.min = v /\ c.max = v /\ c \in BucketRecs
    BY <1>1, <2>2 DEF BucketRecs
  <2> QED BY <1>2, <2>1, <2>3
<1>3. CASE b.count # 0
  <2>1. PICK p, q, r, s : p = b.total + v /\ q = Lesser(b.min, v) /\ r = Greater(b.max, v) /\ s = b.count + 1
    OBVIOUS
  <2>2. p \in Int /\ q \in Int /\ r \in Int /\ s \in Nat
    BY <1>1, <2>1 DEF Lesser, Greater
  <2>3. c = [b EXCEPT !.total = p, !.min = q, !.max = r, !.count = s]
    BY <1>3, <2>1 DEF AddToBucket
  <2>4. c.startTime = b.startTime /\ c.count = s /\ c.total = p /\ c.min = q /\ c.max = r /\ c \in BucketRecs
    BY <1>1, <2>2, <2>3 DEF BucketRecs
  <2> QED BY <1>3, <2>1, <2>4
<1> QED BY <1>2, <1>3

LEMMA AddToLastIs ==
  ASSUME NEW m \in Counters, m.active > 0, NEW v \in Int, NEW z, z = AddToLast(m, v)
  PROVE  /\ z \in Counters /\ z.active = m.active /\ z.count = m.count + 1 /\ z.total = m.total + v
         /\ \A i \in 0..(m.active - 2) : Bucket(z, i) = Bucket(m, i)
         /\ Bucket(z, m.active - 1) = AddToBucket(Bucket(m, m.active - 1), v)
<1>1. PICK a, x, c : a = m.active /\ x = Index(m, a - 1) /\ c = AddToBucket(m.buckets[x], v)
  OBVIOUS
<1>2. a \in 1..NumBuckets /\ m.first \in Indices /\ m.buckets \in [Indices -> BucketRecs] /\ a - 1 \in Indices
      /\ m.total \in Int /\ m.count \in Nat /\ a \in 0..NumBuckets
  BY <1>1, BucketFacts, BucketSizes DEF Indices
<1>3. x \in Indices /\ m.buckets[x] = Bucket(m, a - 1)
  BY <1>1, <1>2, IndexFacts DEF Bucket
<1>4. c \in BucketRecs
  BY <1>1, <1>2, <1>3, AddToBucketIs
<1>5. z = [m EXCEPT !.buckets = [m.buckets EXCEPT ![x] = c], !.total = m.total + v, !.count = m.count + 1]
  BY <1>1 DEF AddToLast, Counters
<1>6. PICK B : B = [m.buckets EXCEPT ![x] = c]
  OBVIOUS
<1>7. B \in [Indices -> BucketRecs] /\ B[x] = c /\ \A y \in Indices : y # x => B[y] = m.buckets[y]
  BY <1>2, <1>3, <1>4, <1>6
<1>8. z.buckets = B /\ z.first = m.first /\ z.active = a /\ z.total = m.total + v /\ z.count = m.count + 1
      /\ z \in Counters
  <2>1. PICK p, q : p = m.total + v /\ q = m.count + 1
    OBVIOUS
  <2>2. p \in Int /\ q \in Nat
    BY <1>2, <2>1
  <2>3. z = [m EXCEPT !.buckets = B, !.total = p, !.count = q]
    BY <1>5, <1>6, <2>1
  <2> QED BY <1>1, <1>2, <1>7, <2>1, <2>2, <2>3 DEF Counters
<1>9. \A i : Index(z, i) = Index(m, i)
  BY <1>8 DEF Index
<1>10. Bucket(z, a - 1) = AddToBucket(Bucket(m, a - 1), v)
  BY <1>1, <1>3, <1>7, <1>8, <1>9 DEF Bucket
<1>11. ASSUME NEW i \in 0..(a - 2) PROVE Bucket(z, i) = Bucket(m, i)
  <2>1. i \in Indices /\ i # a - 1
    BY <1>2, BucketSizes DEF Indices
  <2>2. Index(m, i) \in Indices /\ Index(m, i) # x
    BY <1>1, <1>2, <2>1, IndexFacts
  <2> QED BY <1>7, <1>8, <1>9, <2>2 DEF Bucket
<1> QED BY <1>1, <1>8, <1>10, <1>11

LEMMA PushBucketIs ==
  ASSUME NEW m \in Counters, m.active < NumBuckets, NEW t \in Times, NEW z, z = PushBucket(m, t)
  PROVE  /\ z \in Counters /\ z.active = m.active + 1 /\ z.count = m.count /\ z.total = m.total
         /\ \A i \in Active(m) : Bucket(z, i) = Bucket(m, i)
         /\ Bucket(z, m.active) = Empty(Aligned(t))
<1>1. PICK a, x, c : a = m.active /\ x = Index(m, a) /\ c = Empty(Aligned(t))
  OBVIOUS
<1>2. a \in 0..(NumBuckets - 1) /\ m.first \in Indices /\ m.buckets \in [Indices -> BucketRecs] /\ a \in Indices
      /\ m.total \in Int /\ m.count \in Nat /\ a + 1 \in 0..NumBuckets
  BY <1>1, BucketFacts, BucketSizes DEF Indices
<1>3. x \in Indices
  BY <1>1, <1>2, IndexFacts
<1>4. c \in BucketRecs
  <2>1. MaxTime \in Nat /\ t \in Nat
    BY BoundsAssumption DEF Times
  <2>2. Aligned(t) \in Times
    BY <2>1, AlignedFacts DEF Times
  <2> QED BY <1>1, <2>2 DEF Empty, BucketRecs
<1>5. z = [m EXCEPT !.active = a + 1, !.buckets = [m.buckets EXCEPT ![x] = c]]
  BY <1>1 DEF PushBucket, Counters
<1>6. PICK B : B = [m.buckets EXCEPT ![x] = c]
  OBVIOUS
<1>7. B \in [Indices -> BucketRecs] /\ B[x] = c /\ \A y \in Indices : y # x => B[y] = m.buckets[y]
  BY <1>2, <1>3, <1>4, <1>6
<1>8. z.buckets = B /\ z.first = m.first /\ z.active = a + 1 /\ z.total = m.total /\ z.count = m.count
      /\ z \in Counters
  BY <1>1, <1>2, <1>5, <1>6, <1>7 DEF Counters
<1>9. \A i : Index(z, i) = Index(m, i)
  BY <1>8 DEF Index
<1>10. Bucket(z, a) = Empty(Aligned(t))
  BY <1>1, <1>7, <1>8, <1>9 DEF Bucket
<1>11. ASSUME NEW i \in Active(m) PROVE Bucket(z, i) = Bucket(m, i)
  <2>1. i \in Indices /\ i # a
    BY <1>1, <1>2, BucketSizes DEF Indices, Active
  <2>2. Index(m, i) \in Indices /\ Index(m, i) # x
    BY <1>1, <1>2, <2>1, IndexFacts
  <2> QED BY <1>7, <1>8, <1>9, <2>2 DEF Bucket
<1> QED BY <1>1, <1>8, <1>10, <1>11

\* What is added to the last value, or as a new last value, is added to the sum.
LEMMA SumLast ==
  ASSUME NEW n \in Nat, NEW f, NEW g, NEW d \in Int, Summable(f, n + 1),
         \A j \in 0..(n - 1) : g[j] = f[j], g[n] = f[n] + d
  PROVE  SumFirst(g, n + 1) = SumFirst(f, n + 1) + d
<1>1. Summable(g, n + 1)
  BY DEF Summable
<1>2. Summable(f, n) /\ f[n] \in Int /\ SumFirst(f, n) \in Int /\ SumFirst(f, n + 1) = SumFirst(f, n) + f[n]
  BY SumStep
<1>3. SumFirst(g, n + 1) = SumFirst(g, n) + g[n]
  BY <1>1, SumStep
<1>4. SumFirst(g, n) = SumFirst(f, n)
  BY <1>2, SumSame
<1> QED BY <1>2, <1>3, <1>4

LEMMA SumNew ==
  ASSUME NEW n \in Nat, NEW f, NEW g, NEW d \in Int, Summable(f, n),
         \A j \in 0..(n - 1) : g[j] = f[j], g[n] = d
  PROVE  SumFirst(g, n + 1) = SumFirst(f, n) + d
<1>1. Summable(g, n + 1)
  BY DEF Summable
<1>2. SumFirst(g, n + 1) = SumFirst(g, n) + g[n]
  BY <1>1, SumStep
<1>3. SumFirst(g, n) = SumFirst(f, n)
  BY SumSame
<1> QED BY <1>2, <1>3

\* One of the values grows.
LEMMA SumAt ==
  ASSUME NEW n \in Nat, NEW i \in 0..(n - 1), NEW f, NEW g, NEW d \in Int, Summable(f, n),
         \A j \in 0..(n - 1) : g[j] = IF j = i THEN f[j] + d ELSE f[j]
  PROVE  SumFirst(g, n) = SumFirst(f, n) + d
<1>1. PICK P : IsSum(P, f, n)
  BY SumExists
<1>2. PICK Q : Q = [k \in 0..n |-> IF k <= i THEN P[k] ELSE P[k] + d]
  OBVIOUS
<1>3. Summable(g, n) /\ P \in [0..n -> Int] /\ P[0] = 0
  <2>1. P \in [0..n -> Int] /\ P[0] = 0
    BY <1>1 DEF IsSum
  <2>2. ASSUME NEW j \in 0..(n - 1) PROVE g[j] \in Int
    <3>1. f[j] \in Int
      BY DEF Summable
    <3> QED BY <3>1
  <2> QED BY <2>1, <2>2 DEF Summable
<1>4. Q \in [0..n -> Int] /\ Q[0] = 0 /\ Q[n] = P[n] + d
  BY <1>2, <1>3
<1>5. ASSUME NEW j \in 1..n PROVE Q[j] = Q[j - 1] + g[j - 1]
  <2>1. j \in 0..n /\ j - 1 \in 0..n /\ j - 1 \in 0..(n - 1)
    OBVIOUS
  <2>2. P[j] = P[j - 1] + f[j - 1] /\ P[j] \in Int /\ P[j - 1] \in Int /\ f[j - 1] \in Int
    BY <1>1, <1>3, <2>1 DEF IsSum, Summable
  <2>3. /\ Q[j] = IF j <= i THEN P[j] ELSE P[j] + d
        /\ Q[j - 1] = IF j - 1 <= i THEN P[j - 1] ELSE P[j - 1] + d
        /\ g[j - 1] = IF j - 1 = i THEN f[j - 1] + d ELSE f[j - 1]
    BY <1>2, <2>1
  <2> QED BY <2>2, <2>3
<1>6. IsSum(Q, g, n)
  BY <1>4, <1>5 DEF IsSum
<1> QED BY <1>1, <1>3, <1>4, <1>6, SumIs

\* Add to the last bucket.
LEMMA AddInLast ==
  ASSUME NEW m, GoodCounter(m), m.active > 0, NEW v \in Int, NEW z, z = AddToLast(m, v)
  PROVE  GoodCounter(z)
<1>1. m \in Counters /\ ApartIn(m) /\ BalancedIn(m) /\ NoneEmpty(m)
  BY DEF GoodCounter
<1>2. PICK n \in Nat : m.active = n + 1 /\ n \in Active(m)
  <2>1. m.active \in Nat /\ m.active - 1 \in Nat
    BY <1>1, BucketFacts
  <2> QED BY <2>1 DEF Active
<1>3. PICK b, c : b = Bucket(m, n) /\ c = AddToBucket(b, v)
  OBVIOUS
<1>4. /\ z \in Counters /\ z.active = n + 1 /\ z.count = m.count + 1 /\ z.total = m.total + v
      /\ \A i \in 0..(n - 1) : Bucket(z, i) = Bucket(m, i)
      /\ Bucket(z, n) = c
  <2>1. m.active - 1 = n /\ m.active - 2 = n - 1
    BY <1>2
  <2> QED BY <1>1, <1>2, <1>3, <2>1, AddToLastIs
<1>5. b \in BucketRecs /\ b.count \in Nat /\ b.total \in Int /\ b.count > 0
  <2>1. b \in BucketRecs /\ b.count > 0
    BY <1>1, <1>2, <1>3, BucketFacts DEF NoneEmpty
  <2> QED BY <2>1 DEF BucketRecs
<1>6. c.startTime = b.startTime /\ c.count = b.count + 1 /\ c.total = b.total + v
  <2>1. b \in BucketRecs /\ b.count # 0 /\ c = AddToBucket(b, v)
    BY <1>3, <1>5
  <2>2. c.startTime = b.startTime /\ c.count = b.count + 1
    BY <2>1, AddToBucketIs
  <2>3. c.total = b.total + v
    BY <2>1, AddToBucketIs
  <2> QED BY <2>2, <2>3
<1>7. Active(z) = Active(m) /\ \A i \in Active(m) : i \in 0..(n - 1) \/ i = n
  BY <1>2, <1>4 DEF Active
<1>8. \A i \in Active(m) : Bucket(z, i).startTime = Bucket(m, i).startTime
  BY <1>3, <1>4, <1>6, <1>7
<1>9. ApartIn(z)
  BY <1>1, <1>7, <1>8 DEF ApartIn
<1>10. NoneEmpty(z)
  BY <1>1, <1>3, <1>4, <1>5, <1>6, <1>7 DEF NoneEmpty
<1>11. BalancedIn(z)
  <2>1. PICK f, g, h, k : f = Counts(m) /\ g = Counts(z) /\ h = Totals(m) /\ k = Totals(z)
    OBVIOUS
  <2>2. Summable(f, n + 1) /\ Summable(h, n + 1)
    BY <1>1, <1>2, <2>1, SumsOf
  <2>3. /\ \A i \in Active(m) : f[i] = Bucket(m, i).count /\ h[i] = Bucket(m, i).total
        /\ \A i \in Active(m) : g[i] = Bucket(z, i).count /\ k[i] = Bucket(z, i).total
    BY <1>1, <1>4, <1>7, <2>1, SumsOf
  <2>4. \A i \in 0..(n - 1) : i \in Active(m)
    BY <1>2 DEF Active
  <2>5. /\ \A j \in 0..(n - 1) : g[j] = f[j] /\ k[j] = h[j]
        /\ g[n] = f[n] + 1 /\ k[n] = h[n] + v
    BY <1>2, <1>3, <1>4, <1>6, <2>3, <2>4
  <2>6. SumFirst(g, n + 1) = SumFirst(f, n + 1) + 1
    BY <2>2, <2>5, SumLast
  <2>7. SumFirst(k, n + 1) = SumFirst(h, n + 1) + v
    BY <2>2, <2>5, SumLast
  <2> QED BY <1>1, <1>2, <1>4, <2>1, <2>6, <2>7 DEF BalancedIn
<1> QED BY <1>4, <1>9, <1>10, <1>11 DEF GoodCounter

\* Add to a new bucket.
LEMMA AddInNew ==
  ASSUME NEW m, GoodCounter(m), m.active < NumBuckets, NEW v \in Int, NEW t \in Times,
         m.active > 0 => LastBucket(m).startTime + BucketPeriod <= t,
         NEW z, z = AddToLast(PushBucket(m, t), v)
  PROVE  /\ GoodCounter(z) /\ z.active = m.active + 1
         /\ \A i \in Active(m) : Bucket(z, i) = Bucket(m, i) /\ Bucket(m, i).startTime + BucketPeriod <= Aligned(t)
         /\ LET c == Bucket(z, m.active)
            IN  c.startTime = Aligned(t) /\ c.count = 1 /\ c.total = v /\ c.min = v /\ c.max = v
<1>1. m \in Counters /\ ApartIn(m) /\ BalancedIn(m) /\ NoneEmpty(m)
  BY DEF GoodCounter
<1>2. PICK n \in Nat : m.active = n
  BY <1>1, BucketFacts
<1>3. PICK p, e, s, c : p = PushBucket(m, t) /\ s = Aligned(t) /\ e = Empty(s) /\ c = AddToBucket(e, v)
  OBVIOUS
<1>4. /\ p \in Counters /\ p.active = n + 1 /\ p.count = m.count /\ p.total = m.total
      /\ \A i \in Active(m) : Bucket(p, i) = Bucket(m, i)
      /\ Bucket(p, n) = e
  BY <1>1, <1>2, <1>3, PushBucketIs
<1>5. /\ z \in Counters /\ z.active = n + 1 /\ z.count = m.count + 1 /\ z.total = m.total + v
      /\ \A i \in 0..(n - 1) : Bucket(z, i) = Bucket(p, i)
      /\ Bucket(z, n) = c
  <2>1. p.active - 1 = n /\ p.active - 2 = n - 1 /\ p.active > 0 /\ z = AddToLast(p, v)
    BY <1>3, <1>4
  <2> QED BY <1>3, <1>4, <2>1, AddToLastIs
<1>6. Active(m) = 0..(n - 1) /\ Active(z) = 0..n
  BY <1>2, <1>5 DEF Active
<1>7. \A i \in Active(m) : Bucket(z, i) = Bucket(m, i)
  BY <1>4, <1>5, <1>6
<1>8. c.startTime = s /\ c.count = 1 /\ c.total = v /\ c.min = v /\ c.max = v
  <2>1. n \in Indices
    BY <1>2, BucketSizes DEF Indices
  <2>2. e \in BucketRecs
    BY <1>4, <2>1, BucketFacts
  <2>3. e.count = 0 /\ e.startTime = s
    BY <1>3 DEF Empty
  <2>4. c = AddToBucket(e, v)
    BY <1>3
  <2>5. /\ c.startTime = e.startTime /\ c.count = e.count + 1
        /\ e.count = 0 => c.total = v /\ c.min = v /\ c.max = v
    BY <2>2, <2>4, AddToBucketIs
  <2> QED BY <2>3, <2>5
<1>9. s \in Nat /\ s % BucketPeriod = 0
      /\ \A x \in Nat : x % BucketPeriod = 0 /\ x + BucketPeriod <= t => x + BucketPeriod <= s
  <2>1. t \in Nat
    BY BoundsAssumption DEF Times
  <2> QED BY <1>3, <2>1, AlignedFacts
<1>10. \A i \in Active(m) : Bucket(m, i).startTime \in Nat
  BY <1>1, BucketFacts, BoundsAssumption DEF BucketRecs, Times
<1>11. ASSUME NEW i \in Active(m) PROVE Bucket(m, i).startTime + (n - i) * BucketPeriod <= s
  <2>1. n > 0 /\ n - 1 \in Active(m) /\ i <= n - 1 /\ i \in Nat
    BY <1>2, <1>6
  <2>2. PICK x \in Nat, y \in Nat : x = Bucket(m, i).startTime /\ y = Bucket(m, n - 1).startTime
    BY <1>10, <2>1
  <2>3. y % BucketPeriod = 0 /\ y + BucketPeriod <= t
    BY <1>1, <1>2, <2>1, <2>2 DEF ApartIn, LastBucket
  <2>4. y + BucketPeriod <= s
    BY <1>9, <2>3
  <2>5. CASE i = n - 1
    BY <1>2, <2>1, <2>2, <2>4, <2>5, BucketSizes
  <2>6. CASE i < n - 1
    <3>1. y >= x + ((n - 1) - i) * BucketPeriod
      BY <1>1, <2>1, <2>2, <2>6 DEF ApartIn
    <3>2. ((n - 1) - i) * BucketPeriod + BucketPeriod = (n - i) * BucketPeriod /\ ((n - 1) - i) * BucketPeriod \in Int
      BY <1>2, <2>1, BucketSizes
    <3> QED BY <1>9, <2>2, <2>4, <3>1, <3>2, BucketSizes
  <2> QED BY <2>1, <2>5, <2>6
<1>12. \A i \in Active(m) : Bucket(m, i).startTime + BucketPeriod <= s
  <2> TAKE i \in Active(m)
  <2>1. PICK d \in Nat : n - i = d + 1 /\ (n - i) * BucketPeriod = d * BucketPeriod + BucketPeriod /\ d * BucketPeriod \in Nat
    <3>1. PICK d \in Nat : n - i = d + 1
      <4>1. (n - i) - 1 \in Nat /\ n - i = ((n - i) - 1) + 1
        BY <1>6
      <4> QED BY <4>1
    <3>2. (d + 1) * BucketPeriod = d * BucketPeriod + BucketPeriod /\ d * BucketPeriod \in Nat
      BY <3>1, BucketSizes
    <3> QED BY <3>1, <3>2
  <2> QED BY <1>9, <1>10, <1>11, <2>1, BucketSizes
<1>13. ApartIn(z)
  <2>1. ASSUME NEW i \in Active(z) PROVE Bucket(z, i).startTime % BucketPeriod = 0
    <3>1. i \in Active(m) \/ i = n
      BY <1>6
    <3> QED BY <1>1, <1>5, <1>7, <1>8, <1>9, <3>1 DEF ApartIn
  <2>2. ASSUME NEW i \in Active(z), NEW j \in Active(z), i < j
        PROVE  Bucket(z, j).startTime >= Bucket(z, i).startTime + (j - i) * BucketPeriod
    <3>1. i \in Active(m) /\ (j \in Active(m) \/ j = n)
      BY <1>6, <2>2
    <3>2. CASE j \in Active(m)
      BY <1>1, <1>7, <2>2, <3>1, <3>2 DEF ApartIn
    <3>3. CASE j = n
      <4>1. Bucket(z, j).startTime = s /\ Bucket(z, i).startTime = Bucket(m, i).startTime
        BY <1>5, <1>7, <1>8, <3>1, <3>3
      <4>2. PICK w \in Int : w = (n - i) * BucketPeriod
        BY <1>6, <3>1, BucketSizes
      <4>3. Bucket(m, i).startTime + w <= s /\ Bucket(m, i).startTime \in Nat
        BY <1>10, <1>11, <3>1, <4>2
      <4> QED BY <1>9, <3>3, <4>1, <4>2, <4>3
    <3> QED BY <3>1, <3>2, <3>3
  <2> QED BY <2>1, <2>2 DEF ApartIn
<1>14. NoneEmpty(z)
  <2>1. \A i \in Active(z) : i \in Active(m) \/ i = n
    BY <1>6
  <2> QED BY <1>1, <1>5, <1>7, <1>8, <2>1 DEF NoneEmpty
<1>15. BalancedIn(z)
  <2>1. PICK f, g, h, k : f = Counts(m) /\ g = Counts(z) /\ h = Totals(m) /\ k = Totals(z)
    OBVIOUS
  <2>2. Summable(f, n) /\ Summable(h, n)
    BY <1>1, <1>2, <2>1, SumsOf
  <2>3. /\ \A i \in Active(m) : f[i] = Bucket(m, i).count /\ h[i] = Bucket(m, i).total
        /\ \A i \in Active(z) : g[i] = Bucket(z, i).count /\ k[i] = Bucket(z, i).total
    BY <1>1, <1>5, <2>1, SumsOf
  <2>4. n \in Active(z) /\ \A i \in 0..(n - 1) : i \in Active(m) /\ i \in Active(z)
    BY <1>6
  <2>5. /\ \A j \in 0..(n - 1) : g[j] = f[j] /\ k[j] = h[j]
        /\ g[n] = 1 /\ k[n] = v
    BY <1>5, <1>7, <1>8, <2>3, <2>4
  <2>6. SumFirst(g, n + 1) = SumFirst(f, n) + 1
    BY <2>2, <2>5, SumNew
  <2>7. SumFirst(k, n + 1) = SumFirst(h, n) + v
    BY <2>2, <2>5, SumNew
  <2> QED BY <1>1, <1>2, <1>5, <2>1, <2>6, <2>7 DEF BalancedIn
<1> QED BY <1>2, <1>3, <1>5, <1>7, <1>8, <1>12, <1>13, <1>14, <1>15 DEF GoodCounter

-----------------------------------------------------------------------------
\* What the buckets have to do with the values that count: the values of the
\* aligned stretch s, and a bucket that sums them up.
Added == [val : Values, at : Times]
KeptOK(h) == DOMAIN h \subseteq 1..MaxAdds /\ \A k \in DOMAIN h : h[k] \in Added
OfStretch(s, h) == {k \in DOMAIN h : Aligned(h[k].at) = s}
ValuesOf(K, h) == [j \in 0..(MaxAdds - 1) |-> IF j + 1 \in K THEN h[j + 1].val ELSE 0]
Bounds(b, h, K) ==
  /\ \E k \in K : h[k].val = b.min
  /\ \A k \in K : b.min <= h[k].val
  /\ \E k \in K : h[k].val = b.max
  /\ \A k \in K : b.max >= h[k].val
SumsUp(b, h, K) ==
  b.count = Cardinality(K) /\ b.total = SumFirst(ValuesOf(K, h), MaxAdds) /\ Bounds(b, h, K)
Holds(b, h) == SumsUp(b, h, OfStretch(b.startTime, h))

\* One more value counts, or only those that have not expired at t still do.
Grown(h, e, g, x) ==
  /\ x \in (1..MaxAdds) \ DOMAIN h /\ DOMAIN g = DOMAIN h \cup {x}
  /\ g[x] = e /\ \A k \in DOMAIN h : g[k] = h[k]
Trimmed(h, t, g) ==
  /\ DOMAIN g = {k \in DOMAIN h : Aligned(h[k].at) > t - Period}
  /\ \A k \in DOMAIN g : g[k] = h[k]

LEMMA AddedFacts ==
  ASSUME NEW e \in Added
  PROVE  e.val \in Int /\ e.val \in Values /\ e.at \in Nat /\ e.at \in Times /\ Aligned(e.at) \in Nat
<1>1. e.val \in Values /\ e.at \in Times
  BY DEF Added
<1>2. e.val \in Int
  BY <1>1, ValuesAssumption
<1>3. e.at \in Nat
  BY <1>1, BoundsAssumption DEF Times
<1> QED BY <1>1, <1>2, <1>3, AlignedFacts

LEMMA HistoryGrows ==
  ASSUME NEW h, KeptOK(h), NEW e \in Added, NEW g, NEW x, Grown(h, e, g, x)
  PROVE  KeptOK(g) /\ x \in 1..MaxAdds /\ x \notin DOMAIN h /\ x \in DOMAIN g
BY DEF Grown, KeptOK

LEMMA StretchFacts ==
  ASSUME NEW h, KeptOK(h), NEW K \in SUBSET DOMAIN h
  PROVE  /\ IsFiniteSet(K) /\ Cardinality(K) \in Nat /\ Summable(ValuesOf(K, h), MaxAdds)
         /\ \A s : OfStretch(s, h) \in SUBSET DOMAIN h
<1>1. MaxAdds \in Nat /\ 1 \in Int /\ MaxAdds \in Int
  BY BoundsAssumption
<1>2. IsFiniteSet(1..MaxAdds) /\ K \in SUBSET (1..MaxAdds)
  BY <1>1, FS_Interval DEF KeptOK
<1>3. IsFiniteSet(K) /\ Cardinality(K) \in Nat
  BY <1>2, FS_Subset, FS_CardinalityType
<1>4. \A k \in K : h[k].val \in Int
  BY AddedFacts DEF KeptOK
<1>5. ASSUME NEW j \in 0..(MaxAdds - 1) PROVE ValuesOf(K, h)[j] \in Int
  BY <1>4 DEF ValuesOf
<1> QED BY <1>3, <1>5 DEF OfStretch, Summable

LEMMA StretchGrows ==
  ASSUME NEW h, KeptOK(h), NEW e \in Added, NEW g, NEW x, Grown(h, e, g, x), NEW s
  PROVE  /\ Aligned(e.at) # s => OfStretch(s, g) = OfStretch(s, h)
         /\ Aligned(e.at) = s => OfStretch(s, g) = OfStretch(s, h) \cup {x}
BY DEF Grown, OfStretch

LEMMA SumGrows ==
  ASSUME NEW h, KeptOK(h), NEW e \in Added, NEW g, NEW x, Grown(h, e, g, x), NEW K \in SUBSET DOMAIN h, NEW L
  PROVE  /\ L = K => SumFirst(ValuesOf(L, g), MaxAdds) = SumFirst(ValuesOf(K, h), MaxAdds)
         /\ L = K \cup {x} => SumFirst(ValuesOf(L, g), MaxAdds) = SumFirst(ValuesOf(K, h), MaxAdds) + e.val
<1>1. PICK n \in Nat : n = MaxAdds
  BY BoundsAssumption
<1>2. x \in 1..n /\ x \notin K /\ g[x] = e /\ \A k \in K : g[k] = h[k]
  BY <1>1 DEF Grown
<1>3. e.val \in Int
  BY AddedFacts
<1>4. PICK f, f2 : f = ValuesOf(K, h) /\ f2 = ValuesOf(L, g)
  OBVIOUS
<1>5. Summable(f, n)
  BY <1>1, <1>4, StretchFacts
<1>6. \A j \in 0..(n - 1) : /\ f2[j] = IF j + 1 \in L THEN g[j + 1].val ELSE 0
                            /\ f[j] = IF j + 1 \in K THEN h[j + 1].val ELSE 0
  BY <1>1, <1>4 DEF ValuesOf
<1>7. CASE L = K
  <2>1. \A j \in 0..(n - 1) : f2[j] = f[j]
    BY <1>2, <1>6, <1>7
  <2>2. SumFirst(f2, n) = SumFirst(f, n)
    BY <1>5, <2>1, SumSame
  <2> QED BY <1>1, <1>2, <1>4, <1>7, <2>2
<1>8. CASE L = K \cup {x}
  <2>1. PICK i \in 0..(n - 1) : i + 1 = x
    <3>1. x - 1 \in 0..(n - 1) /\ (x - 1) + 1 = x
      BY <1>2
    <3> QED BY <3>1
  <2>2. ASSUME NEW j \in 0..(n - 1) PROVE f2[j] = IF j = i THEN f[j] + e.val ELSE f[j]
    <3>1. CASE j = i
      <4>1. f2[j] = e.val /\ f[j] = 0
        BY <1>2, <1>6, <1>8, <2>1, <3>1
      <4> QED BY <1>3, <3>1, <4>1
    <3>2. CASE j # i
      <4>1. j + 1 # x /\ (j + 1 \in L <=> j + 1 \in K)
        BY <1>8, <2>1, <3>2
      <4> QED BY <1>2, <1>6, <3>2, <4>1
    <3> QED BY <3>1, <3>2
  <2>3. SumFirst(f2, n) = SumFirst(f, n) + e.val
    BY <1>3, <1>5, <2>2, SumAt
  <2> QED BY <1>1, <1>2, <1>4, <1>8, <2>3
<1> QED BY <1>7, <1>8

\* A bucket that has not expired still sums up its stretch.
LEMMA HoldsTrimmed ==
  ASSUME NEW h, KeptOK(h), NEW t, NEW g, Trimmed(h, t, g), NEW b, Holds(b, h), b.startTime > t - Period
  PROVE  Holds(b, g)
<1>1. PICK K : K = OfStretch(b.startTime, h)
  OBVIOUS
<1>2. OfStretch(b.startTime, g) = K /\ K \in SUBSET DOMAIN h /\ \A k \in K : g[k] = h[k]
  BY <1>1 DEF Trimmed, OfStretch
<1>3. PICK n, f, f2 : n = MaxAdds /\ f = ValuesOf(K, h) /\ f2 = ValuesOf(K, g)
  OBVIOUS
<1>6. n \in Nat
  BY <1>3, BoundsAssumption
<1>4. Summable(f, n) /\ \A j \in 0..(n - 1) : f2[j] = f[j]
  BY <1>2, <1>3, StretchFacts DEF ValuesOf
<1>5. SumFirst(f2, n) = SumFirst(f, n)
  BY <1>4, <1>6, SumSame
<1> QED BY <1>1, <1>2, <1>3, <1>5 DEF Holds, SumsUp, Bounds

\* A value of another stretch leaves the bucket's sums true.
LEMMA HoldsStill ==
  ASSUME NEW h, KeptOK(h), NEW e \in Added, NEW g, NEW x, Grown(h, e, g, x), NEW b \in BucketRecs,
         Holds(b, h), Aligned(e.at) # b.startTime
  PROVE  Holds(b, g)
<1>1. PICK s, K : s = b.startTime /\ K = OfStretch(s, h)
  OBVIOUS
<1>2. K \in SUBSET DOMAIN h /\ OfStretch(b.startTime, g) = K
  <2>1. K \in SUBSET DOMAIN h
    BY <1>1 DEF OfStretch
  <2>2. OfStretch(s, g) = OfStretch(s, h)
    BY <1>1, StretchGrows
  <2> QED BY <1>1, <2>1, <2>2
<1>3. SumFirst(ValuesOf(K, g), MaxAdds) = SumFirst(ValuesOf(K, h), MaxAdds)
  <2>1. PICK L : L = K
    OBVIOUS
  <2>2. SumFirst(ValuesOf(L, g), MaxAdds) = SumFirst(ValuesOf(K, h), MaxAdds)
    BY <1>2, <2>1, SumGrows
  <2> QED BY <2>1, <2>2
<1>4. \A k \in K : g[k] = h[k]
  BY <1>2 DEF Grown
<1> QED BY <1>1, <1>2, <1>3, <1>4 DEF Holds, SumsUp, Bounds

\* A value of the bucket's stretch is added to it.
LEMMA HoldsMore ==
  ASSUME NEW h, KeptOK(h), NEW e \in Added, NEW g, NEW x, Grown(h, e, g, x), NEW b \in BucketRecs,
         Holds(b, h), Aligned(e.at) = b.startTime, b.count > 0, NEW c, c = AddToBucket(b, e.val)
  PROVE  Holds(c, g)
<1>1. PICK s, K, L : s = b.startTime /\ K = OfStretch(s, h) /\ L = K \cup {x}
  OBVIOUS
<1>2. K \in SUBSET DOMAIN h /\ OfStretch(b.startTime, g) = L
  <2>1. K \in SUBSET DOMAIN h
    BY <1>1 DEF OfStretch
  <2>2. OfStretch(s, g) = OfStretch(s, h) \cup {x}
    BY <1>1, StretchGrows
  <2> QED BY <1>1, <2>1, <2>2
<1>3. SumFirst(ValuesOf(L, g), MaxAdds) = SumFirst(ValuesOf(K, h), MaxAdds) + e.val
  <2>1. K \in SUBSET DOMAIN h /\ L = K \cup {x}
    BY <1>1, <1>2
  <2>2. SumFirst(ValuesOf(L, g), MaxAdds) = SumFirst(ValuesOf(K, h), MaxAdds) + e.val
    BY <2>1, SumGrows
  <2> QED BY <1>1, <2>2
<1>4. (\A k \in K : g[k] = h[k] /\ h[k].val \in Int) /\ g[x] = e
  BY <1>1, <1>2, AddedFacts DEF Grown, KeptOK
<1>5. IsFiniteSet(K) /\ Cardinality(L) = Cardinality(K) + 1
  <2>1. IsFiniteSet(K)
    BY <1>1, <1>2, StretchFacts
  <2>2. x \notin K
    BY <1>2 DEF Grown
  <2> QED BY <1>1, <2>1, <2>2, FS_AddElement
<1>6. e.val \in Int /\ b.count # 0 /\ b.min \in Int /\ b.max \in Int /\ b.count \in Nat
  BY AddedFacts DEF BucketRecs
<1>7. c.startTime = b.startTime /\ c.count = b.count + 1
  BY <1>6, AddToBucketIs
<1>8. c.total = b.total + e.val /\ c.min = Lesser(b.min, e.val) /\ c.max = Greater(b.max, e.val)
  BY <1>6, AddToBucketIs
<1>9. b.count = Cardinality(K) /\ b.total = SumFirst(ValuesOf(K, h), MaxAdds) /\ Bounds(b, h, K)
  BY <1>1 DEF Holds, SumsUp
<1>10. Bounds(c, g, L)
  <2>1. \E k \in L : g[k].val = c.min
    BY <1>1, <1>4, <1>8, <1>9 DEF Bounds, Lesser
  <2>2. \E k \in L : g[k].val = c.max
    BY <1>1, <1>4, <1>8, <1>9 DEF Bounds, Greater
  <2>3. c.min <= e.val /\ c.min <= b.min /\ c.max >= e.val /\ c.max >= b.max /\ c.min \in Int /\ c.max \in Int
    BY <1>6, <1>8 DEF Lesser, Greater
  <2>4. ASSUME NEW k \in L PROVE c.min <= g[k].val /\ c.max >= g[k].val
    <3>1. CASE k = x
      BY <1>4, <2>3, <3>1
    <3>2. CASE k \in K
      <4>1. b.min <= h[k].val /\ b.max >= h[k].val /\ g[k].val = h[k].val /\ h[k].val \in Int
        BY <1>4, <1>9, <3>2 DEF Bounds
      <4> QED BY <1>6, <2>3, <4>1
    <3> QED BY <1>1, <3>1, <3>2
  <2> QED BY <2>1, <2>2, <2>4 DEF Bounds
<1>11. c.count = Cardinality(L) /\ c.total = SumFirst(ValuesOf(L, g), MaxAdds)
  BY <1>3, <1>5, <1>7, <1>8, <1>9
<1> QED BY <1>2, <1>7, <1>10, <1>11 DEF Holds, SumsUp

\* The first value of its stretch.
LEMMA HoldsFirst ==
  ASSUME NEW h, KeptOK(h), NEW e \in Added, NEW g, NEW x, Grown(h, e, g, x), NEW c,
         c.startTime = Aligned(e.at), c.count = 1, c.total = e.val, c.min = e.val, c.max = e.val,
         OfStretch(c.startTime, h) = {}
  PROVE  Holds(c, g)
<1>1. PICK s, K, L : s = c.startTime /\ K = {} /\ L = {x}
  OBVIOUS
<1>2. OfStretch(c.startTime, g) = L
  <2>1. OfStretch(s, g) = OfStretch(s, h) \cup {x}
    BY <1>1, StretchGrows
  <2> QED BY <1>1, <2>1
<1>3. SumFirst(ValuesOf(L, g), MaxAdds) = SumFirst(ValuesOf(K, h), MaxAdds) + e.val
  <2>1. K \in SUBSET DOMAIN h /\ L = K \cup {x}
    BY <1>1
  <2>2. SumFirst(ValuesOf(L, g), MaxAdds) = SumFirst(ValuesOf(K, h), MaxAdds) + e.val
    BY <2>1, SumGrows
  <2> QED BY <1>1, <2>2
<1>4. SumFirst(ValuesOf(K, h), MaxAdds) = 0
  <2>1. PICK f : f = ValuesOf(K, h)
    OBVIOUS
  <2>2. \A j \in 0..(MaxAdds - 1) : f[j] = 0
    BY <1>1, <2>1 DEF ValuesOf
  <2> QED BY <1>1, <2>1, <2>2, BoundsAssumption, SumNone
<1>5. Cardinality(L) = 1 /\ e.val \in Int /\ g[x] = e
  BY <1>1, FS_Singleton, AddedFacts DEF Grown
<1> QED BY <1>1, <1>2, <1>3, <1>4, <1>5 DEF Holds, SumsUp, Bounds

-----------------------------------------------------------------------------
\* Every active bucket sums up the values of its stretch that count, and every
\* value that counts is in an active bucket.
InSome(m, s) == \E i \in Active(m) : Bucket(m, i).startTime = s
Tracked(m, h) ==
  /\ \A i \in Active(m) : Holds(Bucket(m, i), h)
  /\ \A k \in DOMAIN h : InSome(m, Aligned(h[k].at))

CounterIInv ==
  /\ GoodCounter(mc) /\ now \in Times /\ KeptOK(kept)
  /\ panicked = FALSE /\ monotone \in BOOLEAN
  /\ Tracked(mc, kept) /\ NoneLate

\* A bucket that starts no later than the first active one is the only one of its
\* start: the starts increase.
LEMMA StartsIncrease ==
  ASSUME NEW m, GoodCounter(m)
  PROVE  /\ \A i \in Active(m) : Bucket(m, i).startTime \in Nat
         /\ \A i, j \in Active(m) : i < j => Bucket(m, i).startTime < Bucket(m, j).startTime
<1>1. \A i \in Active(m) : Bucket(m, i).startTime \in Nat /\ i \in Nat
  BY BucketFacts, BoundsAssumption DEF BucketRecs, Times, GoodCounter, Active
<1>2. ASSUME NEW i \in Active(m), NEW j \in Active(m), i < j PROVE Bucket(m, i).startTime < Bucket(m, j).startTime
  <2>1. Bucket(m, j).startTime >= Bucket(m, i).startTime + (j - i) * BucketPeriod
    BY <1>2 DEF GoodCounter, ApartIn
  <2>2. PICK d \in Nat : d = j - i /\ d > 0
    BY <1>1, <1>2
  <2>3. d * BucketPeriod \in Nat /\ d * BucketPeriod > 0
    BY <2>2, BucketSizes
  <2>4. PICK w \in Nat : w = d * BucketPeriod /\ w > 0
    BY <2>3
  <2> QED BY <1>1, <2>1, <2>2, <2>4
<1> QED BY <1>1, <1>2

\* What expireOld leaves has not expired, and is tracked as before.
LEMMA ExpireTracks ==
  ASSUME NEW m, GoodCounter(m), NEW h, KeptOK(h), NEW t \in Nat, Tracked(m, h), NEW z, z = ExpireOld(m, t),
         NEW g, Trimmed(h, t, g)
  PROVE  Tracked(z, g) /\ \A i \in Active(z) : Bucket(z, i).startTime > t - Period
<1>0. PICK n : Expired(m, t, z, n)
  BY ExpireOldIs
<1>1. /\ n \in 0..m.active /\ z.active = m.active - n
      /\ \A i \in Active(z) : n + i \in Active(m) /\ Bucket(z, i) = Bucket(m, n + i)
      /\ \A i \in 0..(n - 1) : Old(Bucket(m, i), t)
  BY <1>0 DEF Expired
<1>2. m.active \in Nat /\ m \in Counters /\ GoodCounter(z) /\ Period \in Nat
  BY BucketFacts, BucketSizes, ExpireOldIs DEF GoodCounter
<1>3. ASSUME NEW i \in Active(z) PROVE Bucket(z, i).startTime > t - Period
  <2>1. 0 \in Active(z) /\ z.active > 0 /\ (i = 0 \/ 0 < i)
    BY <1>1, <1>2 DEF Active
  <2>2. ~Old(Bucket(z, 0), t)
    BY <1>0, <2>1 DEF Expired
  <2>3. Bucket(z, 0).startTime \in Nat /\ Bucket(z, i).startTime \in Nat
        /\ (0 < i => Bucket(z, 0).startTime < Bucket(z, i).startTime)
    BY <1>2, <2>1, StartsIncrease
  <2> QED BY <1>2, <2>1, <2>2, <2>3 DEF Old
<1>4. ASSUME NEW i \in Active(z) PROVE Holds(Bucket(z, i), g)
  <2>1. Holds(Bucket(z, i), h)
    BY <1>1 DEF Tracked
  <2> QED BY <1>3, <2>1, HoldsTrimmed
<1>5. ASSUME NEW s, InSome(m, s), ~(s <= t - Period) PROVE InSome(z, s)
  <2>1. PICK i \in Active(m) : Bucket(m, i).startTime = s
    BY <1>5 DEF InSome
  <2>2. ~(i \in 0..(n - 1))
    BY <1>1, <1>5, <2>1 DEF Old
  <2>3. i - n \in Active(z) /\ n + (i - n) = i
    BY <1>1, <1>2, <2>2 DEF Active
  <2> QED BY <1>1, <2>1, <2>3 DEF InSome
<1>6. ASSUME NEW k \in DOMAIN g PROVE InSome(z, Aligned(g[k].at))
  <2>1. k \in DOMAIN h /\ g[k] = h[k] /\ Aligned(h[k].at) > t - Period
    BY DEF Trimmed
  <2>2. Aligned(h[k].at) \in Nat /\ InSome(m, Aligned(h[k].at))
    BY <2>1, AddedFacts DEF KeptOK, Tracked
  <2> QED BY <1>2, <1>5, <2>1, <2>2
<1> QED BY <1>3, <1>4, <1>6 DEF Tracked

\* The values of the first n buckets' stretches, and what they sum up to.
UpTo(m, h, n) == {k \in DOMAIN h : \E i \in 0..(n - 1) : Aligned(h[k].at) = Bucket(m, i).startTime}

LEMMA BucketsSumUp ==
  ASSUME NEW m, GoodCounter(m), NEW h, KeptOK(h), \A i \in Active(m) : Holds(Bucket(m, i), h)
  PROVE  LET U == UpTo(m, h, m.active)
         IN  m.count = Cardinality(U) /\ m.total = SumFirst(ValuesOf(U, h), MaxAdds)
<1>1. PICK a, f, g : a = m.active /\ f = Counts(m) /\ g = Totals(m)
  OBVIOUS
<1>2. m \in Counters /\ a \in Nat /\ Active(m) = 0..(a - 1) /\ MaxAdds \in Nat
  BY <1>1, BucketFacts, BoundsAssumption DEF GoodCounter, Active
<1>3. /\ Summable(f, a) /\ Summable(g, a)
      /\ \A i \in 0..(a - 1) : f[i] = Bucket(m, i).count /\ g[i] = Bucket(m, i).total
  BY <1>1, <1>2, SumsOf
<1>4. m.count = SumFirst(f, a) /\ m.total = SumFirst(g, a)
  BY <1>1 DEF GoodCounter, BalancedIn
<1> DEFINE Right(n) == LET U == UpTo(m, h, n)
                       IN  Cardinality(U) = SumFirst(f, n) /\ SumFirst(ValuesOf(U, h), MaxAdds) = SumFirst(g, n)
           T == {n \in Nat : n <= a => Right(n)}
<1>5. 0 \in T
  <2>1. PICK U : U = UpTo(m, h, 0)
    OBVIOUS
  <2>2. U = {}
    BY <2>1 DEF UpTo
  <2>3. Cardinality(U) = 0
    BY <2>2, FS_EmptySet
  <2>4. PICK y : y = ValuesOf(U, h)
    OBVIOUS
  <2>5. \A j \in 0..(MaxAdds - 1) : y[j] = 0
    BY <2>2, <2>4 DEF ValuesOf
  <2>6. SumFirst(y, MaxAdds) = 0
    BY <1>2, <2>5, SumNone
  <2>7. SumFirst(f, 0) = 0 /\ SumFirst(g, 0) = 0
    BY SumZero
  <2> QED BY <2>1, <2>3, <2>4, <2>6, <2>7
<1>6. ASSUME NEW n \in Nat, n \in T PROVE n + 1 \in T
  <2> SUFFICES ASSUME n + 1 <= a PROVE Right(n + 1)
    OBVIOUS
  <2>1. Right(n) /\ n \in 0..(a - 1) /\ n \in Active(m)
    BY <1>2, <1>6
  <2>2. PICK U, V, K, b : U = UpTo(m, h, n) /\ V = UpTo(m, h, n + 1) /\ b = Bucket(m, n) /\ K = OfStretch(b.startTime, h)
    OBVIOUS
  <2>3. Cardinality(U) = SumFirst(f, n) /\ SumFirst(ValuesOf(U, h), MaxAdds) = SumFirst(g, n)
    BY <2>1, <2>2
  <2>4. b.count = Cardinality(K) /\ b.total = SumFirst(ValuesOf(K, h), MaxAdds)
    BY <2>1, <2>2 DEF Holds, SumsUp
  <2>5. U \in SUBSET DOMAIN h /\ K \in SUBSET DOMAIN h
    BY <2>2 DEF UpTo, OfStretch
  <2>6. V = U \cup K
    <3>1. 0..((n + 1) - 1) = 0..(n - 1) \cup {n}
      OBVIOUS
    <3> QED BY <2>2, <3>1 DEF UpTo, OfStretch
  <2>7. U \cap K = {}
    <3>1. \A i \in 0..(n - 1) : Bucket(m, i).startTime # b.startTime
      <4> TAKE i \in 0..(n - 1)
      <4>1. i \in Active(m) /\ n \in Active(m) /\ i < n
        BY <1>2, <2>1
      <4> QED BY <2>2, <4>1, StartsIncrease
    <3> QED BY <2>2, <3>1 DEF UpTo, OfStretch
  <2>8. IsFiniteSet(U) /\ IsFiniteSet(K) /\ Summable(ValuesOf(U, h), MaxAdds) /\ Summable(ValuesOf(K, h), MaxAdds)
    BY <2>5, StretchFacts
  <2>9. Cardinality(V) = Cardinality(U) + Cardinality(K)
    <3>1. Cardinality(U \cup K) = Cardinality(U) + Cardinality(K) - Cardinality(U \cap K)
      BY <2>8, FS_Union
    <3>2. Cardinality(U \cap K) = 0 /\ Cardinality(U) \in Nat /\ Cardinality(K) \in Nat
      BY <2>7, <2>8, FS_EmptySet, FS_CardinalityType
    <3> QED BY <2>6, <3>1, <3>2
  <2>10. SumFirst(ValuesOf(V, h), MaxAdds) = SumFirst(ValuesOf(U, h), MaxAdds) + SumFirst(ValuesOf(K, h), MaxAdds)
    <3>1. PICK u, v, k : u = ValuesOf(U, h) /\ v = ValuesOf(V, h) /\ k = ValuesOf(K, h)
      OBVIOUS
    <3>2. ASSUME NEW j \in 0..(MaxAdds - 1) PROVE v[j] = u[j] + k[j]
      <4>1. j + 1 \in U \cup K => h[j + 1].val \in Int
        BY <2>5, AddedFacts DEF KeptOK
      <4>2. PICK e : e = h[j + 1].val
        OBVIOUS
      <4>3. j + 1 \in U \cup K => e \in Int
        BY <4>1, <4>2
      <4>4. /\ v[j] = IF j + 1 \in V THEN e ELSE 0
            /\ u[j] = IF j + 1 \in U THEN e ELSE 0
            /\ k[j] = IF j + 1 \in K THEN e ELSE 0
        BY <3>1, <4>2 DEF ValuesOf
      <4>5. CASE j + 1 \in U
        BY <2>6, <2>7, <4>3, <4>4, <4>5
      <4>6. CASE j + 1 \in K
        BY <2>6, <2>7, <4>3, <4>4, <4>6
      <4>7. CASE j + 1 \notin U /\ j + 1 \notin K
        BY <2>6, <4>4, <4>7
      <4> QED BY <4>5, <4>6, <4>7
    <3>3. Summable(u, MaxAdds) /\ Summable(k, MaxAdds)
      BY <2>8, <3>1
    <3>4. SumFirst(v, MaxAdds) = SumFirst(u, MaxAdds) + SumFirst(k, MaxAdds)
      BY <1>2, <3>2, <3>3, SumAdd
    <3> QED BY <3>1, <3>4
  <2>11. SumFirst(f, n + 1) = SumFirst(f, n) + b.count /\ SumFirst(g, n + 1) = SumFirst(g, n) + b.total
    <3>1. Summable(f, n + 1) /\ Summable(g, n + 1)
      BY <1>2, <1>3 DEF Summable
    <3>2. f[n] = b.count /\ g[n] = b.total
      BY <1>3, <2>1, <2>2
    <3> QED BY <3>1, <3>2, SumStep
  <2>12. Cardinality(V) = SumFirst(f, n + 1) /\ SumFirst(ValuesOf(V, h), MaxAdds) = SumFirst(g, n + 1)
    BY <2>3, <2>4, <2>9, <2>10, <2>11
  <2> QED BY <2>2, <2>12
<1>7. a \in T
  <2> HIDE DEF T
  <2> QED BY <1>2, <1>5, <1>6, SetInduction
<1>8. Right(a)
  BY <1>2, <1>7
<1> QED BY <1>1, <1>4, <1>8

\* Some bucket has the least minimum, some the largest maximum.
LEMMA Extremes ==
  ASSUME NEW f, NEW n \in Nat, \A i \in 0..n : f[i] \in Int
  PROVE  /\ \E i \in 0..n : \A j \in 0..n : f[i] <= f[j]
         /\ \E i \in 0..n : \A j \in 0..n : f[i] >= f[j]
<1> DEFINE Both(k) == /\ \E i \in 0..k : \A j \in 0..k : f[i] <= f[j]
                      /\ \E i \in 0..k : \A j \in 0..k : f[i] >= f[j]
           T == {k \in Nat : k <= n => Both(k)}
<1>1. 0 \in T
  <2>1. \A j \in 0..0 : j = 0
    OBVIOUS
  <2>2. 0 \in 0..0 /\ f[0] <= f[0] /\ f[0] >= f[0]
    OBVIOUS
  <2> QED BY <2>1, <2>2
<1>2. ASSUME NEW k \in Nat, k \in T PROVE k + 1 \in T
  <2> SUFFICES ASSUME k + 1 <= n PROVE Both(k + 1)
    OBVIOUS
  <2>1. Both(k) /\ \A j \in 0..(k + 1) : f[j] \in Int
    BY <1>2
  <2>2. PICK p \in 0..k : \A j \in 0..k : f[p] <= f[j]
    BY <2>1
  <2>3. PICK q \in 0..k : \A j \in 0..k : f[q] >= f[j]
    BY <2>1
  <2>4. p \in 0..(k + 1) /\ q \in 0..(k + 1) /\ k + 1 \in 0..(k + 1) /\ \A j \in 0..(k + 1) : j \in 0..k \/ j = k + 1
    OBVIOUS
  <2>5. \E i \in 0..(k + 1) : \A j \in 0..(k + 1) : f[i] <= f[j]
    <3>1. CASE f[p] <= f[k + 1]
      BY <2>2, <2>4, <3>1
    <3>2. CASE f[k + 1] < f[p]
      <4>1. \A j \in 0..(k + 1) : f[k + 1] <= f[j]
        BY <2>1, <2>2, <2>4, <3>2
      <4> QED BY <2>4, <4>1
    <3> QED BY <2>1, <2>4, <3>1, <3>2
  <2>6. \E i \in 0..(k + 1) : \A j \in 0..(k + 1) : f[i] >= f[j]
    <3>1. CASE f[q] >= f[k + 1]
      BY <2>3, <2>4, <3>1
    <3>2. CASE f[k + 1] > f[q]
      <4>1. \A j \in 0..(k + 1) : f[k + 1] >= f[j]
        BY <2>1, <2>3, <2>4, <3>2
      <4> QED BY <2>4, <4>1
    <3> QED BY <2>1, <2>4, <3>1, <3>2
  <2> QED BY <2>5, <2>6
<1>3. n \in T
  <2> HIDE DEF T
  <2> QED BY <1>1, <1>2, SetInduction
<1> QED BY <1>3

LEMMA LeastIs ==
  ASSUME NEW S \in SUBSET Int, NEW x \in S
  PROVE  /\ (\A y \in S : x <= y) => Least(S) = x
         /\ (\A y \in S : x >= y) => Largest(S) = x
<1>1. ASSUME \A y \in S : x <= y PROVE Least(S) = x
  <2>1. \A z \in S : (\A y \in S : z <= y) => z = x
    BY <1>1
  <2> QED BY <1>1, <2>1 DEF Least
<1>2. ASSUME \A y \in S : x >= y PROVE Largest(S) = x
  <2>1. \A z \in S : (\A y \in S : z >= y) => z = x
    BY <1>2
  <2> QED BY <1>2, <2>1 DEF Largest
<1> QED BY <1>1, <1>2

\* Min and Max of the counter, if each of its buckets sums up its stretch.
LEMMA BucketsBound ==
  ASSUME NEW m, GoodCounter(m), NEW h, KeptOK(h), \A i \in Active(m) : Holds(Bucket(m, i), h),
         NEW S, S = {h[k].val : k \in UpTo(m, h, m.active)}
  PROVE  MinOf(m) = Least(S) /\ MaxOf(m) = Largest(S)
<1>1. m \in Counters /\ m.active \in Nat
  BY BucketFacts DEF GoodCounter
<1>2. Filled(m) = Active(m)
  BY DEF Filled, Active, GoodCounter, NoneEmpty
<1>3. CASE m.active = 0
  <2>1. Active(m) = {} /\ S = {}
    BY <1>3 DEF Active, UpTo
  <2> QED BY <1>2, <2>1 DEF MinOf, MaxOf, Least, Largest
<1>4. CASE m.active > 0
  <2>1. PICK n \in Nat : m.active = n + 1
    <3>1. m.active - 1 \in Nat /\ m.active = (m.active - 1) + 1
      BY <1>1, <1>4
    <3> QED BY <3>1
  <2>2. Active(m) = 0..n
    BY <2>1 DEF Active
  <2>3. \A i \in 0..n : Bucket(m, i).min \in Int /\ Bucket(m, i).max \in Int
    BY <1>1, <2>2, BucketFacts DEF BucketRecs
  <2>4. S \in SUBSET Int
    BY AddedFacts DEF UpTo, KeptOK
  <2>5. ASSUME NEW i \in 0..n PROVE Bucket(m, i).min \in S /\ Bucket(m, i).max \in S
    <3>1. PICK b : b = Bucket(m, i)
      OBVIOUS
    <3>2. Bounds(b, h, OfStretch(b.startTime, h))
      BY <2>2, <3>1 DEF Holds, SumsUp
    <3>3. OfStretch(b.startTime, h) \subseteq UpTo(m, h, m.active)
      <4>1. i \in 0..(m.active - 1)
        BY <2>1
      <4> QED BY <3>1, <4>1 DEF OfStretch, UpTo
    <3> QED BY <3>1, <3>2, <3>3 DEF Bounds
  <2>6. ASSUME NEW y \in S PROVE \E i \in 0..n : Bucket(m, i).min <= y /\ Bucket(m, i).max >= y
    <3>1. PICK k \in UpTo(m, h, m.active) : y = h[k].val
      OBVIOUS
    <3>2. PICK i \in 0..n : k \in DOMAIN h /\ Aligned(h[k].at) = Bucket(m, i).startTime
      BY <2>1 DEF UpTo
    <3>3. PICK b : b = Bucket(m, i)
      OBVIOUS
    <3>4. k \in OfStretch(b.startTime, h) /\ Bounds(b, h, OfStretch(b.startTime, h))
      BY <2>2, <3>2, <3>3 DEF Holds, SumsUp, OfStretch
    <3> QED BY <3>1, <3>3, <3>4 DEF Bounds
  <2>7. MinOf(m) = Least(S)
    <3>1. PICK f : f = [i \in 0..n |-> Bucket(m, i).min]
      OBVIOUS
    <3>2. PICK p \in 0..n : \A j \in 0..n : f[p] <= f[j]
      BY <2>3, <3>1, Extremes
    <3>3. PICK x \in Int : x = Bucket(m, p).min /\ \A j \in 0..n : x <= Bucket(m, j).min
      BY <2>3, <3>1, <3>2
    <3>4. x \in S /\ \A y \in S : x <= y
      <4>1. ASSUME NEW y \in S PROVE x <= y
        <5>1. PICK i \in 0..n : Bucket(m, i).min <= y
          BY <2>6
        <5>2. PICK u \in Int : u = Bucket(m, i).min /\ u <= y /\ x <= u
          BY <2>3, <3>3, <5>1
        <5>3. y \in Int
          BY <2>4
        <5> QED BY <5>2, <5>3
      <4> QED BY <2>5, <3>3, <4>1
    <3>5. Least(S) = x
      BY <2>4, <3>4, LeastIs
    <3>6. PICK X : X = {Bucket(m, i).min : i \in 0..n}
      OBVIOUS
    <3>7. x \in X /\ \A w \in X : (\A i \in 0..n : w <= Bucket(m, i).min) => w = x
      <4>1. x \in X
        BY <3>3, <3>6
      <4>2. ASSUME NEW w \in X, \A i \in 0..n : w <= Bucket(m, i).min PROVE w = x
        <5>1. PICK i \in 0..n : w = Bucket(m, i).min
          BY <3>6
        <5>2. w \in Int /\ x <= w
          BY <2>3, <3>3, <5>1
        <5>3. w <= x
          BY <3>3, <4>2
        <5> QED BY <5>2, <5>3
      <4> QED BY <4>1, <4>2
    <3>8. MinOf(m) = CHOOSE w \in X : \A i \in 0..n : w <= Bucket(m, i).min
      BY <1>2, <2>2, <3>6 DEF MinOf
    <3>9. MinOf(m) = x
      BY <3>3, <3>7, <3>8
    <3> QED BY <3>5, <3>9
  <2>8. MaxOf(m) = Largest(S)
    <3>1. PICK f : f = [i \in 0..n |-> Bucket(m, i).max]
      OBVIOUS
    <3>2. PICK p \in 0..n : \A j \in 0..n : f[p] >= f[j]
      BY <2>3, <3>1, Extremes
    <3>3. PICK x \in Int : x = Bucket(m, p).max /\ \A j \in 0..n : x >= Bucket(m, j).max
      BY <2>3, <3>1, <3>2
    <3>4. x \in S /\ \A y \in S : x >= y
      <4>1. ASSUME NEW y \in S PROVE x >= y
        <5>1. PICK i \in 0..n : Bucket(m, i).max >= y
          BY <2>6
        <5>2. PICK u \in Int : u = Bucket(m, i).max /\ u >= y /\ x >= u
          BY <2>3, <3>3, <5>1
        <5>3. y \in Int
          BY <2>4
        <5> QED BY <5>2, <5>3
      <4> QED BY <2>5, <3>3, <4>1
    <3>5. Largest(S) = x
      BY <2>4, <3>4, LeastIs
    <3>6. PICK X : X = {Bucket(m, i).max : i \in 0..n}
      OBVIOUS
    <3>7. x \in X /\ \A w \in X : (\A i \in 0..n : w >= Bucket(m, i).max) => w = x
      BY <2>3, <3>3, <3>6
    <3>8. MaxOf(m) = CHOOSE w \in X : \A i \in 0..n : w >= Bucket(m, i).max
      BY <1>2, <2>2, <3>6 DEF MaxOf
    <3>9. MaxOf(m) = x
      BY <3>3, <3>7, <3>8
    <3> QED BY <3>5, <3>9
  <2> QED BY <2>7, <2>8
<1> QED BY <1>1, <1>3, <1>4

\* What Total, Min and Max return, from the invariant.
LEMMA InvariantIsAccurate ==
  ASSUME CounterIInv
  PROVE  Accurate
<1>1. GoodCounter(mc) /\ mc \in Counters /\ now \in Times /\ now \in Nat /\ Period \in Nat
  BY BoundsAssumption, BucketSizes DEF CounterIInv, GoodCounter, Times
<1>2. CounterTypeOK
  BY <1>1, BucketFacts DEF CounterIInv, CounterTypeOK, BucketRecs, KeptOK, Added
<1>3. NoPanic /\ BucketsApart /\ Balanced
  BY <1>1 DEF CounterIInv, NoPanic, BucketsApart, Balanced, GoodCounter, ApartIn, BalancedIn, Active
<1>4. QueriesRight
  <2>1. KeptOK(kept) /\ Tracked(mc, kept) /\ now \in Int
    BY <1>1 DEF CounterIInv
  <2>2. PICK m, R, g : m = ExpireOld(mc, now) /\ R = Unexpired(now) /\ g = [k \in R |-> kept[k]]
    OBVIOUS
  <2>3. R \in SUBSET DOMAIN kept /\ KeptOK(g) /\ Trimmed(kept, now, g) /\ DOMAIN g = R /\ \A k \in R : g[k] = kept[k]
    BY <2>1, <2>2 DEF Unexpired, Stretch, KeptOK, Trimmed
  <2>4. GoodCounter(m) /\ Tracked(m, g) /\ m \in Counters /\ m.active \in Nat
    BY <1>1, <2>1, <2>2, <2>3, ExpireOldIs, ExpireTracks, BucketFacts DEF GoodCounter
  <2>5. UpTo(m, g, m.active) = R
    BY <2>3, <2>4 DEF Tracked, InSome, UpTo, Active
  <2>6. \A i \in Active(m) : Holds(Bucket(m, i), g)
    BY <2>4 DEF Tracked
  <2>7. m.count = Cardinality(R) /\ m.total = SumFirst(ValuesOf(R, g), MaxAdds)
    BY <2>3, <2>4, <2>5, <2>6, BucketsSumUp
  <2>8. PICK S : S = {g[i].val : i \in R}
    OBVIOUS
  <2>9. MinOf(m) = Least(S) /\ MaxOf(m) = Largest(S)
    BY <2>3, <2>4, <2>5, <2>6, <2>8, BucketsBound
  <2>10. S = {kept[i].val : i \in R} /\ ValuesOf(R, g) = ValuesOf(R, kept)
    BY <2>3, <2>8 DEF ValuesOf
  <2> QED BY <2>2, <2>7, <2>9, <2>10 DEF QueriesRight, ValuesOf
<1> QED BY <1>2, <1>3, <1>4 DEF Accurate, CounterIInv

\* When the buckets share the period evenly, expireOld leaves room for another.
LEMMA RoomForAnother ==
  ASSUME NEW m, GoodCounter(m), NEW t \in Nat, Period = NumBuckets * BucketPeriod,
         ~GoesBack(m, t), ~InLast(m, t), NEW z, z = ExpireOld(m, t)
  PROVE  /\ z.active < NumBuckets
         /\ z.active > 0 => LastBucket(z).startTime + BucketPeriod <= t
<1>1. GoodCounter(z) /\ z \in Counters /\ z.active \in 0..NumBuckets
  BY ExpireOldIs, BucketFacts DEF GoodCounter
<1>2. PICK n : Expired(m, t, z, n)
  BY ExpireOldIs
<1>3. m \in Counters /\ m.active \in 0..NumBuckets
  BY BucketFacts DEF GoodCounter
<1>4. ASSUME z.active > 0 PROVE LastBucket(z).startTime + BucketPeriod <= t
  <2>1. n \in 0..m.active /\ z.active = m.active - n /\ z.active - 1 \in Active(z) /\ m.active > 0
    BY <1>1, <1>2, <1>3, <1>4 DEF Expired, Active
  <2>2. n + (z.active - 1) = m.active - 1 /\ m.active - 1 \in Active(m)
    BY <1>1, <1>3, <2>1 DEF Active
  <2>3. Bucket(z, z.active - 1) = Bucket(m, n + (z.active - 1))
    BY <1>2, <2>1 DEF Expired
  <2>4. LastBucket(z) = LastBucket(m) /\ LastBucket(m).startTime \in Nat
    BY <2>2, <2>3, StartsIncrease DEF LastBucket
  <2> QED BY <2>1, <2>4, BucketSizes DEF GoesBack, InLast, BucketEnd
<1>5. ASSUME z.active = NumBuckets PROVE FALSE
  <2>1. PICK b \in Nat, c \in Nat : b = Bucket(z, 0).startTime /\ c = LastBucket(z).startTime
    <3>1. 0 \in Active(z) /\ z.active - 1 \in Active(z)
      BY <1>5, BucketSizes DEF Active
    <3> QED BY <1>1, <3>1, StartsIncrease DEF LastBucket
  <2>2. c + BucketPeriod <= t /\ b > t - Period
    BY <1>2, <1>4, <1>5, <2>1, BucketSizes DEF Expired, Old
  <2>3. c >= b + (NumBuckets - 1) * BucketPeriod
    <3>1. CASE NumBuckets = 1
      <4>1. (NumBuckets - 1) * BucketPeriod = 0
        BY <3>1, BucketSizes
      <4> QED BY <1>5, <2>1, <3>1, <4>1 DEF LastBucket
    <3>2. CASE NumBuckets > 1
      <4>1. 0 \in Active(z) /\ NumBuckets - 1 \in Active(z) /\ 0 < NumBuckets - 1 /\ (NumBuckets - 1) - 0 = NumBuckets - 1
        BY <1>5, <3>2, BucketSizes DEF Active
      <4>2. Bucket(z, NumBuckets - 1).startTime >= Bucket(z, 0).startTime + ((NumBuckets - 1) - 0) * BucketPeriod
        BY <1>1, <4>1 DEF GoodCounter, ApartIn
      <4> QED BY <1>5, <2>1, <4>1, <4>2 DEF LastBucket
    <3> QED BY <3>1, <3>2, BucketSizes
  <2>4. (NumBuckets - 1) * BucketPeriod + BucketPeriod = Period /\ (NumBuckets - 1) * BucketPeriod \in Nat
    BY BucketSizes
  <2> QED BY <2>1, <2>2, <2>3, <2>4, BucketSizes
<1> QED BY <1>1, <1>4, <1>5, BucketSizes

LEMMA AddLastTracks ==
  ASSUME NEW m, GoodCounter(m), NEW h, KeptOK(h), NEW t \in Times, Tracked(m, h), InLast(m, t),
         NEW v \in Values, NEW e, e = [val |-> v, at |-> t], NEW g, NEW x, Grown(h, e, g, x), NEW z, z = AddToLast(m, v)
  PROVE  Tracked(z, g)
<1>1. m \in Counters /\ e \in Added /\ e.val = v /\ e.at = t /\ v \in Int /\ t \in Nat
  BY ValuesAssumption, BoundsAssumption DEF GoodCounter, Added, Times
<1>2. PICK n \in Nat : m.active = n + 1 /\ Active(m) = 0..n /\ n \in Active(m)
  <2>1. m.active \in Nat /\ m.active > 0 /\ m.active - 1 \in Nat /\ m.active = (m.active - 1) + 1
    BY <1>1, BucketFacts DEF InLast
  <2> QED BY <2>1 DEF Active
<1>3. PICK b, c : b = Bucket(m, n) /\ c = AddToBucket(b, v)
  OBVIOUS
<1>4. /\ z.active = n + 1 /\ Bucket(z, n) = c
      /\ \A i \in 0..(n - 1) : Bucket(z, i) = Bucket(m, i)
  <2>1. m.active - 1 = n /\ m.active - 2 = n - 1 /\ m.active > 0
    BY <1>2
  <2>2. /\ z.active = m.active
        /\ \A i \in 0..(m.active - 2) : Bucket(z, i) = Bucket(m, i)
        /\ Bucket(z, m.active - 1) = AddToBucket(Bucket(m, m.active - 1), v)
    BY <1>1, <2>1, AddToLastIs
  <2>3. m.active = n + 1
    BY <1>2
  <2> QED BY <1>3, <2>1, <2>2, <2>3
<1>5. Active(z) = 0..n /\ \A i \in 0..n : i \in 0..(n - 1) \/ i = n
  BY <1>2, <1>4 DEF Active
<1>6. b \in BucketRecs /\ b.count > 0 /\ b.startTime \in Nat /\ b.startTime % BucketPeriod = 0
  BY <1>1, <1>2, <1>3, BucketFacts, StartsIncrease DEF GoodCounter, NoneEmpty, ApartIn
<1>7. b.startTime <= t /\ t < b.startTime + BucketPeriod
  <2>1. LastBucket(m) = b
    BY <1>2, <1>3 DEF LastBucket
  <2> QED BY <2>1 DEF InLast, BucketEnd
<1>8. Aligned(t) = b.startTime
  BY <1>1, <1>6, <1>7, AlignedFacts
<1>9. c.startTime = b.startTime
  BY <1>1, <1>3, <1>6, AddToBucketIs
<1>10. Holds(c, g)
  <2>1. Holds(b, h) /\ Aligned(e.at) = b.startTime /\ c = AddToBucket(b, e.val)
    BY <1>1, <1>2, <1>3, <1>8 DEF Tracked
  <2> QED BY <1>1, <1>6, <2>1, HoldsMore
<1>11. ASSUME NEW i \in 0..(n - 1) PROVE Holds(Bucket(z, i), g)
  <2>1. i \in Active(m) /\ i < n
    BY <1>2
  <2>2. PICK y : y = Bucket(m, i)
    OBVIOUS
  <2>3. y \in BucketRecs /\ Holds(y, h)
    BY <1>1, <2>1, <2>2, BucketFacts DEF Tracked
  <2>4. y.startTime \in Nat /\ y.startTime < b.startTime
    BY <1>2, <1>3, <2>1, <2>2, StartsIncrease
  <2>5. Aligned(e.at) # y.startTime
    BY <1>1, <1>6, <1>8, <2>4
  <2> QED BY <1>1, <1>4, <2>2, <2>3, <2>5, HoldsStill
<1>12. \A i \in 0..n : Bucket(z, i).startTime = Bucket(m, i).startTime
  BY <1>3, <1>4, <1>5, <1>9
<1>13. \A s : InSome(m, s) => InSome(z, s)
  BY <1>2, <1>5, <1>12 DEF InSome
<1>14. InSome(z, Aligned(e.at))
  BY <1>1, <1>2, <1>4, <1>5, <1>8, <1>9 DEF InSome
<1>15. ASSUME NEW k \in DOMAIN g PROVE InSome(z, Aligned(g[k].at))
  <2>1. CASE k \in DOMAIN h
    BY <1>13, <2>1 DEF Tracked, Grown
  <2>2. CASE k = x
    BY <1>14, <2>2 DEF Grown
  <2> QED BY <2>1, <2>2 DEF Grown
<1>16. \A i \in 0..n : Holds(Bucket(z, i), g)
  BY <1>4, <1>5, <1>10, <1>11
<1> QED BY <1>5, <1>15, <1>16 DEF Tracked

LEMMA AddNewTracks ==
  ASSUME NEW m, GoodCounter(m), NEW h, KeptOK(h), NEW t \in Times, Tracked(m, h),
         m.active < NumBuckets, m.active > 0 => LastBucket(m).startTime + BucketPeriod <= t,
         NEW v \in Values, NEW e, e = [val |-> v, at |-> t], NEW g, NEW x, Grown(h, e, g, x),
         NEW z, z = AddToLast(PushBucket(m, t), v)
  PROVE  Tracked(z, g)
<1>1. m \in Counters /\ e \in Added /\ e.val = v /\ e.at = t /\ v \in Int /\ t \in Nat
  BY ValuesAssumption, BoundsAssumption DEF GoodCounter, Added, Times
<1>2. PICK n, s, c : n = m.active /\ s = Aligned(t) /\ c = Bucket(z, n)
  OBVIOUS
<1>3. /\ z.active = n + 1 /\ c.startTime = s /\ c.count = 1 /\ c.total = v /\ c.min = v /\ c.max = v
      /\ \A i \in Active(m) : Bucket(z, i) = Bucket(m, i) /\ Bucket(m, i).startTime + BucketPeriod <= s
  BY <1>1, <1>2, AddInNew
<1>4. n \in Nat /\ Active(m) = 0..(n - 1) /\ Active(z) = 0..n /\ n \in Active(z)
      /\ \A i \in 0..n : i \in 0..(n - 1) \/ i = n
  <2>1. n \in Nat
    BY <1>1, <1>2, BucketFacts
  <2>2. z.active - 1 = n /\ m.active - 1 = n - 1
    BY <1>2, <1>3, <2>1
  <2> QED BY <2>1, <2>2 DEF Active
<1>5. s \in Nat /\ s <= t /\ t < s + BucketPeriod
  BY <1>1, <1>2, AlignedFacts
<1>6. \A i \in Active(m) : Bucket(m, i).startTime \in Nat /\ Bucket(m, i).startTime # s
  <2> TAKE i \in Active(m)
  <2>1. Bucket(m, i).startTime \in Nat /\ Bucket(m, i).startTime + BucketPeriod <= s
    BY <1>3, StartsIncrease
  <2> QED BY <1>5, <2>1, BucketSizes
<1>8. OfStretch(s, h) = {}
  <2>1. ASSUME NEW k \in DOMAIN h, Aligned(h[k].at) = s PROVE FALSE
    <3>1. InSome(m, s)
      BY <2>1 DEF Tracked
    <3> QED BY <1>6, <3>1 DEF InSome
  <2> QED BY <2>1 DEF OfStretch
<1>9. Holds(c, g)
  BY <1>1, <1>2, <1>3, <1>8, HoldsFirst
<1>10. ASSUME NEW i \in Active(m) PROVE Holds(Bucket(z, i), g)
  <2>1. PICK y : y = Bucket(m, i)
    OBVIOUS
  <2>2. y \in BucketRecs /\ Holds(y, h)
    BY <1>1, <2>1, BucketFacts DEF Tracked
  <2>3. Aligned(e.at) # y.startTime
    BY <1>1, <1>2, <1>6, <2>1
  <2>4. Holds(y, g)
    BY <1>1, <2>2, <2>3, HoldsStill
  <2> QED BY <1>3, <2>1, <2>4
<1>11. \A y : InSome(m, y) => InSome(z, y)
  BY <1>3, <1>4 DEF InSome
<1>12. InSome(z, Aligned(e.at))
  BY <1>1, <1>2, <1>3, <1>4 DEF InSome
<1>13. ASSUME NEW k \in DOMAIN g PROVE InSome(z, Aligned(g[k].at))
  <2>1. CASE k \in DOMAIN h
    BY <1>11, <2>1 DEF Tracked, Grown
  <2>2. CASE k = x
    BY <1>12, <2>2 DEF Grown
  <2> QED BY <2>1, <2>2 DEF Grown
<1>14. ASSUME NEW i \in Active(z) PROVE Holds(Bucket(z, i), g)
  <2>1. CASE i \in Active(m)
    BY <1>10, <2>1
  <2>2. CASE i = n
    BY <1>2, <1>9, <2>2
  <2> QED BY <1>4, <2>1, <2>2
<1> QED BY <1>13, <1>14 DEF Tracked

\* The counter finds the value late, or its bucket open, when the history does.
LEMMA SameCases ==
  ASSUME GoodCounter(mc), KeptOK(kept), Tracked(mc, kept), now \in Nat
  PROVE  /\ GoesBack(mc, now) <=> Late(now)
         /\ InLast(mc, now) <=> ~Late(now) /\ Current(now)
<1>1. mc \in Counters /\ mc.active \in Nat
  BY BucketFacts DEF GoodCounter
<1>2. Aligned(now) \in Nat /\ Aligned(now) <= now /\ now < Aligned(now) + BucketPeriod /\ BucketPeriod \in Nat
  BY AlignedFacts, BucketSizes
<1>3. \A i \in Active(mc) : \E k \in DOMAIN kept : Stretch(k) = Bucket(mc, i).startTime
  BY DEF Tracked, Holds, SumsUp, Bounds, OfStretch, Stretch
<1>4. \A k \in DOMAIN kept : Stretch(k) \in Nat /\ InSome(mc, Stretch(k))
  BY AddedFacts DEF KeptOK, Tracked, Stretch
<1>5. CASE mc.active = 0
  <2>1. DOMAIN kept = {}
    BY <1>4, <1>5 DEF InSome, Active
  <2> QED BY <1>5, <2>1 DEF GoesBack, InLast, Late, Current
<1>6. CASE mc.active > 0
  <2>1. PICK n \in Active(mc) : n = mc.active - 1
    BY <1>1, <1>6 DEF Active
  <2>2. PICK z \in Nat : z = Bucket(mc, n).startTime /\ z = LastBucket(mc).startTime
    BY <2>1, StartsIncrease DEF LastBucket
  <2>3. \A i \in Active(mc) : Bucket(mc, i).startTime \in Nat /\ Bucket(mc, i).startTime <= z
    <3> TAKE i \in Active(mc)
    <3>1. i = n \/ i < n
      BY <1>1, <2>1 DEF Active
    <3> QED BY <2>1, <2>2, <3>1, StartsIncrease
  <2>4. PICK l \in DOMAIN kept : Stretch(l) = z
    BY <1>3, <2>1, <2>2
  <2>5. \A k \in DOMAIN kept : Stretch(k) \in Nat /\ Stretch(k) <= z
    BY <1>4, <2>3 DEF InSome
  <2>6. Late(now) <=> now < z
    BY <2>4, <2>5 DEF Late
  <2>7. GoesBack(mc, now) <=> now < z
    BY <1>6, <2>2 DEF GoesBack
  <2>8. InLast(mc, now) <=> z <= now /\ now < z + BucketPeriod
    BY <1>6, <2>2 DEF InLast, BucketEnd
  <2>9. z % BucketPeriod = 0
    BY <2>1, <2>2 DEF GoodCounter, ApartIn
  <2>10. ASSUME z <= now, now < z + BucketPeriod PROVE Current(now)
    <3>1. Aligned(now) = z
      BY <2>9, <2>10, AlignedFacts
    <3> QED BY <2>4, <3>1 DEF Current
  <2>11. ASSUME ~(now < z), Current(now) PROVE z <= now /\ now < z + BucketPeriod
    <3>1. PICK k \in DOMAIN kept : Stretch(k) = Aligned(now)
      BY <2>11 DEF Current
    <3>2. Aligned(now) <= z
      BY <2>5, <3>1
    <3> QED BY <1>2, <2>11, <3>2
  <2> QED BY <2>6, <2>7, <2>8, <2>10, <2>11
<1> QED BY <1>1, <1>5, <1>6

\* A value that is kept: it joins the history, or what has not expired of it.
LEMMA KeepGrows ==
  ASSUME KeptOK(kept), NEW S \in SUBSET DOMAIN kept, (1..MaxAdds) \ S # {}, NEW e \in Added, KeepAlso(S, e),
         NEW h, h = [i \in S |-> kept[i]]
  PROVE  KeptOK(h) /\ Grown(h, e, kept', Fresh(S)) /\ KeptOK(kept')
<1>1. Fresh(S) \in 1..MaxAdds /\ Fresh(S) \notin S
  BY DEF Fresh
<1>2. PICK x : x = Fresh(S)
  OBVIOUS
<1>3. kept' = [i \in S \cup {x} |-> IF i \in S THEN kept[i] ELSE e]
  BY <1>2 DEF KeepAlso
<1>4. KeptOK(h)
  BY DEF KeptOK
<1>5. Grown(h, e, kept', x)
  BY <1>1, <1>2, <1>3 DEF Grown
<1>6. KeptOK(kept')
  BY <1>4, <1>5, HistoryGrows
<1> QED BY <1>2, <1>4, <1>5, <1>6

\* Add keeps the invariant: the value is dropped, goes into the last bucket or
\* into a new one.
LEMMA AddKeeps ==
  ASSUME CounterIInv, Period = NumBuckets * BucketPeriod, NEW v \in Values, Add(v)
  PROVE  CounterIInv'
<1>1. GoodCounter(mc) /\ now \in Times /\ KeptOK(kept) /\ monotone \in BOOLEAN /\ Tracked(mc, kept) /\ NoneLate
      /\ panicked = FALSE
  BY DEF CounterIInv
<1>2. v \in Int /\ now \in Nat /\ now \in Int /\ now' = now /\ monotone' = monotone /\ Keep(v)
  BY <1>1, ValuesAssumption, BoundsAssumption DEF Times, Add
<1>3. PICK e : e = [val |-> v, at |-> now]
  OBVIOUS
<1>4. e \in Added /\ e.at = now
  BY <1>1, <1>3 DEF Added
<1>5. (GoesBack(mc, now) <=> Late(now)) /\ (InLast(mc, now) <=> ~Late(now) /\ Current(now))
  BY <1>1, <1>2, SameCases
<1>6. CASE GoesBack(mc, now) /\ UNCHANGED <<mc, panicked>>
  <2>1. kept' = kept
    BY <1>2, <1>5, <1>6 DEF Keep
  <2> QED BY <1>1, <1>2, <1>6, <2>1 DEF CounterIInv, NoneLate
<1>7. ASSUME ~Late(now)
      PROVE  \E S \in SUBSET DOMAIN kept :
               /\ S = IF Current(now) THEN DOMAIN kept ELSE Unexpired(now)
               /\ (1..MaxAdds) \ S # {} /\ KeepAlso(S, e)
  BY <1>2, <1>3, <1>7 DEF Keep, Unexpired
<1>8. ASSUME NEW S \in SUBSET DOMAIN kept, (1..MaxAdds) \ S # {}, KeepAlso(S, e)
      PROVE  NoneLate'
  <2>1. kept' = [i \in S \cup {Fresh(S)} |-> IF i \in S THEN kept[i] ELSE e]
    BY <1>8 DEF KeepAlso
  <2> QED BY <1>1, <1>2, <1>4, <2>1 DEF NoneLate
<1>9. CASE InLast(mc, now) /\ mc' = AddToLast(mc, v) /\ UNCHANGED panicked
  <2>1. mc.active > 0
    BY <1>9 DEF InLast
  <2>2. GoodCounter(mc')
    BY <1>1, <1>2, <1>9, <2>1, AddInLast
  <2>3. PICK S \in SUBSET DOMAIN kept : S = DOMAIN kept /\ (1..MaxAdds) \ S # {} /\ KeepAlso(S, e)
    BY <1>5, <1>7, <1>9
  <2>4. PICK h : h = [i \in S |-> kept[i]]
    OBVIOUS
  <2>5. KeptOK(h) /\ Grown(h, e, kept', Fresh(S)) /\ KeptOK(kept')
    BY <1>1, <1>4, <2>3, <2>4, KeepGrows
  <2>6. Grown(kept, e, kept', Fresh(S))
    BY <2>3, <2>4, <2>5 DEF Grown
  <2>7. Tracked(mc', kept')
    BY <1>1, <1>3, <1>9, <2>6, AddLastTracks
  <2> QED BY <1>1, <1>2, <1>8, <1>9, <2>2, <2>3, <2>5, <2>7 DEF CounterIInv
<1>10. CASE /\ ~GoesBack(mc, now) /\ ~InLast(mc, now)
            /\ LET m == ExpireOld(mc, now)
               IN  /\ panicked' = (ExpireOldPanics(m) \/ m.active >= NumBuckets)
                   /\ mc' = IF panicked' THEN m ELSE AddToLast(PushBucket(m, now), v)
  <2>1. PICK m : m = ExpireOld(mc, now)
    OBVIOUS
  <2>2. GoodCounter(m) /\ ~ExpireOldPanics(m)
    BY <1>1, <1>2, <2>1, ExpireOldIs
  <2>3. m.active < NumBuckets /\ (m.active > 0 => LastBucket(m).startTime + BucketPeriod <= now)
    BY <1>1, <1>2, <1>10, <2>1, RoomForAnother
  <2>4. ~(m.active >= NumBuckets)
    BY <2>2, <2>3, BucketFacts, BucketSizes DEF GoodCounter
  <2>5. panicked' = FALSE /\ mc' = AddToLast(PushBucket(m, now), v)
    BY <1>10, <2>1, <2>2, <2>4
  <2>6. GoodCounter(mc')
    BY <1>1, <1>2, <2>2, <2>3, <2>5, AddInNew
  <2>7. PICK S \in SUBSET DOMAIN kept : S = Unexpired(now) /\ (1..MaxAdds) \ S # {} /\ KeepAlso(S, e)
    BY <1>5, <1>7, <1>10
  <2>8. PICK h : h = [i \in S |-> kept[i]]
    OBVIOUS
  <2>9. KeptOK(h) /\ Grown(h, e, kept', Fresh(S)) /\ KeptOK(kept')
    BY <1>1, <1>4, <2>7, <2>8, KeepGrows
  <2>10. Trimmed(kept, now, h)
    BY <2>7, <2>8 DEF Trimmed, Unexpired, Stretch
  <2>11. Tracked(m, h)
    BY <1>1, <1>2, <2>1, <2>10, ExpireTracks
  <2>12. Tracked(mc', kept')
    BY <1>1, <1>3, <2>2, <2>3, <2>5, <2>9, <2>11, AddNewTracks
  <2> QED BY <1>1, <1>2, <1>8, <2>5, <2>6, <2>7, <2>9, <2>12 DEF CounterIInv
<1> QED BY <1>6, <1>9, <1>10 DEF Add

LEMMA CounterStarts ==
  ASSUME CounterInit
  PROVE  CounterIInv
<1>1. mc = NewMovingCounter /\ now = 0 /\ panicked = FALSE /\ kept = <<>> /\ monotone = TRUE
  BY DEF CounterInit
<1>2. now \in Times
  BY <1>1, BoundsAssumption DEF Times
<1>3. DOMAIN kept = {} /\ KeptOK(kept)
  BY <1>1 DEF KeptOK
<1>4. mc \in Counters
  <2>1. Empty(0) \in BucketRecs
    BY <1>1, <1>2 DEF Empty, BucketRecs
  <2>2. 0 \in Indices /\ 0 \in 0..NumBuckets /\ 0 \in Int /\ 0 \in Nat
    BY BucketSizes DEF Indices
  <2>3. [i \in Indices |-> Empty(0)] \in [Indices -> BucketRecs]
    BY <2>1
  <2> QED BY <1>1, <2>2, <2>3 DEF NewMovingCounter, Counters
<1>5. mc.active = 0 /\ mc.count = 0 /\ mc.total = 0
  BY <1>1 DEF NewMovingCounter
<1>6. Active(mc) = {}
  BY <1>5 DEF Active
<1>7. BalancedIn(mc)
  <2>1. PICK f, g : f = Counts(mc) /\ g = Totals(mc)
    OBVIOUS
  <2>2. SumFirst(f, 0) = 0 /\ SumFirst(g, 0) = 0
    BY SumZero
  <2> QED BY <1>5, <2>1, <2>2 DEF BalancedIn
<1>8. GoodCounter(mc)
  BY <1>4, <1>6, <1>7 DEF GoodCounter, ApartIn, NoneEmpty
<1>9. Tracked(mc, kept) /\ NoneLate
  BY <1>3, <1>6 DEF Tracked, NoneLate
<1> QED BY <1>1, <1>2, <1>3, <1>8, <1>9 DEF CounterIInv

\* For any number of buckets that share the period evenly, any values and any
\* number of calls: Total, Min and Max return those of the values that count, all
\* that were added during the window if the clock never steps backwards, and else
\* all but those added before the start of the newest bucket; and no panic is
\* reached.  (If the buckets are uneven, getBucket can find no room.)
THEOREM CounterIsAccurate ==
  ASSUME Period = NumBuckets * BucketPeriod
  PROVE  CounterSpec => []Accurate
<1>1. CounterInit => CounterIInv
  BY CounterStarts
<1>2. CounterIInv /\ [CounterNext]_counterVars => CounterIInv'
  <2> SUFFICES ASSUME CounterIInv, [CounterNext]_counterVars PROVE CounterIInv'
    OBVIOUS
  <2>1. GoodCounter(mc) /\ now \in Times /\ now \in Nat /\ KeptOK(kept) /\ panicked = FALSE
        /\ monotone \in BOOLEAN /\ Tracked(mc, kept) /\ NoneLate
    BY BoundsAssumption DEF CounterIInv, Times
  <2>2. CASE Tick
    <3>1. now' = now + 1 /\ now' \in Times /\ UNCHANGED <<mc, panicked, kept, monotone>>
      BY <2>1, <2>2, BoundsAssumption DEF Tick, Times
    <3>2. \A k \in DOMAIN kept : kept[k].at \in Nat
      BY <2>1, AddedFacts DEF KeptOK
    <3>3. NoneLate'
      BY <2>1, <3>1, <3>2 DEF NoneLate
    <3> QED BY <2>1, <3>1, <3>3 DEF CounterIInv
  <2>3. CASE StepBack
    <3>1. now' \in Times /\ monotone' = FALSE /\ UNCHANGED <<mc, panicked, kept>>
      BY <2>1, <2>3, BoundsAssumption DEF StepBack, Times
    <3> QED BY <2>1, <3>1 DEF CounterIInv, NoneLate
  <2>4. CASE Query
    <3>1. /\ mc' = ExpireOld(mc, now) /\ panicked' = ExpireOldPanics(mc') /\ UNCHANGED <<now, monotone>>
          /\ kept' = [i \in Unexpired(now) |-> kept[i]]
      BY <2>4 DEF Query
    <3>2. GoodCounter(mc') /\ ~ExpireOldPanics(mc')
      BY <2>1, <3>1, ExpireOldIs
    <3>3. Trimmed(kept, now, kept') /\ KeptOK(kept') /\ NoneLate'
      BY <2>1, <3>1 DEF Trimmed, KeptOK, Unexpired, Stretch, NoneLate
    <3>4. Tracked(mc', kept')
      BY <2>1, <3>1, <3>3, ExpireTracks
    <3> QED BY <2>1, <3>1, <3>2, <3>3, <3>4 DEF CounterIInv
  <2>5. ASSUME NEW v \in Values, Add(v) PROVE CounterIInv'
    BY <2>5, AddKeeps
  <2>6. CASE UNCHANGED counterVars
    BY <2>6 DEF counterVars, CounterIInv, NoneLate
  <2> QED BY <2>2, <2>3, <2>4, <2>5, <2>6 DEF CounterNext
<1>3. CounterIInv => Accurate
  BY InvariantIsAccurate
<1> QED BY <1>1, <1>2, <1>3, PTL DEF CounterSpec

-----------------------------------------------------------------------------
\* CompressedBuffer.  The n bytes of the stream after the first s.
Run(s, n) == [i \in 1..n |-> s + i]

LEMMA RunFacts ==
  ASSUME NEW s \in Nat, NEW n \in Nat
  PROVE  /\ Run(s, n) \in Seq(Nat) /\ Len(Run(s, n)) = n
         /\ \A i \in 1..n : Run(s, n)[i] = s + i
         /\ Run(s, n) = <<>> <=> n = 0
<1>1. Run(s, n) \in Seq(Nat) /\ Len(Run(s, n)) = n
  BY DEF Run
<1>2. \A i \in 1..n : Run(s, n)[i] = s + i
  BY DEF Run
<1>3. Run(s, n) = <<>> <=> n = 0
  BY <1>1, EmptySeq
<1> QED BY <1>1, <1>2, <1>3

LEMMA SameRun ==
  ASSUME NEW q \in Seq(Nat), NEW s \in Nat, NEW n \in Nat, Len(q) = n, \A i \in 1..n : q[i] = s + i
  PROVE  q = Run(s, n)
<1>1. PICK r : r = Run(s, n)
  OBVIOUS
<1>2. r \in Seq(Nat) /\ Len(r) = n /\ \A i \in 1..n : r[i] = s + i
  BY <1>1, RunFacts
<1>3. Len(q) = Len(r) /\ \A i \in 1..Len(q) : q[i] = r[i]
  BY <1>2
<1>4. q = r
  BY <1>2, <1>3, SeqEqual
<1> QED BY <1>1, <1>4

LEMMA RunSub ==
  ASSUME NEW s \in Nat, NEW n \in Nat, NEW a \in 0..n, NEW b \in a..n
  PROVE  SubSeq(Run(s, n), a + 1, b) = Run(s + a, b - a)
<1>1. PICK r : r = Run(s, n)
  OBVIOUS
<1>2. r \in Seq(Nat) /\ Len(r) = n /\ \A i \in 1..n : r[i] = s + i
  BY <1>1, RunFacts
<1>3. PICK q : q = SubSeq(r, a + 1, b)
  OBVIOUS
<1>4. q \in Seq(Nat) /\ Len(q) = b - a /\ \A i \in 1..(b - a) : q[i] = r[a + i]
  <2>1. a + 1 \in Int /\ b \in Int /\ \A i \in (a + 1)..b : r[i] \in Nat
    BY <1>2
  <2>2. /\ q \in Seq(Nat)
        /\ Len(q) = IF a + 1 <= b THEN b - (a + 1) + 1 ELSE 0
        /\ \A i \in 1..(b - (a + 1) + 1) : q[i] = r[(a + 1) + i - 1]
    BY <1>3, <2>1, SubSeqProperties
  <2> QED BY <2>2
<1>5. \A i \in 1..(b - a) : q[i] = (s + a) + i
  BY <1>2, <1>4
<1>6. PICK d \in Nat, c \in Nat : d = s + a /\ c = b - a
  OBVIOUS
<1>7. q = Run(d, c)
  BY <1>4, <1>5, <1>6, SameRun
<1> QED BY <1>1, <1>3, <1>6, <1>7

Apart(x, a, k) == x = a + k
Joined(p, q, r) == p \o q = r

LEMMA RunsJoin ==
  ASSUME NEW s \in Nat, NEW a \in Nat, NEW b \in Nat, NEW d \in Nat, Apart(d, s, a), NEW c \in Nat, Apart(c, a, b)
  PROVE  Joined(Run(s, a), Run(d, b), Run(s, c))
<1>1. PICK p, r, q : p = Run(s, a) /\ r = Run(d, b) /\ q = p \o r
  OBVIOUS
<1>2. p \in Seq(Nat) /\ Len(p) = a /\ \A i \in 1..a : p[i] = s + i
  BY <1>1, RunFacts
<1>3. r \in Seq(Nat) /\ Len(r) = b /\ \A i \in 1..b : r[i] = d + i
  BY <1>1, RunFacts
<1>4. q \in Seq(Nat) /\ Len(q) = a + b
  <2>1. q \in Seq(Nat) /\ Len(q) = Len(p) + Len(r)
    BY <1>1, <1>2, <1>3, ConcatProperties
  <2> QED BY <1>2, <1>3, <2>1
<1>5. \A i \in 1..(a + b) : q[i] = s + i
  <2> TAKE i \in 1..(a + b)
  <2>1. CASE i \in 1..a
    BY <1>1, <1>2, <1>3, <2>1
  <2>2. CASE i \in (a + 1)..(a + b)
    <3>1. i - a \in 1..b /\ q[i] = r[i - a]
      BY <1>1, <1>2, <1>3, <2>2
    <3> QED BY <1>3, <3>1 DEF Apart
  <2> QED BY <2>1, <2>2
<1>6. q = Run(s, c)
  BY <1>4, <1>5, SameRun DEF Apart
<1> QED BY <1>1, <1>6 DEF Joined

LEMMA MinOfTwo ==
  ASSUME NEW a \in Int, NEW b \in Int
  PROVE  Min({a, b}) = IF a <= b THEN a ELSE b
<1>1. CASE a <= b
  <2>1. \A x \in {a, b} : (\A y \in {a, b} : x <= y) => x = a
    BY <1>1
  <2> QED BY <1>1, <2>1 DEF Min
<1>2. CASE b < a
  <2>1. \A x \in {a, b} : (\A y \in {a, b} : x <= y) => x = b
    BY <1>2
  <2> QED BY <1>2, <2>1 DEF Min
<1> QED BY <1>1, <1>2

-----------------------------------------------------------------------------
\* The turns of the loops of Write and ReadAt, one after the other.
WriteTable(T, s, n) == T = [k \in 0..n |-> IF k = 0 THEN s ELSE WriteTurn(T[k - 1])]
WriteStart(b, p, ok) == [buf |-> b, p |-> p, n |-> 0, ok |-> ok, failed |-> FALSE]

WritesIn(T, b, p, ok, n) ==
  T[0] = WriteStart(b, p, ok) /\ (\A k \in 1..n : T[k] = WriteTurn(T[k - 1])) /\ Write(b, p, ok) = T[n]

LEMMA WriteTurns ==
  ASSUME NEW b, NEW p, NEW ok, NEW n \in Nat, n = Len(p) + 1
  PROVE  \E T : WritesIn(T, b, p, ok, n)
<1>1. PICK s : s = WriteStart(b, p, ok)
  OBVIOUS
<1> DEFINE I == {k \in Nat : \E P : WriteTable(P, s, k)}
<1>2. 0 \in I
  <2>1. PICK P : P = [k \in 0..0 |-> s]
    OBVIOUS
  <2>2. P = [k \in 0..0 |-> IF k = 0 THEN s ELSE WriteTurn(P[k - 1])]
    BY <2>1
  <2> QED BY <2>2 DEF WriteTable
<1>3. ASSUME NEW k \in Nat, k \in I PROVE k + 1 \in I
  <2>1. PICK P : P = [j \in 0..k |-> IF j = 0 THEN s ELSE WriteTurn(P[j - 1])]
    BY <1>3 DEF WriteTable
  <2>2. PICK Q : Q = [j \in 0..(k + 1) |-> IF j = k + 1 THEN WriteTurn(P[k]) ELSE P[j]]
    OBVIOUS
  <2>3. ASSUME NEW j \in 0..(k + 1) PROVE Q[j] = IF j = 0 THEN s ELSE WriteTurn(Q[j - 1])
    <3>1. CASE j = 0
      BY <2>1, <2>2, <3>1
    <3>2. CASE j = k + 1
      <4>1. j - 1 = k /\ k \in 0..(k + 1) /\ k # k + 1 /\ j # 0
        BY <3>2
      <4> QED BY <2>2, <3>2, <4>1
    <3>3. CASE j \in 1..k
      <4>1. j \in 0..k /\ j # 0 /\ j # k + 1 /\ j - 1 \in 0..(k + 1) /\ j - 1 # k + 1
        BY <3>3
      <4>2. P[j] = WriteTurn(P[j - 1])
        BY <2>1, <4>1
      <4>3. Q[j] = P[j] /\ Q[j - 1] = P[j - 1]
        BY <2>2, <4>1
      <4> QED BY <4>1, <4>2, <4>3
    <3> QED BY <3>1, <3>2, <3>3
  <2>4. Q = [j \in 0..(k + 1) |-> IF j = 0 THEN s ELSE WriteTurn(Q[j - 1])]
    BY <2>2, <2>3
  <2> QED BY <2>4 DEF WriteTable
<1>4. n \in I
  <2> HIDE DEF I
  <2> QED BY <1>2, <1>3, SetInduction
<1>5. PICK T : T = CHOOSE P : WriteTable(P, s, n)
  OBVIOUS
<1>6. WriteTable(T, s, n)
  BY <1>4, <1>5
<1>7. Write(b, p, ok) = T[n]
  BY <1>1, <1>5 DEF Write, WriteTable, WriteStart
<1>8. T[0] = s /\ \A k \in 1..n : T[k] = WriteTurn(T[k - 1])
  <2>1. T = [k \in 0..n |-> IF k = 0 THEN s ELSE WriteTurn(T[k - 1])]
    BY <1>6 DEF WriteTable
  <2>2. 0 \in 0..n /\ \A k \in 1..n : k \in 0..n /\ k # 0
    OBVIOUS
  <2> QED BY <2>1, <2>2
<1>9. WritesIn(T, b, p, ok, n)
  BY <1>1, <1>7, <1>8 DEF WritesIn
<1> QED BY <1>9

ReadTable(T, s, n) == T = [k \in 0..n |-> IF k = 0 THEN s ELSE ReadTurn(T[k - 1])]
ReadStart(b, n, o, ok) == [buf |-> b, left |-> n, off |-> o, data |-> <<>>, ok |-> ok, err |-> "nil"]

ReadsIn(T, b, m, o, ok, n) ==
  T[0] = ReadStart(b, m, o, ok) /\ (\A k \in 1..n : T[k] = ReadTurn(T[k - 1])) /\ ReadAt(b, m, o, ok) = T[n]

LEMMA ReadTurns ==
  ASSUME NEW b, NEW m \in Nat, NEW o, NEW ok, NEW n \in Nat, n = m + 1
  PROVE  \E T : ReadsIn(T, b, m, o, ok, n)
<1>1. PICK s : s = ReadStart(b, m, o, ok)
  OBVIOUS
<1> DEFINE I == {k \in Nat : \E P : ReadTable(P, s, k)}
<1>2. 0 \in I
  <2>1. PICK P : P = [k \in 0..0 |-> s]
    OBVIOUS
  <2>2. P = [k \in 0..0 |-> IF k = 0 THEN s ELSE ReadTurn(P[k - 1])]
    BY <2>1
  <2> QED BY <2>2 DEF ReadTable
<1>3. ASSUME NEW k \in Nat, k \in I PROVE k + 1 \in I
  <2>1. PICK P : P = [j \in 0..k |-> IF j = 0 THEN s ELSE ReadTurn(P[j - 1])]
    BY <1>3 DEF ReadTable
  <2>2. PICK Q : Q = [j \in 0..(k + 1) |-> IF j = k + 1 THEN ReadTurn(P[k]) ELSE P[j]]
    OBVIOUS
  <2>3. ASSUME NEW j \in 0..(k + 1) PROVE Q[j] = IF j = 0 THEN s ELSE ReadTurn(Q[j - 1])
    <3>1. CASE j = 0
      BY <2>1, <2>2, <3>1
    <3>2. CASE j = k + 1
      <4>1. j - 1 = k /\ k \in 0..(k + 1) /\ k # k + 1 /\ j # 0
        BY <3>2
      <4> QED BY <2>2, <3>2, <4>1
    <3>3. CASE j \in 1..k
      <4>1. j \in 0..k /\ j # 0 /\ j # k + 1 /\ j - 1 \in 0..(k + 1) /\ j - 1 # k + 1
        BY <3>3
      <4>2. P[j] = ReadTurn(P[j - 1])
        BY <2>1, <4>1
      <4>3. Q[j] = P[j] /\ Q[j - 1] = P[j - 1]
        BY <2>2, <4>1
      <4> QED BY <4>1, <4>2, <4>3
    <3> QED BY <3>1, <3>2, <3>3
  <2>4. Q = [j \in 0..(k + 1) |-> IF j = 0 THEN s ELSE ReadTurn(Q[j - 1])]
    BY <2>2, <2>3
  <2> QED BY <2>4 DEF ReadTable
<1>4. n \in I
  <2> HIDE DEF I
  <2> QED BY <1>2, <1>3, SetInduction
<1>5. PICK T : T = CHOOSE P : ReadTable(P, s, n)
  OBVIOUS
<1>6. ReadTable(T, s, n)
  BY <1>4, <1>5
<1>7. ReadAt(b, m, o, ok) = T[n]
  BY <1>1, <1>5 DEF ReadAt, ReadTable, ReadStart
<1>8. T[0] = s /\ \A k \in 1..n : T[k] = ReadTurn(T[k - 1])
  <2>1. T = [k \in 0..n |-> IF k = 0 THEN s ELSE ReadTurn(T[k - 1])]
    BY <1>6 DEF ReadTable
  <2>2. 0 \in 0..n /\ \A k \in 1..n : k \in 0..n /\ k # 0
    OBVIOUS
  <2> QED BY <2>1, <2>2
<1>9. ReadsIn(T, b, m, o, ok, n)
  BY <1>1, <1>7, <1>8 DEF ReadsIn
<1> QED BY <1>9

-----------------------------------------------------------------------------
\* A buffer that holds the stream: its blocks are the stream's, in order, the
\* staged bytes follow them, and what is cached is one of the blocks.
Chunk(i) == Run(i * BlockSize, BlockSize)
Zipped == [zlib : Seq(Nat)]
Bufs ==
  [blocks : Seq(Zipped), size : Nat, writeBuf : Seq(Nat), lastDecompIndex : Nat, lastDecompBlock : Seq(Nat)]

CacheOK(b) ==
  \/ b.lastDecompBlock = <<>>
  \/ b.lastDecompIndex < Len(b.blocks) /\ b.lastDecompBlock = Chunk(b.lastDecompIndex)
HoldsStream(b) ==
  /\ b \in Bufs
  /\ Len(b.writeBuf) <= BlockSize
  /\ b.size = Compressed(b) + Len(b.writeBuf)
  /\ \A i \in 1..Len(b.blocks) : b.blocks[i] = Deflate(Chunk(i - 1))
  /\ b.writeBuf = Run(Compressed(b), Len(b.writeBuf))
  /\ CacheOK(b)

LEMMA BufFacts ==
  ASSUME NEW b \in Bufs
  PROVE  /\ BlockSize \in Nat /\ BlockSize > 0
         /\ b.blocks \in Seq(Zipped) /\ b.size \in Nat /\ b.writeBuf \in Seq(Nat)
         /\ b.lastDecompIndex \in Nat /\ b.lastDecompBlock \in Seq(Nat)
         /\ Len(b.blocks) \in Nat /\ Len(b.writeBuf) \in Nat /\ Compressed(b) \in Nat
<1>1. BlockSize \in Nat /\ BlockSize > 0
  BY BlockAssumption
<1>2. /\ b.blocks \in Seq(Zipped) /\ b.size \in Nat /\ b.writeBuf \in Seq(Nat)
      /\ b.lastDecompIndex \in Nat /\ b.lastDecompBlock \in Seq(Nat)
  BY DEF Bufs
<1>3. Len(b.blocks) \in Nat /\ Len(b.writeBuf) \in Nat
  BY <1>2
<1>4. Compressed(b) \in Nat
  BY <1>1, <1>3 DEF Compressed
<1> QED BY <1>1, <1>2, <1>3, <1>4

\* Which block a position is in.
LEMMA BlockOf ==
  ASSUME NEW x \in Nat
  PROVE  /\ x \div BlockSize \in Nat /\ x % BlockSize \in 0..(BlockSize - 1)
         /\ x = (x \div BlockSize) * BlockSize + (x % BlockSize)
         /\ \A n \in Nat : x < n * BlockSize <=> x \div BlockSize < n
<1>1. BlockSize \in Nat /\ BlockSize > 0
  BY BlockAssumption
<1>2. x \div BlockSize \in Nat /\ x % BlockSize \in 0..(BlockSize - 1)
  BY <1>1
<1>3. x = (x \div BlockSize) * BlockSize + (x % BlockSize)
  BY <1>1
<1>4. PICK q \in Nat, r \in 0..(BlockSize - 1), B \in Nat : q = x \div BlockSize /\ r = x % BlockSize /\ B = BlockSize
  BY <1>1, <1>2
<1>5. x = q * B + r /\ r < B
  BY <1>3, <1>4
<1>6. ASSUME NEW n \in Nat PROVE x < n * B <=> q < n
  <2>1. ASSUME q < n PROVE x < n * B
    <3>1. (q + 1) * B <= n * B
      BY <1>4, <2>1
    <3> QED BY <1>4, <1>5, <3>1
  <2>2. ASSUME n <= q PROVE ~(x < n * B)
    <3>1. n * B <= q * B
      BY <1>4, <2>2
    <3> QED BY <1>4, <1>5, <3>1
  <2> QED BY <2>1, <2>2
<1> QED BY <1>2, <1>3, <1>4, <1>6

LEMMA ContentIs ==
  ASSUME NEW b, HoldsStream(b)
  PROVE  Content(b) = Run(0, b.size)
<1>1. PICK B \in Nat, L \in Nat, W \in Nat, C \in Nat :
        B = BlockSize /\ L = Len(b.blocks) /\ W = Len(b.writeBuf) /\ C = Compressed(b) /\ B > 0 /\ C = L * B
  BY BufFacts DEF HoldsStream, Compressed
<1>2. b.size = C + W /\ b.writeBuf = Run(C, W) /\ \A i \in 1..L : b.blocks[i] = Deflate(Chunk(i - 1))
  BY <1>1 DEF HoldsStream
<1>3. PICK c : c = Content(b)
  OBVIOUS
<1>4. \A i \in 1..(C + W) :
        c[i] = IF i <= C THEN Inflate(b.blocks[((i - 1) \div BlockSize) + 1])[((i - 1) % BlockSize) + 1] ELSE b.writeBuf[i - C]
  BY <1>1, <1>3 DEF Content
<1>5. ASSUME NEW i \in 1..(C + W) PROVE c[i] = i
  <2>1. CASE i <= C
    <3>1. PICK x \in Nat : x = i - 1
      OBVIOUS
    <3>2. PICK q \in Nat, r \in 0..(B - 1) : q = x \div BlockSize /\ r = x % BlockSize /\ x = q * B + r /\ q < L
      <4>1. x < L * BlockSize
        BY <1>1, <2>1, <3>1
      <4> QED BY <1>1, <4>1, BlockOf
    <3>3. c[i] = Inflate(b.blocks[q + 1])[r + 1]
      BY <1>4, <2>1, <3>1, <3>2
    <3>4. q + 1 \in 1..L /\ (q + 1) - 1 = q /\ r + 1 \in 1..B
      BY <3>2
    <3>5. Inflate(b.blocks[q + 1]) = Chunk(q)
      <4>1. b.blocks[q + 1] = Deflate(Chunk((q + 1) - 1))
        BY <1>2, <3>4
      <4> QED BY <3>4, <4>1 DEF Inflate, Deflate
    <3>6. q * B \in Nat
      BY <1>1
    <3>7. Chunk(q)[r + 1] = q * B + (r + 1)
      BY <1>1, <3>4, <3>6, RunFacts DEF Chunk
    <3>8. PICK a \in Nat : a = q * B
      BY <3>6
    <3>9. c[i] = a + (r + 1) /\ x = a + r
      BY <3>2, <3>3, <3>5, <3>7, <3>8
    <3> QED BY <3>1, <3>9
  <2>2. CASE ~(i <= C)
    <3>1. PICK y \in 1..W : y = i - C /\ C + y = i
      BY <2>2
    <3>2. b.writeBuf[y] = C + y
      <4>1. \A j \in 1..W : Run(C, W)[j] = C + j
        BY RunFacts
      <4> QED BY <1>2, <4>1
    <3> QED BY <1>4, <2>2, <3>1, <3>2
  <2> QED BY <2>1, <2>2
<1>6. c = [i \in 1..(C + W) |-> i]
  <2>1. c = [i \in 1..(C + W) |-> c[i]]
    BY <1>1, <1>3 DEF Content
  <2> QED BY <1>5, <2>1
<1>7. Run(0, C + W) = [i \in 1..(C + W) |-> i]
  BY DEF Run
<1> QED BY <1>2, <1>3, <1>6, <1>7

\* The buffer b with other blocks, size and staged bytes.
Parts(c, X, Y, Z, b) ==
  c = [blocks |-> X, size |-> Y, writeBuf |-> Z,
       lastDecompIndex |-> b.lastDecompIndex, lastDecompBlock |-> b.lastDecompBlock]
InOrder(X) == X \in Seq(Zipped) /\ \A i \in 1..Len(X) : X[i] = Deflate(Chunk(i - 1))

Sized(q, n) == Len(q) = n
\* L blocks hold C bytes.
Fills(L, C) == C = L * BlockSize
\* The parts of a buffer that holds the stream.
Shape(b, X, Z, L, W, C, Y) ==
  /\ b \in Bufs /\ b.blocks = X /\ b.size = Y /\ b.writeBuf = Z
  /\ L \in Nat /\ W \in Nat /\ C \in Nat /\ Y \in Nat
  /\ Sized(X, L) /\ InOrder(X)
  /\ Sized(Z, W) /\ Z = Run(C, W) /\ W <= BlockSize /\ Fills(L, C) /\ Y = C + W

LEMMA PartsHold ==
  ASSUME NEW b, HoldsStream(b), NEW c, NEW X, NEW Y \in Nat, NEW Z, Parts(c, X, Y, Z, b),
         InOrder(X), NEW L \in Nat, Sized(X, L), Sized(b.blocks, L) \/ Sized(b.blocks, L - 1), NEW C \in Nat, Fills(L, C),
         NEW W \in Nat, W <= BlockSize, Z = Run(C, W), Y = C + W
  PROVE  HoldsStream(c) /\ c.size = Y /\ c.blocks = X /\ c.writeBuf = Z /\ Sized(c.writeBuf, W)
<1>1. b \in Bufs /\ CacheOK(b)
  BY DEF HoldsStream
<1>2. b.lastDecompIndex \in Nat /\ b.lastDecompBlock \in Seq(Nat) /\ Len(b.blocks) \in Nat
  BY <1>1, BufFacts
<1>3. X \in Seq(Zipped) /\ Len(X) = L /\ \A i \in 1..L : X[i] = Deflate(Chunk(i - 1))
  BY DEF InOrder, Sized
<1>4. Z \in Seq(Nat) /\ Len(Z) = W
  BY RunFacts
<1>5. /\ c.blocks = X /\ c.size = Y /\ c.writeBuf = Z /\ c.lastDecompIndex = b.lastDecompIndex
      /\ c.lastDecompBlock = b.lastDecompBlock /\ c \in Bufs
  BY <1>2, <1>3, <1>4 DEF Parts, Bufs
<1>6. Compressed(c) = C
  BY <1>3, <1>5 DEF Compressed, Fills
<1>7. CacheOK(c)
  <2>1. Len(b.blocks) <= Len(c.blocks) /\ Len(c.blocks) \in Nat
    BY <1>2, <1>3, <1>5 DEF Sized
  <2> QED BY <1>1, <1>2, <1>5, <2>1 DEF CacheOK
<1>8. /\ Len(c.writeBuf) <= BlockSize /\ c.size = Compressed(c) + Len(c.writeBuf)
      /\ c.writeBuf = Run(Compressed(c), Len(c.writeBuf))
  BY <1>4, <1>5, <1>6
<1>9. \A i \in 1..Len(c.blocks) : c.blocks[i] = Deflate(Chunk(i - 1))
  BY <1>3, <1>5
<1>10. HoldsStream(c)
  BY <1>5, <1>7, <1>8, <1>9 DEF HoldsStream
<1> QED BY <1>4, <1>5, <1>10 DEF Sized

LEMMA Shaped ==
  ASSUME NEW b, HoldsStream(b)
  PROVE  \E X, Z, L, W, C, Y : Shape(b, X, Z, L, W, C, Y)
<1>1. b \in Bufs
  BY DEF HoldsStream
<1>2. PICK X, Z, L, W, C, Y :
        /\ X = b.blocks /\ Z = b.writeBuf /\ Y = b.size /\ L = Len(X) /\ W = Len(Z) /\ C = Compressed(b)
  OBVIOUS
<1>3. L \in Nat /\ W \in Nat /\ C \in Nat /\ Y \in Nat /\ X \in Seq(Zipped)
  BY <1>1, <1>2, BufFacts
<1>4. Fills(L, C)
  BY <1>2 DEF Compressed, Fills
<1>5. W <= BlockSize /\ Y = C + W /\ Z = Run(C, W) /\ \A i \in 1..L : X[i] = Deflate(Chunk(i - 1))
  BY <1>2 DEF HoldsStream
<1>6. InOrder(X)
  BY <1>2, <1>3, <1>5 DEF InOrder
<1>7. Shape(b, X, Z, L, W, C, Y)
  BY <1>1, <1>2, <1>3, <1>4, <1>5, <1>6 DEF Shape, Sized
<1> QED BY <1>7

LEMMA NextFills ==
  ASSUME NEW L \in Nat, NEW C \in Nat, Fills(L, C), NEW B \in Nat, B = BlockSize
  PROVE  Fills(L + 1, C + B)
<1>1. (L + 1) * B = L * B + B
  OBVIOUS
<1> QED BY <1>1 DEF Fills

LEMMA BlockAppended ==
  ASSUME NEW X, InOrder(X), NEW L \in Nat, Sized(X, L), NEW Q, Q = Append(X, Deflate(Chunk(L)))
  PROVE  InOrder(Q) /\ Sized(Q, L + 1)
<1>1. BlockSize \in Nat /\ L * BlockSize \in Nat
  BY BlockAssumption
<1>2. PICK d : d = Deflate(Chunk(L))
  OBVIOUS
<1>3. Chunk(L) \in Seq(Nat)
  BY <1>1, RunFacts DEF Chunk
<1>4. d \in Zipped
  BY <1>2, <1>3 DEF Deflate, Zipped
<1>5. X \in Seq(Zipped) /\ Len(X) = L /\ \A i \in 1..L : X[i] = Deflate(Chunk(i - 1))
  BY DEF InOrder, Sized
<1>6. Q \in Seq(Zipped) /\ Len(Q) = L + 1 /\ (\A i \in 1..L : Q[i] = X[i]) /\ Q[L + 1] = d
  BY <1>2, <1>4, <1>5
<1>7. ASSUME NEW i \in 1..(L + 1) PROVE Q[i] = Deflate(Chunk(i - 1))
  <2>1. CASE i \in 1..L
    BY <1>5, <1>6, <2>1
  <2>2. CASE i = L + 1
    <3>1. i - 1 = L
      BY <2>2
    <3> QED BY <1>2, <1>6, <2>2, <3>1
  <2>3. i \in 1..L \/ i = L + 1
    OBVIOUS
  <2> QED BY <2>1, <2>2, <2>3
<1> QED BY <1>6, <1>7 DEF InOrder, Sized

\* The state of Write after some turns: s bytes were held before, m are to be
\* written, and what is left of them follows what is held.
Writes == [buf : Bufs, p : Seq(Nat), n : Nat, ok : Nat, failed : BOOLEAN]
Writing(w, s, m) ==
  /\ w \in Writes /\ HoldsStream(w.buf) /\ w.n <= m
  /\ w.buf.size = s + w.n /\ w.p = Run(s + w.n, m - w.n)
WriteDone(w) == w.failed \/ w.p = <<>>
Later(w, c, n, ok, failed) ==
  [buf |-> c, p |-> SubSeq(w.p, n + 1, Len(w.p)), n |-> w.n + n, ok |-> ok, failed |-> failed]

LEMMA LaterWrites ==
  ASSUME NEW s \in Nat, NEW m \in Nat, NEW w, Writing(w, s, m), NEW l \in Nat, Sized(w.p, l),
         NEW n \in Nat, n <= l, NEW Y \in Nat, w.buf.size = Y,
         NEW c, HoldsStream(c), c.size = Y + n, NEW ok \in Nat, NEW failed \in BOOLEAN,
         NEW z, z = Later(w, c, n, ok, failed)
  PROVE  Writing(z, s, m) /\ z.buf = c /\ z.n = w.n + n /\ z.failed = failed
<1>1. PICK k \in Nat, e \in Nat, d \in Nat : k = w.n /\ e = m - k /\ d = s + k /\ k <= m
  BY DEF Writing, Writes
<1>2. w.p = Run(d, e) /\ Y = d
  BY <1>1 DEF Writing
<1>3. e = l
  BY <1>2, RunFacts DEF Sized
<1>4. PICK k2 \in Nat, l2 \in Nat, d2 \in Nat : k2 = k + n /\ l2 = l - n /\ d2 = d + n
  OBVIOUS
<1>5. n \in 0..l /\ l \in n..l
  OBVIOUS
<1>6. SubSeq(Run(d, l), n + 1, l) = Run(d + n, l - n)
  BY <1>5, RunSub
<1>7. SubSeq(w.p, n + 1, Len(w.p)) = Run(d2, l2)
  BY <1>2, <1>3, <1>4, <1>6 DEF Sized
<1>8. k2 <= m /\ l2 = m - k2 /\ d2 = s + k2
  BY <1>1, <1>3, <1>4
<1>9. PICK q : q = Run(d2, l2)
  OBVIOUS
<1>10. q \in Seq(Nat) /\ c \in Bufs
  BY <1>9, RunFacts DEF HoldsStream
<1>11. z = [buf |-> c, p |-> q, n |-> k2, ok |-> ok, failed |-> failed]
  BY <1>1, <1>4, <1>7, <1>9 DEF Later
<1>12. z \in Writes /\ z.buf = c /\ z.n = k2 /\ z.p = q /\ z.failed = failed
  BY <1>10, <1>11 DEF Writes
<1>13. c.size = s + k2
  BY <1>1, <1>2, <1>4
<1>14. Writing(z, s, m)
  BY <1>8, <1>9, <1>12, <1>13 DEF Writing
<1> QED BY <1>1, <1>4, <1>12, <1>14

\* What the turns of Write make of the buffer.
Staged(c, b, n, data) == c = [[b EXCEPT !.size = @ + n] EXCEPT !.writeBuf = @ \o data]
Direct(c, b, n, data) == c = AppendBlock([b EXCEPT !.size = @ + n], data)

LEMMA StagedIs ==
  ASSUME NEW b, HoldsStream(b), NEW Y \in Nat, Y = b.size,
         NEW W \in Nat, Sized(b.writeBuf, W), NEW n \in Nat, W + n <= BlockSize, NEW data, data = Run(Y, n),
         NEW c, Staged(c, b, n, data)
  PROVE  HoldsStream(c) /\ c.size = Y + n /\ Sized(c.writeBuf, W + n)
<1>1. PICK X, Z, L, W0, C, Y0 : Shape(b, X, Z, L, W0, C, Y0)
  BY Shaped
<1>2. /\ b \in Bufs /\ b.blocks = X /\ b.writeBuf = Z /\ L \in Nat /\ C \in Nat /\ Sized(X, L) /\ InOrder(X)
      /\ Z = Run(C, W) /\ Fills(L, C) /\ Y = C + W
  BY <1>1 DEF Shape, Sized
<1>3. PICK V, D, Z2 : V = W + n /\ D = Y + n /\ Z2 = Z \o data
  OBVIOUS
<1>4. V \in Nat /\ D \in Nat /\ V <= BlockSize /\ D = C + V
  BY <1>2, <1>3
<1>5. Z2 = Run(C, V)
  <2>1. Apart(Y, C, W) /\ Apart(V, W, n)
    BY <1>2, <1>3 DEF Apart
  <2>2. Joined(Run(C, W), Run(Y, n), Run(C, V))
    <3>1. C \in Nat /\ V \in Nat
      BY <1>2, <1>4
    <3> QED BY <2>1, <3>1, RunsJoin
  <2> QED BY <1>2, <1>3, <2>2 DEF Joined
<1>6. Parts(c, X, D, Z2, b)
  BY <1>2, <1>3 DEF Parts, Bufs, Staged
<1>7. Sized(b.blocks, L) /\ Sized(X, L) /\ InOrder(X) /\ Fills(L, C) /\ L \in Nat /\ C \in Nat
  BY <1>2
<1>8. HoldsStream(c) /\ c.size = D /\ c.writeBuf = Z2 /\ Sized(c.writeBuf, V)
  BY <1>4, <1>5, <1>6, <1>7, PartsHold
<1> QED BY <1>3, <1>8

LEMMA FlushedIs ==
  ASSUME NEW b, HoldsStream(b), Sized(b.writeBuf, BlockSize), NEW c, c = FlushWriter(b)
  PROVE  HoldsStream(c) /\ c.size = b.size /\ Sized(c.writeBuf, 0)
<1>0. PICK B \in Nat : B = BlockSize
  BY BlockAssumption
<1>1. PICK X, Z, L, W, C, Y : Shape(b, X, Z, L, W, C, Y)
  BY Shaped
<1>2. /\ b \in Bufs /\ b.blocks = X /\ b.writeBuf = Z /\ L \in Nat /\ C \in Nat /\ Sized(X, L) /\ InOrder(X)
      /\ Z = Run(C, B) /\ Fills(L, C) /\ Y = C + B /\ b.size = Y
  BY <1>0, <1>1 DEF Shape, Sized
<1>3. Z = Chunk(L)
  BY <1>0, <1>2 DEF Chunk, Fills
<1>4. PICK X2 : X2 = Append(X, Deflate(Chunk(L)))
  OBVIOUS
<1>5. InOrder(X2) /\ Sized(X2, L + 1)
  BY <1>2, <1>4, BlockAppended
<1>6. Parts(c, X2, Y, <<>>, b)
  BY <1>2, <1>3, <1>4 DEF Parts, Bufs, FlushWriter, AppendBlock
<1>7. PICK L2 : L2 = L + 1
  OBVIOUS
<1>8. Fills(L2, Y)
  BY <1>0, <1>2, <1>7, NextFills
<1>9. L2 \in Nat /\ Y \in Nat /\ Sized(X2, L2) /\ Sized(b.blocks, L2 - 1) /\ 0 <= BlockSize /\ Y = Y + 0
  BY <1>0, <1>2, <1>5, <1>7
<1>10. <<>> = Run(Y, 0)
  BY <1>9, RunFacts
<1>11. HoldsStream(c) /\ c.size = Y /\ Sized(c.writeBuf, 0)
  BY <1>5, <1>6, <1>8, <1>9, <1>10, PartsHold
<1> QED BY <1>2, <1>11

LEMMA DirectIs ==
  ASSUME NEW b, HoldsStream(b), NEW Y \in Nat, Y = b.size, NEW B \in Nat, B = BlockSize,
         Sized(b.writeBuf, 0), NEW data, data = Run(Y, B),
         NEW c, Direct(c, b, B, data)
  PROVE  HoldsStream(c) /\ c.size = Y + B /\ Sized(c.writeBuf, 0)
<1>1. PICK X, Z, L, W, C, Y0 : Shape(b, X, Z, L, W, C, Y0)
  BY Shaped
<1>2. /\ b \in Bufs /\ b.blocks = X /\ b.writeBuf = Z /\ L \in Nat /\ Sized(X, L) /\ InOrder(X)
      /\ Fills(L, Y) /\ Z = Run(Y, 0)
  <2>1. W = 0 /\ C \in Nat /\ Y = C + W
    BY <1>1 DEF Shape, Sized
  <2>2. Y = C
    BY <2>1
  <2> QED BY <1>1, <2>1, <2>2 DEF Shape
<1>3. data = Chunk(L)
  BY <1>2 DEF Chunk, Fills
<1>4. PICK X2 : X2 = Append(X, Deflate(Chunk(L)))
  OBVIOUS
<1>5. InOrder(X2) /\ Sized(X2, L + 1)
  BY <1>2, <1>4, BlockAppended
<1>6. PICK L2, D : L2 = L + 1 /\ D = Y + B
  OBVIOUS
<1>7. Parts(c, X2, D, Z, b)
  BY <1>2, <1>3, <1>4, <1>6 DEF Parts, Bufs, AppendBlock, Direct
<1>8. Fills(L2, D)
  BY <1>2, <1>6, NextFills
<1>9. L2 \in Nat /\ D \in Nat /\ Sized(X2, L2) /\ Sized(b.blocks, L2 - 1) /\ 0 <= BlockSize /\ D = D + 0
  BY <1>2, <1>5, <1>6
<1>10. Z = Run(D, 0)
  <2>1. Run(D, 0) = <<>> /\ Run(Y, 0) = <<>>
    BY <1>9, RunFacts
  <2> QED BY <1>2, <2>1
<1>11. HoldsStream(c) /\ c.size = D /\ Sized(c.writeBuf, 0)
  BY <1>5, <1>7, <1>8, <1>9, <1>10, PartsHold
<1> QED BY <1>6, <1>11

LEMMA WriteTurnIs ==
  ASSUME NEW s \in Nat, NEW m \in Nat, NEW w, Writing(w, s, m), NEW z, z = WriteTurn(w)
  PROVE  /\ Writing(z, s, m)
         /\ WriteDone(w) => z = w
         /\ ~WriteDone(w) =>
              \/ WriteDone(z)
              \/ Len(z.buf.writeBuf) < BlockSize /\ (z.n > w.n \/ Len(w.buf.writeBuf) = BlockSize)
<1>1. w \in Writes /\ HoldsStream(w.buf) /\ w.n \in Nat /\ w.ok \in Nat /\ w.failed \in BOOLEAN /\ w.n <= m
  BY DEF Writing, Writes
<1>2. PICK b : b = w.buf /\ HoldsStream(b)
  BY <1>1
<1>3. PICK B \in Nat, W \in Nat, Y \in Nat :
        b \in Bufs /\ B = BlockSize /\ B > 0 /\ Sized(b.writeBuf, W) /\ Y = b.size /\ W <= B
  <2>1. PICK X, Z, L, W, C, Y : Shape(b, X, Z, L, W, C, Y)
    BY <1>2, Shaped
  <2> QED BY <2>1, BlockAssumption DEF Shape
<1>4. PICK l \in Nat : Sized(w.p, l) /\ w.p = Run(Y, l)
  <2>1. PICK d \in Nat, e \in Nat : d = s + w.n /\ e = m - w.n
    BY <1>1
  <2>2. w.p = Run(d, e) /\ Y = d
    BY <1>2, <1>3, <2>1 DEF Writing
  <2>3. Len(Run(d, e)) = e
    BY RunFacts
  <2> QED BY <2>2, <2>3 DEF Sized
<1>5. PICK n \in Nat : n = Min({Len(w.p), BlockSize - Len(b.writeBuf)}) /\ n <= l /\ W + n <= B /\ (n = l \/ W + n = B)
  <2>1. PICK y \in Nat : y = B - W
    BY <1>3
  <2>2. Min({l, y}) = IF l <= y THEN l ELSE y
    BY MinOfTwo
  <2>3. Min({Len(w.p), BlockSize - Len(b.writeBuf)}) = Min({l, y})
    BY <1>3, <1>4, <2>1 DEF Sized
  <2> QED BY <1>3, <2>1, <2>2, <2>3
<1>6. PICK data : data = SubSeq(w.p, 1, n) /\ data = Run(Y, n)
  <2>1. 0 \in 0..l /\ n \in 0..l
    BY <1>5
  <2>2. SubSeq(Run(Y, l), 0 + 1, n) = Run(Y + 0, n - 0)
    BY <2>1, RunSub
  <2> QED BY <1>4, <2>1, <2>2
<1>7. PICK took, staged, direct, flushed :
        /\ took = [b EXCEPT !.size = @ + n] /\ staged = [took EXCEPT !.writeBuf = @ \o data]
        /\ direct = AppendBlock(took, data) /\ flushed = FlushWriter(staged)
  OBVIOUS
<1>8. z = IF w.failed \/ w.p = <<>> THEN w
          ELSE IF n = BlockSize /\ w.ok = 0 THEN [w EXCEPT !.failed = TRUE]
          ELSE IF n = BlockSize THEN Later(w, direct, n, w.ok - 1, FALSE)
          ELSE IF ~(~(n = BlockSize) /\ Len(b.writeBuf) + n = BlockSize) THEN Later(w, staged, n, w.ok, FALSE)
          ELSE IF w.ok = 0 THEN Later(w, staged, n, 0, TRUE)
          ELSE Later(w, flushed, n, w.ok - 1, FALSE)
  BY <1>2, <1>5, <1>6, <1>7 DEF WriteTurn, Later
<1>9. HoldsStream(staged) /\ staged.size = Y + n /\ Sized(staged.writeBuf, W + n)
  <2>1. Staged(staged, b, n, data)
    BY <1>7 DEF Staged
  <2>2. W + n <= BlockSize
    BY <1>3, <1>5
  <2>3. data = Run(Y, n)
    BY <1>6
  <2>4. HoldsStream(b) /\ Y = b.size /\ Sized(b.writeBuf, W)
    BY <1>2, <1>3
  <2> QED BY <2>1, <2>2, <2>3, <2>4, StagedIs
<1>10. w.buf.size = Y
  BY <1>2, <1>3
<1>0. PICK no \in BOOLEAN, yes \in BOOLEAN : no = FALSE /\ yes = TRUE
  OBVIOUS
<1>11. CASE WriteDone(w)
  BY <1>8, <1>11 DEF WriteDone
<1>12. CASE ~WriteDone(w) /\ n = BlockSize /\ w.ok = 0
  <2>1. z = [w EXCEPT !.failed = TRUE]
    BY <1>8, <1>12 DEF WriteDone
  <2>2. z \in Writes /\ z.buf = w.buf /\ z.n = w.n /\ z.p = w.p /\ z.failed = TRUE
    BY <1>1, <2>1 DEF Writes
  <2> QED BY <1>12, <2>2 DEF Writing, WriteDone
<1>13. CASE ~WriteDone(w) /\ n = BlockSize /\ w.ok # 0
  <2>1. PICK o \in Nat : o = w.ok - 1
    BY <1>1, <1>13
  <2>2. z = Later(w, direct, n, o, no)
    BY <1>0, <1>8, <1>13, <2>1 DEF WriteDone
  <2>3. n = B /\ W = 0
    BY <1>3, <1>5, <1>13
  <2>4. HoldsStream(direct) /\ direct.size = Y + n /\ Sized(direct.writeBuf, 0)
    <3>1. Direct(direct, b, n, data)
      BY <1>7 DEF Direct
    <3>2. data = Run(Y, B) /\ Direct(direct, b, B, data)
      BY <1>6, <2>3, <3>1
    <3>3. HoldsStream(b) /\ Y = b.size /\ B = BlockSize /\ Sized(b.writeBuf, 0)
      BY <1>2, <1>3, <2>3
    <3>4. HoldsStream(direct) /\ direct.size = Y + B /\ Sized(direct.writeBuf, 0)
      BY <3>2, <3>3, DirectIs
    <3> QED BY <2>3, <3>4
  <2>5. Writing(z, s, m) /\ z.buf = direct /\ z.n = w.n + n
    BY <1>4, <1>5, <1>10, <2>2, <2>4, LaterWrites
  <2> QED BY <1>1, <1>3, <1>13, <2>3, <2>4, <2>5 DEF Sized
<1>14. CASE ~WriteDone(w) /\ n # BlockSize /\ W + n # B
  <2>0. PICK o \in Nat : o = w.ok
    BY <1>1
  <2>1. z = Later(w, staged, n, o, no)
    BY <1>0, <2>0, <1>3, <1>8, <1>14 DEF WriteDone, Sized
  <2>2. Writing(z, s, m) /\ z.buf = staged /\ z.n = w.n + n
    BY <1>4, <1>5, <1>9, <1>10, <2>1, LaterWrites
  <2>3. l # 0
    BY <1>4, <1>14, RunFacts DEF WriteDone
  <2>4. W + n < B /\ n > 0
    BY <1>5, <1>14, <2>3
  <2> QED BY <1>1, <1>3, <1>9, <1>14, <2>2, <2>4 DEF Sized
<1>15. CASE ~WriteDone(w) /\ n # BlockSize /\ W + n = B /\ w.ok = 0
  <2>1. z = Later(w, staged, n, 0, yes)
    BY <1>0, <1>3, <1>8, <1>15 DEF WriteDone, Sized
  <2>2. Writing(z, s, m) /\ z.failed = yes
    BY <1>4, <1>5, <1>9, <1>10, <2>1, LaterWrites
  <2> QED BY <1>0, <1>15, <2>2 DEF WriteDone
<1>16. CASE ~WriteDone(w) /\ n # BlockSize /\ W + n = B /\ w.ok # 0
  <2>1. PICK o \in Nat : o = w.ok - 1
    BY <1>1, <1>16
  <2>2. z = Later(w, flushed, n, o, no)
    BY <1>0, <1>3, <1>8, <1>16, <2>1 DEF WriteDone, Sized
  <2>3. HoldsStream(flushed) /\ flushed.size = Y + n /\ Sized(flushed.writeBuf, 0)
    BY <1>3, <1>7, <1>9, <1>16, FlushedIs
  <2>4. Writing(z, s, m) /\ z.buf = flushed /\ z.n = w.n + n
    BY <1>4, <1>5, <1>10, <2>2, <2>3, LaterWrites
  <2>5. n = 0 => W = B
    BY <1>16
  <2> QED BY <1>1, <1>2, <1>3, <1>16, <2>3, <2>4, <2>5 DEF Sized
<1> QED BY <1>11, <1>12, <1>13, <1>14, <1>15, <1>16

\* Write takes bytes of p in order, and all of them unless a compression fails.
LEMMA WriteIs ==
  ASSUME NEW b, HoldsStream(b), NEW s \in Nat, s = b.size, NEW m \in Nat, NEW ok \in Nat,
         NEW p, p = Run(s, m), NEW r, r = Write(b, p, ok)
  PROVE  Writing(r, s, m) /\ WriteDone(r)
<1>1. p \in Seq(Nat) /\ Len(p) = m
  BY RunFacts
<1>2. PICK n \in Nat : n = m + 1
  OBVIOUS
<1>3. n = Len(p) + 1
  BY <1>1, <1>2
<1>0. PICK T : WritesIn(T, b, p, ok, n)
  BY <1>3, WriteTurns
<1>4. T[0] = WriteStart(b, p, ok) /\ (\A k \in 1..n : T[k] = WriteTurn(T[k - 1])) /\ Write(b, p, ok) = T[n]
  BY <1>0 DEF WritesIn
<1>5. Writing(T[0], s, m)
  <2>1. b \in Bufs
    BY DEF HoldsStream
  <2>2. PICK w : w = [buf |-> b, p |-> p, n |-> 0, ok |-> ok, failed |-> FALSE]
    OBVIOUS
  <2>3. w \in Writes /\ w.buf = b /\ w.p = p /\ w.n = 0
    BY <1>1, <2>1, <2>2 DEF Writes
  <2>4. Run(s + 0, m - 0) = p /\ s = s + 0 /\ 0 <= m
    OBVIOUS
  <2>5. Writing(w, s, m)
    BY <2>3, <2>4 DEF Writing
  <2> QED BY <1>4, <2>2, <2>5 DEF WriteStart
<1> DEFINE Moved(w, k) == WriteDone(w) \/ k = 0 \/ (w.n + 1 >= k /\ Len(w.buf.writeBuf) < BlockSize)
           I == {k \in Nat : k <= n => Writing(T[k], s, m) /\ Moved(T[k], k)}
<1>6. 0 \in I
  BY <1>5
<1>7. ASSUME NEW k \in Nat, k \in I PROVE k + 1 \in I
  <2> SUFFICES ASSUME k + 1 <= n PROVE Writing(T[k + 1], s, m) /\ Moved(T[k + 1], k + 1)
    OBVIOUS
  <2>1. PICK w, z : w = T[k] /\ z = T[k + 1]
    OBVIOUS
  <2>2. Writing(w, s, m) /\ Moved(w, k)
    BY <1>7, <2>1
  <2>3. z = WriteTurn(w)
    <3>1. k + 1 \in 1..n /\ (k + 1) - 1 = k
      BY <1>2
    <3> QED BY <1>4, <2>1, <3>1
  <2>4. /\ Writing(z, s, m) /\ (WriteDone(w) => z = w)
        /\ ~WriteDone(w) =>
             \/ WriteDone(z)
             \/ Len(z.buf.writeBuf) < BlockSize /\ (z.n > w.n \/ Len(w.buf.writeBuf) = BlockSize)
    BY <2>2, <2>3, WriteTurnIs
  <2>5. w.n \in Nat /\ z.n \in Nat
    BY <2>2, <2>4 DEF Writing, Writes
  <2>6. BlockSize \in Nat /\ Len(w.buf.writeBuf) \in Nat
    BY <2>2, BufFacts DEF Writing, HoldsStream
  <2>7. Moved(z, k + 1)
    <3>1. CASE WriteDone(w)
      BY <2>4, <3>1
    <3>2. CASE ~WriteDone(w) /\ WriteDone(z)
      BY <3>2
    <3>3. CASE ~WriteDone(w) /\ ~WriteDone(z)
      <4>1. Len(z.buf.writeBuf) < BlockSize /\ (z.n > w.n \/ Len(w.buf.writeBuf) = BlockSize)
        BY <2>4, <3>3
      <4>2. k = 0 \/ (w.n + 1 >= k /\ z.n > w.n)
        BY <2>2, <2>6, <3>3, <4>1
      <4>3. z.n + 1 >= k + 1
        BY <2>5, <4>2
      <4> QED BY <4>1, <4>3
    <3> QED BY <3>1, <3>2, <3>3
  <2> QED BY <2>1, <2>4, <2>7
<1>8. n \in I
  <2> HIDE DEF I
  <2> QED BY <1>6, <1>7, SetInduction
<1>9. Writing(r, s, m) /\ Moved(r, n)
  BY <1>2, <1>4, <1>8
<1>10. WriteDone(r)
  <2> SUFFICES ASSUME ~WriteDone(r) PROVE FALSE
    OBVIOUS
  <2>1. r.n + 1 >= n /\ r.n <= m /\ r.n \in Nat
    BY <1>2, <1>9 DEF Writing, Writes
  <2>2. r.n = m
    BY <1>2, <2>1
  <2>3. r.p = Run(s + m, m - m)
    BY <1>9, <2>2 DEF Writing
  <2>4. s + m \in Nat /\ m - m = 0
    OBVIOUS
  <2>5. r.p = <<>>
    BY <2>3, <2>4, RunFacts
  <2> QED BY <2>5 DEF WriteDone
<1> QED BY <1>9, <1>10

-----------------------------------------------------------------------------
\* The state of ReadAt after some turns: of the n bytes wanted from o on, in a
\* buffer of s bytes, the first d are read.
Reads == [buf : Bufs, left : Nat, off : Nat, data : Seq(Nat), ok : Nat, err : {"nil", "EOF", "zlib"}]
ReadAs(r, s, n, o, d) ==
  /\ r \in Reads /\ HoldsStream(r.buf) /\ r.buf.size = s
  /\ d \in Nat /\ d <= n /\ o + d <= s
  /\ r.off = o + d /\ r.left = n - d /\ r.data = Run(o, d)
  /\ r.err = "EOF" => o + d = s /\ d < n
ReadDone(r) == r.err # "nil" \/ r.left = 0
CopiedTo(r, c, src, start, ok) ==
  [buf |-> c,
   left |-> r.left - Len(SubSeq(src, start + 1, Min({Len(src), start + r.left}))),
   off |-> r.off + Len(SubSeq(src, start + 1, Min({Len(src), start + r.left}))),
   data |-> r.data \o SubSeq(src, start + 1, Min({Len(src), start + r.left})),
   ok |-> ok, err |-> "nil"]

LEMMA CopiedIs ==
  ASSUME NEW s \in Nat, NEW n \in Nat, NEW o \in Nat, NEW d \in Nat, NEW r, ReadAs(r, s, n, o, d), d < n,
         NEW c, HoldsStream(c), c.size = s, NEW ok \in Nat,
         NEW A \in Nat, NEW l \in Nat, NEW src, src = Run(A, l),
         NEW start \in Nat, start < l, NEW x \in Nat, Apart(x, o, d), Apart(x, A, start), A + l <= s,
         NEW z, z = CopiedTo(r, c, src, start, ok)
  PROVE  \E e : ReadAs(z, s, n, o, e) /\ e > d
<1>1. PICK left : left = n - d
  OBVIOUS
<1>2. left \in Nat /\ left > 0
  BY <1>1
<1>3. r.off = x /\ r.left = left /\ r.data = Run(o, d)
  BY <1>1 DEF ReadAs, Apart
<1>4. PICK t : t = start + left
  OBVIOUS
<1>5. PICK h : h = Min({l, t})
  OBVIOUS
<1>6. h \in Nat /\ h > start /\ h <= l /\ h <= t
  <2>1. t \in Nat /\ t > start
    BY <1>2, <1>4
  <2>2. h = IF l <= t THEN l ELSE t
    BY <1>5, <2>1, MinOfTwo
  <2> QED BY <2>1, <2>2
<1>7. PICK g, e : g = h - start /\ e = d + g
  OBVIOUS
<1>8. g \in Nat /\ g > 0 /\ g <= left /\ e \in Nat /\ e > d /\ e <= n /\ o + e <= s
  BY <1>1, <1>2, <1>4, <1>6, <1>7 DEF Apart
<1>9. PICK part : part = SubSeq(src, start + 1, h)
  OBVIOUS
<1>10. part = Run(x, g)
  <2>1. start \in 0..l /\ h \in start..l
    BY <1>6
  <2>2. SubSeq(Run(A, l), start + 1, h) = Run(A + start, h - start)
    BY <2>1, RunSub
  <2> QED BY <1>7, <1>9, <2>2 DEF Apart
<1>11. Len(part) = g
  BY <1>2, <1>8, <1>10, RunFacts
<1>12. PICK D : D = r.data \o part
  OBVIOUS
<1>13. D = Run(o, e)
  <2>1. Joined(Run(o, d), Run(x, g), Run(o, e))
    <3>1. Apart(e, d, g)
      BY <1>7 DEF Apart
    <3>2. g \in Nat /\ e \in Nat
      BY <1>8
    <3> QED BY <3>1, <3>2, RunsJoin
  <2> QED BY <1>3, <1>10, <1>12, <2>1 DEF Joined
<1>14. D \in Seq(Nat)
  BY <1>8, <1>13, RunFacts
<1>15. Len(src) = l
  BY RunFacts
<1>16. z = [buf |-> c, left |-> left - g, off |-> x + g, data |-> D, ok |-> ok, err |-> "nil"]
  <2>1. SubSeq(src, start + 1, Min({Len(src), start + r.left})) = part
    BY <1>3, <1>4, <1>5, <1>9, <1>15
  <2> QED BY <1>3, <1>11, <1>12, <2>1 DEF CopiedTo
<1>17. PICK left2, x2 : left2 = left - g /\ x2 = x + g
  OBVIOUS
<1>18. left2 \in Nat /\ x2 \in Nat /\ left2 = n - e /\ x2 = o + e
  BY <1>1, <1>2, <1>7, <1>8, <1>17 DEF Apart
<1>19. c \in Bufs
  BY DEF HoldsStream
<1>20. /\ z \in Reads /\ z.buf = c /\ z.left = left2 /\ z.off = x2 /\ z.data = D /\ z.err = "nil"
  BY <1>14, <1>16, <1>17, <1>18, <1>19 DEF Reads
<1>21. ReadAs(z, s, n, o, e)
  BY <1>8, <1>13, <1>18, <1>20 DEF ReadAs
<1> QED BY <1>8, <1>21

\* The block that a position is in, and what it is read from.
BlockAt(x, i, start) == i = x \div BlockSize /\ start = x % BlockSize

LEMMA BlockRead ==
  ASSUME NEW b, HoldsStream(b), NEW x \in Nat, x < b.size,
         NEW i, NEW start, BlockAt(x, i, start)
  PROVE  \E A, l :
           /\ A \in Nat /\ l \in Nat /\ start \in Nat /\ start < l /\ A + start = x /\ A + l <= b.size
           /\ i \in 0..Len(b.blocks)
           /\ i = Len(b.blocks) => b.writeBuf = Run(A, l)
           /\ i # Len(b.blocks) => Chunk(i) = Run(A, l) /\ b.blocks[i + 1] = Deflate(Chunk(i))
<1>1. PICK X, Z, L, W, C, Y : Shape(b, X, Z, L, W, C, Y)
  BY Shaped
<1>2. PICK B \in Nat : B = BlockSize /\ B > 0
  BY BlockAssumption
<1>3. L \in Nat /\ W \in Nat /\ C \in Nat /\ Y \in Nat /\ W <= B /\ Y = C + W /\ x < Y
  BY <1>1, <1>2 DEF Shape
<1>4. C = L * B
  BY <1>1, <1>2 DEF Shape, Fills
<1>5. Len(b.blocks) = L /\ b.writeBuf = Run(C, W) /\ b.size = Y /\ InOrder(b.blocks)
  BY <1>1 DEF Shape, Sized
<1>6. /\ i \in Nat /\ start \in 0..(B - 1) /\ x = i * B + start
      /\ \A k \in Nat : x < k * B <=> i < k
  BY <1>2, BlockOf DEF BlockAt
<1>7. PICK A : A = i * B
  OBVIOUS
<1>8. A \in Nat /\ A + start = x /\ start \in Nat /\ start < B
  BY <1>2, <1>6, <1>7
<1>9. i < L + 1
  <2>1. (L + 1) * B = L * B + B
    BY <1>3
  <2>2. PICK P : P = (L + 1) * B
    OBVIOUS
  <2>3. P = C + B
    BY <1>4, <2>1, <2>2
  <2>4. x < P
    BY <1>2, <1>3, <2>3
  <2>5. L + 1 \in Nat
    BY <1>3
  <2> QED BY <1>6, <2>2, <2>4, <2>5
<1>10. i \in 0..L
  BY <1>3, <1>6, <1>9
<1>11. CASE i = L
  <2>1. A = C
    BY <1>4, <1>7, <1>11
  <2>2. start < W /\ A + W <= Y
    BY <1>3, <1>8, <2>1
  <2> QED BY <1>3, <1>5, <1>8, <1>10, <1>11, <2>1, <2>2
<1>12. CASE i # L
  <2>1. i < L /\ i + 1 \in 1..L /\ (i + 1) - 1 = i
    BY <1>3, <1>10, <1>12
  <2>2. A + B <= C
    <3>1. (i + 1) * B = i * B + B
      BY <1>6
    <3>2. (i + 1) * B <= L * B
      BY <1>2, <1>3, <1>6, <2>1
    <3> QED BY <1>4, <1>7, <3>1, <3>2
  <2>3. A + B <= Y
    BY <1>2, <1>3, <1>8, <2>2
  <2>4. Chunk(i) = Run(A, B)
    BY <1>2, <1>7 DEF Chunk
  <2>5. b.blocks[i + 1] = Deflate(Chunk(i))
    <3>1. b.blocks[i + 1] = Deflate(Chunk((i + 1) - 1))
      BY <1>5, <2>1 DEF InOrder
    <3> QED BY <2>1, <3>1
  <2> QED BY <1>2, <1>5, <1>8, <1>10, <1>12, <2>3, <2>4, <2>5
<1> QED BY <1>11, <1>12

LEMMA CacheIs ==
  ASSUME NEW b, HoldsStream(b), NEW i \in Nat, i < Len(b.blocks), b.blocks[i + 1] = Deflate(Chunk(i)),
         NEW c, c = CacheBlock(b, i)
  PROVE  HoldsStream(c) /\ c.size = b.size
<1>1. b \in Bufs /\ BlockSize \in Nat
  BY BufFacts DEF HoldsStream
<1>2. PICK K : K = Chunk(i)
  OBVIOUS
<1>3. K \in Seq(Nat)
  <2>1. i * BlockSize \in Nat
    BY <1>1
  <2> QED BY <1>1, <1>2, <2>1, RunFacts DEF Chunk
<1>4. c = [b EXCEPT !.lastDecompBlock = K, !.lastDecompIndex = i]
  BY <1>2 DEF CacheBlock, Inflate, Deflate
<1>5. /\ c \in Bufs /\ c.blocks = b.blocks /\ c.size = b.size /\ c.writeBuf = b.writeBuf
      /\ c.lastDecompIndex = i /\ c.lastDecompBlock = K
  BY <1>1, <1>3, <1>4 DEF Bufs
<1>6. Compressed(c) = Compressed(b)
  BY <1>5 DEF Compressed
<1>7. CacheOK(c)
  BY <1>2, <1>5 DEF CacheOK
<1> QED BY <1>5, <1>6, <1>7 DEF HoldsStream

LEMMA ReadTurnIs ==
  ASSUME NEW s \in Nat, NEW n \in Nat, NEW o \in Nat, NEW d \in Nat, NEW r, ReadAs(r, s, n, o, d),
         NEW z, z = ReadTurn(r)
  PROVE  /\ ReadDone(r) => z = r
         /\ ~ReadDone(r) => \E e : ReadAs(z, s, n, o, e) /\ (ReadDone(z) \/ e > d)
<1>1. CASE ReadDone(r)
  BY <1>1 DEF ReadTurn, ReadDone
<1>2. CASE ~ReadDone(r)
  <2>1. PICK b, x, i, start : b = r.buf /\ x = o + d /\ i = x \div BlockSize /\ start = x % BlockSize
    OBVIOUS
  <2>2. x \in Nat /\ x <= s /\ d < n
    BY <1>2, <2>1 DEF ReadDone, ReadAs
  <2>3. r \in Reads /\ HoldsStream(b) /\ b.size = s /\ r.off = x /\ r.ok \in Nat /\ r.left # 0 /\ r.err = "nil"
    BY <1>2, <2>1 DEF ReadDone, ReadAs, Reads
  <2>4. z = IF x >= b.size THEN [r EXCEPT !.err = "EOF"]
            ELSE IF i = Len(b.blocks) THEN CopiedTo(r, b, b.writeBuf, start, r.ok)
            ELSE IF Cached(b, i) THEN CopiedTo(r, b, b.lastDecompBlock, start, r.ok)
            ELSE IF r.ok = 0 THEN [r EXCEPT !.err = "zlib"]
            ELSE CopiedTo(r, CacheBlock(b, i), Inflate(b.blocks[i + 1]), start, r.ok - 1)
    BY <2>1, <2>3 DEF ReadTurn, CopiedTo
  <2>5. CASE x >= s
    <3>1. z = [r EXCEPT !.err = "EOF"]
      BY <2>3, <2>4, <2>5
    <3>2. z \in Reads /\ z.buf = r.buf /\ z.left = r.left /\ z.off = r.off /\ z.data = r.data /\ z.err = "EOF"
      BY <2>3, <3>1 DEF Reads
    <3>3. o + d = s
      BY <2>1, <2>2, <2>5
    <3>4. ReadAs(z, s, n, o, d)
      BY <2>2, <3>2, <3>3 DEF ReadAs
    <3>5. ReadDone(z)
      BY <3>2 DEF ReadDone
    <3> QED BY <1>2, <3>4, <3>5
  <2>6. CASE x < s
    <3>1. PICK A, l :
            /\ A \in Nat /\ l \in Nat /\ start \in Nat /\ start < l /\ A + start = x /\ A + l <= b.size
            /\ i \in 0..Len(b.blocks)
            /\ i = Len(b.blocks) => b.writeBuf = Run(A, l)
            /\ i # Len(b.blocks) => Chunk(i) = Run(A, l) /\ b.blocks[i + 1] = Deflate(Chunk(i))
      <4>1. BlockAt(x, i, start)
        BY <2>1 DEF BlockAt
      <4>2. x < b.size
        BY <2>3, <2>6
      <4> QED BY <2>2, <2>3, <4>1, <4>2, BlockRead
    <3>2. A \in Nat /\ l \in Nat /\ start \in Nat /\ start < l /\ Apart(x, A, start) /\ A + l <= s /\ Apart(x, o, d)
      BY <2>1, <2>3, <3>1 DEF Apart
    <3>3. ASSUME NEW c, HoldsStream(c), c.size = s, NEW ok \in Nat, NEW src, src = Run(A, l),
                 z = CopiedTo(r, c, src, start, ok)
          PROVE  \E e : ReadAs(z, s, n, o, e) /\ e > d
      BY <2>2, <3>2, <3>3, CopiedIs
    <3>4. ~(x >= b.size)
      BY <2>2, <2>3, <2>6
    <3>5. CASE i = Len(b.blocks)
      <4>1. PICK src, ok : src = b.writeBuf /\ ok = r.ok
        OBVIOUS
      <4>2. z = CopiedTo(r, b, src, start, ok) /\ src = Run(A, l) /\ ok \in Nat
        BY <2>3, <2>4, <3>1, <3>4, <3>5, <4>1
      <4> QED BY <1>2, <2>3, <3>3, <4>2
    <3>6. CASE i # Len(b.blocks) /\ Cached(b, i)
      <4>1. PICK src, ok : src = b.lastDecompBlock /\ ok = r.ok
        OBVIOUS
      <4>2. z = CopiedTo(r, b, src, start, ok) /\ ok \in Nat
        BY <2>3, <2>4, <3>4, <3>6, <4>1
      <4>3. src = Run(A, l)
        BY <2>3, <3>1, <3>6, <4>1 DEF Cached, CacheOK, HoldsStream
      <4> QED BY <1>2, <2>3, <3>3, <4>2, <4>3
    <3>7. CASE i # Len(b.blocks) /\ ~Cached(b, i) /\ r.ok = 0
      <4>1. z = [r EXCEPT !.err = "zlib"]
        BY <2>4, <3>4, <3>7
      <4>2. z \in Reads /\ z.buf = r.buf /\ z.left = r.left /\ z.off = r.off /\ z.data = r.data /\ z.err = "zlib"
        BY <2>3, <4>1 DEF Reads
      <4>3. ReadAs(z, s, n, o, d) /\ ReadDone(z)
        BY <4>2 DEF ReadAs, ReadDone
      <4> QED BY <1>2, <4>3
    <3>8. CASE i # Len(b.blocks) /\ ~Cached(b, i) /\ r.ok # 0
      <4>1. PICK c, src, ok : c = CacheBlock(b, i) /\ src = Inflate(b.blocks[i + 1]) /\ ok = r.ok - 1
        OBVIOUS
      <4>2. z = CopiedTo(r, c, src, start, ok) /\ ok \in Nat
        BY <2>3, <2>4, <3>4, <3>8, <4>1
      <4>3. src = Run(A, l)
        BY <3>1, <3>8, <4>1 DEF Inflate, Deflate
      <4>4. Len(b.blocks) \in Nat
        BY <2>3, BufFacts DEF HoldsStream
      <4>5. i \in Nat /\ i < Len(b.blocks)
        BY <3>1, <3>8, <4>4
      <4>6. HoldsStream(c) /\ c.size = s
        BY <2>3, <3>1, <3>8, <4>1, <4>5, CacheIs
      <4> QED BY <1>2, <3>3, <4>2, <4>3, <4>6
    <3> QED BY <3>5, <3>6, <3>7, <3>8
  <2> QED BY <2>2, <2>5, <2>6
<1> QED BY <1>1, <1>2

\* ReadAt reads the bytes wanted in order, and stops short of them only at the end
\* or where a block fails.
LEMMA ReadIs ==
  ASSUME NEW b, HoldsStream(b), NEW s \in Nat, s = b.size, NEW n \in Nat, NEW o \in Nat, o <= s,
         NEW ok \in Nat, NEW r, r = ReadAt(b, n, o, ok)
  PROVE  \E d : ReadAs(r, s, n, o, d) /\ ReadDone(r)
<1>1. PICK m \in Nat : m = n + 1
  OBVIOUS
<1>0. PICK T : ReadsIn(T, b, n, o, ok, m)
  BY <1>1, ReadTurns
<1>2. T[0] = ReadStart(b, n, o, ok) /\ (\A k \in 1..m : T[k] = ReadTurn(T[k - 1])) /\ ReadAt(b, n, o, ok) = T[m]
  BY <1>0 DEF ReadsIn
<1>3. ReadAs(T[0], s, n, o, 0)
  <2>1. b \in Bufs /\ <<>> \in Seq(Nat)
    BY DEF HoldsStream
  <2>2. PICK w : w = [buf |-> b, left |-> n, off |-> o, data |-> <<>>, ok |-> ok, err |-> "nil"]
    OBVIOUS
  <2>3. w \in Reads /\ w.buf = b /\ w.left = n /\ w.off = o /\ w.data = <<>> /\ w.err = "nil"
    BY <2>1, <2>2 DEF Reads
  <2>4. Run(o, 0) = <<>>
    BY RunFacts
  <2>5. ReadAs(w, s, n, o, 0)
    BY <2>3, <2>4 DEF ReadAs
  <2> QED BY <1>2, <2>2, <2>5 DEF ReadStart
<1> DEFINE Moved(w, k) == \E d : ReadAs(w, s, n, o, d) /\ (ReadDone(w) \/ d >= k)
           I == {k \in Nat : k <= m => Moved(T[k], k)}
<1>4. 0 \in I
  BY <1>3
<1>5. ASSUME NEW k \in Nat, k \in I PROVE k + 1 \in I
  <2> SUFFICES ASSUME k + 1 <= m PROVE Moved(T[k + 1], k + 1)
    OBVIOUS
  <2>1. PICK w, z : w = T[k] /\ z = T[k + 1]
    OBVIOUS
  <2>2. PICK d : ReadAs(w, s, n, o, d) /\ (ReadDone(w) \/ d >= k)
    BY <1>5, <2>1
  <2>3. z = ReadTurn(w)
    <3>1. k + 1 \in 1..m /\ (k + 1) - 1 = k
      BY <1>1
    <3> QED BY <1>2, <2>1, <3>1
  <2>4. d \in Nat
    BY <2>2 DEF ReadAs
  <2>5. /\ ReadDone(w) => z = w
        /\ ~ReadDone(w) => \E e : ReadAs(z, s, n, o, e) /\ (ReadDone(z) \/ e > d)
    BY <2>2, <2>3, <2>4, ReadTurnIs
  <2>6. CASE ReadDone(w)
    BY <2>1, <2>2, <2>5, <2>6
  <2>7. CASE ~ReadDone(w)
    <3>1. PICK e : ReadAs(z, s, n, o, e) /\ (ReadDone(z) \/ e > d)
      BY <2>5, <2>7
    <3>2. e \in Nat
      BY <3>1 DEF ReadAs
    <3>3. ReadDone(z) \/ e >= k + 1
      BY <2>2, <2>4, <2>7, <3>1, <3>2
    <3> QED BY <2>1, <3>1, <3>3
  <2> QED BY <2>6, <2>7
<1>6. m \in I
  <2> HIDE DEF I
  <2> QED BY <1>4, <1>5, SetInduction
<1>7. PICK d : ReadAs(r, s, n, o, d) /\ (ReadDone(r) \/ d >= m)
  BY <1>1, <1>2, <1>6
<1>8. d \in Nat /\ d <= n
  BY <1>7 DEF ReadAs
<1>9. ReadDone(r)
  BY <1>1, <1>7, <1>8
<1> QED BY <1>7, <1>9

-----------------------------------------------------------------------------
\* The bytes that calls reported are the bytes held, and the reader was given the
\* first of them.
LogIInv ==
  /\ HoldsStream(cb) /\ cb.size <= MaxLog
  /\ many \in [bufs : Seq(WriteLens), written : Nat]
  /\ acked \in Nat /\ acked + many.written = cb.size
  /\ off \in Nat /\ off <= cb.size /\ got = Run(0, off)

LEMMA LogInitial == CompressedInit => LogIInv
<1> SUFFICES ASSUME CompressedInit PROVE LogIInv
  OBVIOUS
<1>1. BlockSize \in Nat /\ MaxLog \in Nat
  BY BlockAssumption
<1>2. PICK b : b = NewCompressedBuffer
  OBVIOUS
<1>3. /\ b \in Bufs /\ b.blocks = <<>> /\ b.size = 0 /\ b.writeBuf = <<>> /\ b.lastDecompBlock = <<>>
  BY <1>2 DEF NewCompressedBuffer, Bufs
<1>4. Len(<<>>) = 0 /\ 0 * BlockSize = 0
  BY <1>1
<1>5. Compressed(b) = 0
  BY <1>3, <1>4 DEF Compressed
<1>6. <<>> = Run(0, 0)
  BY RunFacts
<1>7. HoldsStream(b)
  <2>1. Len(b.writeBuf) <= BlockSize /\ b.size = Compressed(b) + Len(b.writeBuf)
    BY <1>1, <1>3, <1>4, <1>5
  <2>2. \A i \in 1..Len(b.blocks) : b.blocks[i] = Deflate(Chunk(i - 1))
    BY <1>3, <1>4
  <2>3. b.writeBuf = Run(Compressed(b), Len(b.writeBuf))
    BY <1>3, <1>4, <1>5, <1>6
  <2>4. CacheOK(b)
    BY <1>3 DEF CacheOK
  <2> QED BY <1>3, <2>1, <2>2, <2>3, <2>4 DEF HoldsStream
<1>8. cb = b /\ many = [bufs |-> <<>>, written |-> 0] /\ acked = 0 /\ off = 0 /\ got = <<>>
  BY <1>2 DEF CompressedInit, Idle
<1>9. many \in [bufs : Seq(WriteLens), written : Nat] /\ many.written = 0
  BY <1>8
<1> QED BY <1>1, <1>3, <1>6, <1>7, <1>8, <1>9 DEF LogIInv

\* What a Write of n bytes does to the buffer.
LEMMA WriteKeeps ==
  ASSUME LogIInv, NEW n \in WriteLens, NEW ok \in Outcomes, cb.size + n <= MaxLog,
         NEW r, r = Write(cb, Payload(n), ok)
  PROVE  /\ HoldsStream(r.buf) /\ r.buf.size <= MaxLog /\ r.buf.size = cb.size + r.n /\ r.n \in Nat
<1>1. n \in Nat /\ ok \in Nat /\ MaxLog \in Nat
  BY LensAssumption, BlockAssumption DEF Outcomes
<1>2. HoldsStream(cb)
  BY DEF LogIInv
<1>3. PICK s \in Nat : s = cb.size
  BY <1>2, BufFacts DEF HoldsStream
<1>4. PICK p : p = Payload(n)
  OBVIOUS
<1>5. p = Run(s, n)
  BY <1>3, <1>4 DEF Payload, Run
<1>6. r = Write(cb, p, ok)
  BY <1>4
<1>7. Writing(r, s, n)
  BY <1>1, <1>2, <1>3, <1>5, <1>6, WriteIs
<1>8. HoldsStream(r.buf) /\ r.n \in Nat /\ r.n <= n /\ r.buf.size = s + r.n
  BY <1>7 DEF Writing, Writes
<1>9. s + r.n <= MaxLog
  BY <1>1, <1>3, <1>8
<1> QED BY <1>3, <1>8, <1>9

\* What a Read of n bytes does: the next bytes are given, and the buffer holds
\* what it held.
LEMMA ReadKeeps ==
  ASSUME LogIInv, NEW n \in ReadLens, NEW ok \in Outcomes, Read(n, ok)
  PROVE  /\ HoldsStream(cb') /\ cb'.size = cb.size /\ many' = many /\ acked' = acked
         /\ off' \in Nat /\ off <= off' /\ off' <= cb.size /\ got' = Run(0, off')
<1>1. n \in Nat /\ ok \in Nat
  BY LensAssumption, BlockAssumption DEF Outcomes
<1>2. HoldsStream(cb) /\ off \in Nat /\ off <= cb.size /\ got = Run(0, off)
  BY DEF LogIInv
<1>3. PICK s \in Nat, o \in Nat : s = cb.size /\ o = off
  BY <1>2, BufFacts DEF HoldsStream
<1>4. PICK r : r = ReadAt(cb, n, o, ok)
  OBVIOUS
<1>5. PICK d : ReadAs(r, s, n, o, d) /\ ReadDone(r)
  BY <1>1, <1>2, <1>3, <1>4, ReadIs
<1>6. d \in Nat /\ o + d <= s /\ r.data = Run(o, d) /\ HoldsStream(r.buf) /\ r.buf.size = s
  BY <1>5 DEF ReadAs
<1>7. Len(r.data) = d
  BY <1>6, RunFacts
<1>8. cb' = r.buf /\ off' = off + Len(r.data) /\ got' = got \o r.data /\ many' = many /\ acked' = acked
  BY <1>3, <1>4 DEF Read
<1>9. PICK e \in Nat : e = o + d
  BY <1>6
<1>10. off' = e /\ o <= e /\ e <= s
  BY <1>3, <1>6, <1>7, <1>8, <1>9
<1>11. got' = Run(0, e)
  <2>1. Apart(o, 0, o) /\ Apart(e, o, d)
    BY <1>9 DEF Apart
  <2>2. Joined(Run(0, o), Run(o, d), Run(0, e))
    BY <1>6, <2>1, RunsJoin
  <2> QED BY <1>2, <1>3, <1>6, <1>8, <2>2 DEF Joined
<1> QED BY <1>3, <1>6, <1>8, <1>10, <1>11

LEMMA LogStep == LogIInv /\ [CompressedNext]_logVars => LogIInv'
<1> SUFFICES ASSUME LogIInv, [CompressedNext]_logVars PROVE LogIInv'
  OBVIOUS
<1>1. /\ HoldsStream(cb) /\ cb.size <= MaxLog /\ cb.size \in Nat
      /\ many \in [bufs : Seq(WriteLens), written : Nat]
      /\ acked \in Nat /\ acked + many.written = cb.size
      /\ off \in Nat /\ off <= cb.size /\ got = Run(0, off)
  BY BufFacts DEF LogIInv, HoldsStream
<1>2. ASSUME NEW n \in WriteLens, NEW ok \in Outcomes, DoWrite(n, ok) PROVE LogIInv'
  <2>1. PICK r : r = Write(cb, Payload(n), ok)
    OBVIOUS
  <2>2. cb.size + n <= MaxLog /\ cb' = r.buf /\ acked' = acked + r.n /\ many' = many /\ off' = off /\ got' = got
    BY <1>2, <2>1 DEF DoWrite
  <2>3. HoldsStream(r.buf) /\ r.buf.size <= MaxLog /\ r.buf.size = cb.size + r.n /\ r.n \in Nat
    BY <2>1, <2>2, WriteKeeps
  <2>4. HoldsStream(cb)' /\ (cb.size <= MaxLog)'
    BY <2>2, <2>3
  <2>5. acked + r.n \in Nat /\ (acked + r.n) + many.written = cb.size + r.n /\ off <= cb.size + r.n
    BY <1>1, <2>3
  <2> QED BY <1>1, <2>2, <2>3, <2>4, <2>5 DEF LogIInv
<1>3. ASSUME NEW m \in WriteLens, NEW n \in WriteLens, StartWriteMany(<<m, n>>) PROVE LogIInv'
  <2>1. many' = [many EXCEPT !.bufs = <<m, n>>] /\ cb' = cb /\ acked' = acked /\ off' = off /\ got' = got
    BY <1>3 DEF StartWriteMany
  <2>2. many' \in [bufs : Seq(WriteLens), written : Nat] /\ many'.written = many.written
    <3>1. PICK q : q = <<m, n>>
      OBVIOUS
    <3>2. q \in Seq(WriteLens)
      BY <3>1
    <3>3. many' = [many EXCEPT !.bufs = q] /\ many \in [bufs : Seq(WriteLens), written : Nat]
      BY <1>1, <2>1, <3>1
    <3> QED BY <3>2, <3>3
  <2> QED BY <1>1, <2>1, <2>2 DEF LogIInv
<1>4. ASSUME NEW ok \in Outcomes, WriteNext(ok) PROVE LogIInv'
  <2>1. PICK n : n = Head(many.bufs)
    OBVIOUS
  <2>2. many.bufs # <<>> /\ many.bufs \in Seq(WriteLens) /\ many.written \in Nat
    BY <1>1, <1>4 DEF WriteNext
  <2>3. n \in WriteLens /\ Tail(many.bufs) \in Seq(WriteLens)
    BY <2>1, <2>2
  <2>4. PICK r : r = Write(cb, Payload(n), ok)
    OBVIOUS
  <2>5. PICK written, returns : written = many.written + Counted(r) /\ returns = (r.failed \/ Len(many.bufs) = 1)
    OBVIOUS
  <2>6. /\ cb.size + n <= MaxLog /\ cb' = r.buf /\ off' = off /\ got' = got
        /\ many' = IF returns THEN Idle ELSE [bufs |-> Tail(many.bufs), written |-> written]
        /\ acked' = IF returns THEN acked + written ELSE acked
    BY <1>4, <2>1, <2>4, <2>5 DEF WriteNext
  <2>7. HoldsStream(r.buf) /\ r.buf.size <= MaxLog /\ r.buf.size = cb.size + r.n /\ r.n \in Nat
    BY <2>3, <2>4, <2>6, WriteKeeps
  <2>8. HoldsStream(cb)' /\ (cb.size <= MaxLog)'
    BY <2>6, <2>7
  <2>9. written \in Nat /\ acked + written = cb.size + r.n /\ off <= cb.size + r.n
    BY <1>1, <2>2, <2>5, <2>7 DEF Counted
  <2>10. CASE returns
    <3>1. many' = [bufs |-> <<>>, written |-> 0] /\ acked' = acked + written
      BY <2>6, <2>10 DEF Idle
    <3>2. many' \in [bufs : Seq(WriteLens), written : Nat] /\ many'.written = 0
      BY <3>1
    <3>3. acked' \in Nat /\ acked' + 0 = cb.size + r.n
      BY <1>1, <2>9, <3>1
    <3> QED BY <1>1, <2>6, <2>7, <2>8, <2>9, <3>2, <3>3 DEF LogIInv
  <2>11. CASE ~returns
    <3>1. many' = [bufs |-> Tail(many.bufs), written |-> written] /\ acked' = acked
      BY <2>6, <2>11
    <3>2. many' \in [bufs : Seq(WriteLens), written : Nat] /\ many'.written = written
      BY <2>3, <2>9, <3>1
    <3> QED BY <1>1, <2>6, <2>7, <2>8, <2>9, <3>1, <3>2 DEF LogIInv
  <2> QED BY <2>10, <2>11
<1>5. ASSUME NEW n \in ReadLens, NEW ok \in Outcomes, Read(n, ok) PROVE LogIInv'
  <2>1. /\ HoldsStream(cb') /\ cb'.size = cb.size /\ many' = many /\ acked' = acked
        /\ off' \in Nat /\ off' <= cb.size /\ got' = Run(0, off')
    BY <1>5, ReadKeeps
  <2> QED BY <1>1, <2>1 DEF LogIInv
<1>6. CASE UNCHANGED logVars
  BY <1>1, <1>6 DEF LogIInv, logVars
<1> QED BY <1>2, <1>3, <1>4, <1>5, <1>6 DEF CompressedNext

LEMMA LogAlways == CompressedSpec => []LogIInv
<1>1. LogIInv /\ [CompressedNext]_logVars => LogIInv'
  BY LogStep
<1> QED BY <1>1, LogInitial, PTL DEF CompressedSpec

LEMMA LogReads == LogIInv => CompressedInv
<1> SUFFICES ASSUME LogIInv PROVE CompressedInv
  OBVIOUS
<1>1. HoldsStream(cb) /\ acked + many.written = cb.size
  BY DEF LogIInv
<1>2. cb \in Bufs /\ BlockSize \in Nat
  BY <1>1, BufFacts DEF HoldsStream
<1>3. PICK s \in Nat : s = cb.size
  BY <1>2, BufFacts
<1>4. PICK content : content = Content(cb)
  OBVIOUS
<1>5. content = Run(0, s) /\ Len(content) = s
  <2>1. content = Run(0, s)
    BY <1>1, <1>3, <1>4, ContentIs
  <2> QED BY <2>1, RunFacts
<1>6. \A i \in 1..Len(cb.blocks) : cb.blocks[i] = Deflate(Chunk(i - 1))
  BY <1>1 DEF HoldsStream
<1>7. \A i \in DOMAIN cb.blocks : Len(Inflate(cb.blocks[i])) = BlockSize
  <2> TAKE i \in DOMAIN cb.blocks
  <2>1. i \in 1..Len(cb.blocks)
    BY <1>2, BufFacts
  <2>2. PICK k \in Nat : k = i - 1
    BY <2>1
  <2>3. cb.blocks[i] = Deflate(Chunk(k))
    BY <1>6, <2>1, <2>2
  <2>4. PICK A \in Nat : A = k * BlockSize
    BY <1>2
  <2>5. Inflate(cb.blocks[i]) = Run(A, BlockSize)
    BY <2>3, <2>4 DEF Inflate, Deflate, Chunk
  <2> QED BY <1>2, <2>5, RunFacts
<1>8. \A i \in 0..(Len(cb.blocks) - 1) : Cached(cb, i) => cb.lastDecompBlock = Inflate(cb.blocks[i + 1])
  <2> SUFFICES ASSUME NEW i \in 0..(Len(cb.blocks) - 1), Cached(cb, i)
               PROVE  cb.lastDecompBlock = Inflate(cb.blocks[i + 1])
    OBVIOUS
  <2>1. Len(cb.blocks) \in Nat
    BY <1>2, BufFacts
  <2>2. i + 1 \in 1..Len(cb.blocks) /\ (i + 1) - 1 = i
    BY <2>1
  <2>3. cb.blocks[i + 1] = Deflate(Chunk(i))
    <3>1. cb.blocks[i + 1] = Deflate(Chunk((i + 1) - 1))
      BY <1>6, <2>2
    <3> QED BY <2>2, <3>1
  <2>4. cb.lastDecompBlock = Chunk(i)
    BY <1>1 DEF Cached, CacheOK, HoldsStream
  <2> QED BY <2>3, <2>4 DEF Inflate, Deflate
<1>9. ReadAtAgrees(content)
  <2> SUFFICES ASSUME NEW o \in 0..Len(content), NEW n \in ReadLens, NEW ok \in Outcomes
               PROVE  \E r \in {ReadAt(cb, n, o, ok)} :
                        /\ r.data = SubSeq(content, o + 1, o + Len(r.data))
                        /\ r.err = "nil" => Len(r.data) = n
                        /\ r.err = "EOF" => Len(r.data) < n /\ o + Len(r.data) = Len(content)
    BY DEF ReadAtAgrees
  <2>1. n \in Nat /\ ok \in Nat /\ o \in Nat /\ o <= s
    BY <1>5, LensAssumption, BlockAssumption DEF Outcomes
  <2>2. PICK r : r = ReadAt(cb, n, o, ok)
    OBVIOUS
  <2>3. PICK d : ReadAs(r, s, n, o, d) /\ ReadDone(r)
    BY <1>1, <1>3, <2>1, <2>2, ReadIs
  <2>4. /\ d \in Nat /\ d <= n /\ o + d <= s /\ r.data = Run(o, d) /\ r.left = n - d
        /\ r.err = "EOF" => o + d = s /\ d < n
    BY <2>3 DEF ReadAs
  <2>5. Len(r.data) = d
    BY <2>1, <2>4, RunFacts
  <2>6. r.data = SubSeq(content, o + 1, o + d)
    <3>1. PICK e : e = o + d
      OBVIOUS
    <3>2. o \in 0..s /\ e \in o..s /\ e - o = d /\ 0 + o = o
      BY <2>1, <2>4, <3>1
    <3>3. SubSeq(Run(0, s), o + 1, e) = Run(0 + o, e - o)
      BY <3>2, RunSub
    <3>4. SubSeq(content, o + 1, e) = Run(o, d)
      BY <1>5, <3>2, <3>3
    <3> QED BY <2>4, <3>1, <3>4
  <2>7. r.err = "nil" => d = n
    BY <2>1, <2>3, <2>4 DEF ReadDone
  <2> QED BY <1>5, <2>2, <2>4, <2>5, <2>6, <2>7
<1>10. Len(cb.writeBuf) <= BlockSize
  BY <1>1 DEF HoldsStream
<1>11. content = [i \in 1..(acked + many.written) |-> i]
  BY <1>1, <1>3, <1>5 DEF Run
<1> QED BY <1>3, <1>4, <1>5, <1>7, <1>8, <1>9, <1>10, <1>11 DEF CompressedInv

\* Whatever was written in whatever pieces, with compressions failing or not, the
\* buffer holds each byte that Write reported as written in its place, and no other;
\* ReadAt reads them back over block boundaries; and the cached block is never
\* another block's.
THEOREM BufferReadsBack == CompressedSpec => []CompressedInv
BY LogAlways, LogReads, PTL

-----------------------------------------------------------------------------
LEMMA RunPrefix ==
  ASSUME NEW m \in Nat, NEW n \in Nat, m <= n
  PROVE  BufferLog!IsPrefix(Run(0, m), Run(0, n))
<1>1. PICK p, q : p = Run(0, m) /\ q = Run(0, n)
  OBVIOUS
<1>2. Len(p) = m /\ Len(q) = n
  BY <1>1, RunFacts
<1>3. 0 \in 0..m /\ m \in 0..m /\ 0 \in 0..n /\ m \in 0..n
  OBVIOUS
<1>4. SubSeq(Run(0, m), 0 + 1, m) = Run(0 + 0, m - 0) /\ SubSeq(Run(0, n), 0 + 1, m) = Run(0 + 0, m - 0)
  BY <1>3, RunSub
<1>5. SubSeq(p, 1, m) = SubSeq(q, 1, m)
  BY <1>1, <1>4
<1>6. BufferLog!IsPrefix(p, q)
  BY <1>2, <1>5 DEF BufferLog!IsPrefix
<1> QED BY <1>1, <1>6

LEMMA Appends ==
  ASSUME LogIInv, LogIInv', cb.size <= cb'.size, got' = got
  PROVE  BufferLog!AppendToLog
<1>1. HoldsStream(cb) /\ HoldsStream(cb') /\ cb'.size <= MaxLog
  BY DEF LogIInv
<1>2. PICK s \in Nat, t \in Nat : s = cb.size /\ t = cb'.size
  BY <1>1, BufFacts DEF HoldsStream
<1>3. Content(cb) = Run(0, s) /\ Content(cb)' = Run(0, t)
  <2>1. Content(cb') = Run(0, cb'.size)
    BY <1>1, ContentIs
  <2>2. Content(cb)' = Content(cb')
    BY DEF Content, Compressed
  <2> QED BY <1>1, <1>2, <2>1, <2>2, ContentIs
<1>4. s <= t /\ t <= MaxLog
  BY <1>1, <1>2
<1>5. BufferLog!IsPrefix(Run(0, s), Run(0, t))
  BY <1>4, RunPrefix
<1>6. Run(0, t) \in Seq(1..MaxLog)
  <2>1. MaxLog \in Nat
    BY BlockAssumption
  <2>2. \A i \in 1..t : 0 + i \in 1..MaxLog
    BY <1>4, <2>1
  <2>3. [i \in 1..t |-> 0 + i] \in [1..t -> 1..MaxLog]
    BY <2>2
  <2> QED BY <2>3 DEF Run
<1> QED BY <1>3, <1>5, <1>6 DEF BufferLog!AppendToLog

LEMMA Delivers ==
  ASSUME LogIInv, NEW n \in ReadLens, NEW ok \in Outcomes, Read(n, ok)
  PROVE  BufferLog!Deliver
<1>1. /\ HoldsStream(cb') /\ cb'.size = cb.size /\ off' \in Nat /\ off <= off' /\ off' <= cb.size
      /\ got' = Run(0, off')
  BY ReadKeeps
<1>2. HoldsStream(cb) /\ off \in Nat /\ got = Run(0, off)
  BY DEF LogIInv
<1>3. PICK s \in Nat, o \in Nat, e \in Nat : s = cb.size /\ o = off /\ e = off'
  BY <1>1, <1>2, BufFacts DEF HoldsStream
<1>4. o <= e /\ e <= s
  BY <1>1, <1>3
<1>5. Content(cb) = Run(0, s) /\ Content(cb)' = Run(0, s)
  <2>1. Content(cb') = Run(0, cb'.size)
    BY <1>1, ContentIs
  <2>2. Content(cb)' = Content(cb')
    BY DEF Content, Compressed
  <2> QED BY <1>1, <1>2, <1>3, <2>1, <2>2, ContentIs
<1>6. BufferLog!IsPrefix(Run(0, o), Run(0, e)) /\ BufferLog!IsPrefix(Run(0, e), Run(0, s))
  BY <1>4, RunPrefix
<1> QED BY <1>1, <1>2, <1>3, <1>5, <1>6 DEF BufferLog!Deliver

LEMMA LogRefines ==
  LogIInv /\ LogIInv' /\ [CompressedNext]_logVars
    => [BufferLog!AppendToLog \/ BufferLog!Deliver]_<<Content(cb), got>>
<1> SUFFICES ASSUME LogIInv, LogIInv', [CompressedNext]_logVars
             PROVE  \/ BufferLog!AppendToLog
                    \/ BufferLog!Deliver
                    \/ Content(cb)' = Content(cb) /\ got' = got
  OBVIOUS
<1>0. cb.size \in Nat
  BY BufFacts DEF LogIInv, HoldsStream
<1>1. ASSUME NEW n \in WriteLens, NEW ok \in Outcomes, DoWrite(n, ok) PROVE BufferLog!AppendToLog
  <2>1. PICK r : r = Write(cb, Payload(n), ok)
    OBVIOUS
  <2>2. cb.size + n <= MaxLog /\ cb' = r.buf /\ got' = got
    BY <1>1, <2>1 DEF DoWrite
  <2>3. r.buf.size = cb.size + r.n /\ r.n \in Nat
    BY <2>1, <2>2, WriteKeeps
  <2>4. cb.size <= cb'.size
    BY <1>0, <2>2, <2>3
  <2> QED BY <2>2, <2>4, Appends
<1>2. ASSUME NEW ok \in Outcomes, WriteNext(ok) PROVE BufferLog!AppendToLog
  <2>1. PICK n, r : n = Head(many.bufs) /\ r = Write(cb, Payload(n), ok)
    OBVIOUS
  <2>2. cb.size + n <= MaxLog /\ cb' = r.buf /\ got' = got /\ many.bufs # <<>>
    BY <1>2, <2>1 DEF WriteNext
  <2>3. n \in WriteLens
    BY <2>1, <2>2 DEF LogIInv
  <2>4. r.buf.size = cb.size + r.n /\ r.n \in Nat
    BY <2>1, <2>2, <2>3, WriteKeeps
  <2>5. cb.size <= cb'.size
    BY <1>0, <2>2, <2>4
  <2> QED BY <2>2, <2>5, Appends
<1>3. ASSUME NEW n \in ReadLens, NEW ok \in Outcomes, Read(n, ok) PROVE BufferLog!Deliver
  BY <1>3, Delivers
<1>4. ASSUME NEW m \in WriteLens, NEW n \in WriteLens, StartWriteMany(<<m, n>>)
      PROVE  Content(cb)' = Content(cb) /\ got' = got
  BY <1>4 DEF StartWriteMany, Content, Compressed
<1>5. CASE UNCHANGED logVars
  BY <1>5 DEF logVars, Content, Compressed
<1> QED BY <1>1, <1>2, <1>3, <1>4, <1>5 DEF CompressedNext

LEMMA LogStarts == CompressedInit => BufferLog!LogInit
<1> SUFFICES ASSUME CompressedInit PROVE BufferLog!LogInit
  OBVIOUS
<1>1. HoldsStream(cb)
  BY LogInitial DEF LogIInv
<1>2. cb.size = 0 /\ got = <<>>
  BY DEF CompressedInit, NewCompressedBuffer
<1>3. Content(cb) = Run(0, 0)
  BY <1>1, <1>2, ContentIs
<1>4. Run(0, 0) = <<>>
  BY RunFacts
<1> QED BY <1>2, <1>3, <1>4 DEF BufferLog!LogInit

\* The buffer is an append-only log: no Write, failed or not, changes a byte that was
\* written, and the sequential reader is given the bytes in order without gaps.
THEOREM BufferIsLog == CompressedSpec => ImplementsLog
<1>1. LogIInv /\ LogIInv' /\ [CompressedNext]_logVars
        => [BufferLog!AppendToLog \/ BufferLog!Deliver]_<<Content(cb), got>>
  BY LogRefines
<1> QED BY <1>1, LogStarts, LogAlways, PTL DEF CompressedSpec, ImplementsLog, BufferLog!LogSpec

-----------------------------------------------------------------------------
\* Bitmap256.  A position is a word and a bit of it.
Join(w, b) == w * WordBits + b

LEMMA WordSizes == Words \in Nat /\ Words > 0 /\ WordBits \in Nat /\ WordBits > 0 /\ WordBits <= 64 /\ BitmapSize \in Nat
BY WordAssumption DEF BitmapSize

LEMMA JoinOrder ==
  ASSUME NEW w \in Int, NEW b \in BitIndices, NEW x \in Int, NEW c \in 0..WordBits, w < x
  PROVE  Join(w, b) < Join(x, c)
<1>1. PICK N \in Nat : N = WordBits /\ N > 0
  BY WordSizes
<1>2. (w + 1) * N <= x * N
  BY <1>1
<1>3. (w + 1) * N = w * N + N
  BY <1>1
<1>4. PICK s \in Int, t \in Int : s = w * N /\ t = x * N
  BY <1>1
<1> QED BY <1>1, <1>2, <1>3, <1>4 DEF Join, BitIndices

LEMMA Joins ==
  ASSUME NEW w \in WordIndices, NEW b \in BitIndices
  PROVE  Join(w, b) \in Positions /\ WordOf(Join(w, b)) = w /\ BitOf(Join(w, b)) = b
<1>1. PICK N \in Nat : N = WordBits /\ N > 0
  BY WordSizes
<1>2. w \in Nat /\ w < Words /\ b \in Nat /\ b < N
  BY <1>1, WordSizes DEF WordIndices, BitIndices
<1>3. (w * N + b) \div N = w /\ (w * N + b) % N = b
  BY <1>1, <1>2
<1>4. Join(w, b) < Join(Words, 0)
  BY <1>1, <1>2, WordSizes, JoinOrder
<1>5. Join(w, b) \in Nat
  BY <1>1, <1>2 DEF Join
<1>6. Join(Words, 0) = BitmapSize
  BY WordSizes DEF Join, BitmapSize
<1> QED BY <1>1, <1>3, <1>4, <1>5, <1>6, WordSizes DEF Join, Positions, WordOf, BitOf

LEMMA Splits ==
  ASSUME NEW p \in Positions
  PROVE  WordOf(p) \in WordIndices /\ BitOf(p) \in BitIndices /\ p = Join(WordOf(p), BitOf(p))
<1>1. PICK N \in Nat : N = WordBits /\ N > 0
  BY WordSizes
<1>2. p \in Nat /\ p < Words * N
  BY <1>1, WordSizes DEF Positions, BitmapSize
<1>3. PICK q \in Nat, r \in 0..(N - 1) : q = p \div N /\ r = p % N /\ p = q * N + r
  BY <1>1, <1>2
<1>4. q < Words
  <2>1. SUFFICES ASSUME Words <= q PROVE FALSE
    BY <1>3, WordSizes
  <2>2. Words * N <= q * N
    BY <1>1, <2>1, WordSizes
  <2>3. PICK s \in Int, t \in Int : s = Words * N /\ t = q * N
    BY <1>1, WordSizes
  <2> QED BY <1>1, <1>2, <1>3, <2>2, <2>3
<1> QED BY <1>1, <1>3, <1>4, WordSizes DEF WordOf, BitOf, WordIndices, BitIndices, Join

\* The positions of the one bits, and those of them before x.
On(v) == {p \in Positions : GetBit(v, p)}
Before(S, x) == {p \in S : p < x}

LEMMA Bits ==
  ASSUME NEW v \in Bitmaps, NEW w \in WordIndices
  PROVE  v[w] \subseteq BitIndices /\ \A b \in BitIndices : Join(w, b) \in On(v) <=> b \in v[w]
BY Joins DEF Bitmaps, On, GetBit

LEMMA OnFinite ==
  ASSUME NEW v, NEW x
  PROVE  /\ On(v) \subseteq Positions /\ IsFiniteSet(On(v)) /\ IsFiniteSet(Before(On(v), x))
         /\ Cardinality(On(v)) \in Nat /\ Cardinality(Before(On(v), x)) \in Nat
<1>1. IsFiniteSet(Positions)
  BY FS_Interval, WordSizes DEF Positions
<1>2. On(v) \in SUBSET Positions /\ Before(On(v), x) \in SUBSET Positions
  BY DEF On, Before
<1> QED BY <1>1, <1>2, FS_Subset, FS_CardinalityType

\* The bits of the words before w are as many as the ones before its first position.
LEMMA CountBeforeIs ==
  ASSUME NEW v \in Bitmaps, NEW w \in 0..Words
  PROVE  CountBefore(v, w) = Cardinality(Before(On(v), Join(w, 0)))
<1> DEFINE A == Before(On(v), Join(w, 0))
           B == UNION {{i} \X v[i] : i \in 0..(w - 1)}
           f == [p \in A |-> <<WordOf(p), BitOf(p)>>]
<1>1. ASSUME NEW p \in A PROVE WordOf(p) \in 0..(w - 1) /\ BitOf(p) \in v[WordOf(p)]
  <2>1. p \in Positions /\ GetBit(v, p) /\ p < Join(w, 0)
    BY DEF Before, On
  <2>2. WordOf(p) \in WordIndices /\ BitOf(p) \in BitIndices /\ p = Join(WordOf(p), BitOf(p))
    BY <2>1, Splits
  <2>3. PICK k \in Nat, b \in Nat, N \in Nat : k = WordOf(p) /\ b = BitOf(p) /\ N = WordBits
    BY <2>2, WordSizes DEF WordIndices, BitIndices
  <2>4. k < w
    <3>1. SUFFICES ASSUME w <= k PROVE FALSE
      BY <2>3
    <3>2. w * N <= k * N
      BY <2>3, <3>1
    <3>3. k * N + b < w * N + 0
      BY <2>1, <2>2, <2>3 DEF Join
    <3>4. PICK s \in Int, t \in Int : s = w * N /\ t = k * N
      BY <2>3
    <3> QED BY <2>3, <3>2, <3>3, <3>4
  <2> QED BY <2>1, <2>3, <2>4 DEF GetBit
<1>2. f \in [A -> B]
  <2>1. ASSUME NEW p \in A PROVE <<WordOf(p), BitOf(p)>> \in B
    BY <1>1
  <2> QED BY <2>1
<1>3. \A p, q \in A : f[p] = f[q] => p = q
  <2>1. \A p \in A : p \in Positions
    BY DEF Before, On
  <2> QED BY <2>1, Splits
<1>4. ASSUME NEW y \in B PROVE \E p \in A : f[p] = y
  <2>1. PICK i \in 0..(w - 1) : \E b \in v[i] : y = <<i, b>>
    OBVIOUS
  <2> PICK b \in v[i] : y = <<i, b>>
    BY <2>1
  <2>2. i \in WordIndices /\ i \in Int /\ w \in Int /\ i < w
    BY <2>1, WordSizes DEF WordIndices
  <2>3. b \in BitIndices /\ Join(i, b) \in On(v) /\ WordOf(Join(i, b)) = i /\ BitOf(Join(i, b)) = b
    BY <2>1, <2>2, Bits, Joins
  <2>4. 0 \in 0..WordBits
    BY WordSizes
  <2>5. Join(i, b) < Join(w, 0)
    BY <2>2, <2>3, <2>4, JoinOrder
  <2>6. Join(i, b) \in A
    BY <2>3, <2>5 DEF Before
  <2> QED BY <2>1, <2>3, <2>6
<1>5. ExistsBijection(A, B)
  <2> HIDE DEF A, B, f
  <2> QED BY <1>2, <1>3, <1>4 DEF ExistsBijection, Bijection, Injection, Surjection, IsInjective
<1>6. IsFiniteSet(A)
  BY OnFinite
<1>7. Cardinality(B) = Cardinality(A)
  <2> HIDE DEF A, B, f
  <2> QED BY <1>5, <1>6, FS_Bijection
<1> QED BY <1>7 DEF CountBefore

\* A position's rank: the bits of the words before its word, and those before its
\* bit.  c may be the end of the word.
LEMMA RankIs ==
  ASSUME NEW v \in Bitmaps, NEW w \in WordIndices, NEW c \in 0..WordBits
  PROVE  /\ IsFiniteSet(v[w]) /\ IsFiniteSet({b \in v[w] : b < c}) /\ Cardinality({b \in v[w] : b < c}) \in Nat
         /\ CountBefore(v, w) + Cardinality({b \in v[w] : b < c}) = Cardinality(Before(On(v), Join(w, c)))
<1> DEFINE A == {b \in v[w] : b < c}
           B == Before(On(v), Join(w, c)) \ Before(On(v), Join(w, 0))
           f == [b \in A |-> Join(w, b)]
<1>1. w \in Int /\ w \in 0..Words /\ WordBits \in Nat /\ c \in Nat /\ v[w] \subseteq BitIndices /\ 0 \in BitIndices
  BY WordSizes, Bits DEF WordIndices, BitIndices
<1>2. IsFiniteSet(BitIndices)
  <2>1. 0 \in Int /\ WordBits - 1 \in Int
    BY <1>1
  <2>2. IsFiniteSet(0..(WordBits - 1))
    BY <2>1, FS_Interval
  <2> QED BY <2>2 DEF BitIndices
<1>3. IsFiniteSet(v[w]) /\ IsFiniteSet(A) /\ Cardinality(A) \in Nat
  <2>1. v[w] \in SUBSET BitIndices /\ A \in SUBSET BitIndices
    BY <1>1
  <2> QED BY <1>2, <2>1, FS_Subset, FS_CardinalityType
<1>4. PICK s \in Int : s = w * WordBits
  BY <1>1
<1>5. \A b \in Int : Join(w, b) = s + b
  BY <1>4 DEF Join
<1>6. \A p \in Positions : p \in Int
  BY WordSizes DEF Positions
<1>7. \A b \in A : b \in Int /\ 0 <= b /\ b < c /\ b \in BitIndices
  BY <1>1 DEF BitIndices
<1>8. f \in [A -> B]
  <2>1. ASSUME NEW b \in A PROVE Join(w, b) \in B
    <3>1. Join(w, b) \in On(v)
      BY <1>7, Bits
    <3>2. Join(w, b) < Join(w, c) /\ ~(Join(w, b) < Join(w, 0))
      BY <1>1, <1>5, <1>7
    <3> QED BY <3>1, <3>2 DEF Before
  <2> QED BY <2>1
<1>9. \A a, b \in A : f[a] = f[b] => a = b
  BY <1>5, <1>7
<1>10. ASSUME NEW p \in B PROVE \E b \in A : f[b] = p
  <2>1. p \in Positions /\ p \in On(v) /\ p < Join(w, c) /\ ~(p < Join(w, 0))
    BY OnFinite DEF Before
  <2>2. WordOf(p) \in WordIndices /\ BitOf(p) \in BitIndices /\ p = Join(WordOf(p), BitOf(p))
    BY <2>1, Splits
  <2>3. WordOf(p) \in Int /\ BitOf(p) \in Int /\ p \in Int
    BY <1>6, <2>1, <2>2, WordSizes DEF WordIndices, BitIndices
  <2>4. ~(WordOf(p) < w)
    <3>1. 0 \in 0..WordBits
      BY <1>1
    <3> QED BY <1>1, <2>1, <2>2, <2>3, <3>1, JoinOrder
  <2>5. ~(w < WordOf(p))
    <3>1. SUFFICES ASSUME w < WordOf(p) PROVE FALSE
      OBVIOUS
    <3>2. BitOf(p) \in 0..WordBits /\ WordBits - 1 \in BitIndices
      BY <2>2, WordSizes DEF BitIndices
    <3>3. Join(w, WordBits - 1) < Join(WordOf(p), BitOf(p))
      BY <1>1, <2>3, <3>1, <3>2, JoinOrder
    <3>4. s + (WordBits - 1) < p /\ p < s + c
      BY <1>1, <1>5, <2>1, <2>2, <3>3
    <3> QED BY <1>1, <2>3, <3>4
  <2>6. WordOf(p) = w
    BY <1>1, <2>3, <2>4, <2>5
  <2>7. BitOf(p) \in v[w] /\ BitOf(p) < c
    <3>1. BitOf(p) \in v[w]
      BY <2>1, <2>6 DEF On, GetBit
    <3>2. s + BitOf(p) < s + c
      BY <1>1, <1>5, <2>1, <2>2, <2>3, <2>6
    <3> QED BY <1>1, <2>3, <3>1, <3>2
  <2> QED BY <2>2, <2>6, <2>7
<1>11. IsFiniteSet(B) /\ Cardinality(B) = Cardinality(A)
  <2>1. ExistsBijection(A, B)
    <3> HIDE DEF A, B, f
    <3> QED BY <1>8, <1>9, <1>10 DEF ExistsBijection, Bijection, Injection, Surjection, IsInjective
  <2> HIDE DEF A, B, f
  <2> QED BY <1>3, <2>1, FS_Bijection
<1>12. PICK H, L : H = Before(On(v), Join(w, c)) /\ L = Before(On(v), Join(w, 0))
  OBVIOUS
<1>13. IsFiniteSet(H) /\ IsFiniteSet(L) /\ Cardinality(H) \in Nat /\ Cardinality(L) \in Nat
  BY <1>12, OnFinite
<1>14. H \cap L = L
  <2>1. ASSUME NEW p \in L PROVE p \in H
    <3>1. p \in On(v) /\ p < Join(w, 0) /\ p \in Int
      BY <1>6, <1>12, OnFinite DEF Before
    <3>2. p < Join(w, c)
      BY <1>1, <1>5, <3>1
    <3> QED BY <1>12, <3>1, <3>2 DEF Before
  <2> QED BY <2>1
<1>15. Cardinality(H \ L) = Cardinality(H) - Cardinality(L)
  BY <1>13, <1>14, FS_Difference
<1>16. CountBefore(v, w) = Cardinality(L)
  BY <1>1, <1>12, CountBeforeIs
<1>17. B = H \ L
  BY <1>12
<1>18. CountBefore(v, w) + Cardinality(A) = Cardinality(H)
  <2> HIDE DEF A, B
  <2> QED BY <1>3, <1>11, <1>13, <1>15, <1>16, <1>17
<1> QED BY <1>3, <1>12, <1>18

\* The count up to the end of a word is the one before the next word.
LEMMA NextWord ==
  ASSUME NEW v \in Bitmaps, NEW w \in WordIndices
  PROVE  CountBefore(v, w + 1) = CountBefore(v, w) + Cardinality(v[w])
<1>1. w \in Nat /\ w + 1 \in 0..Words /\ WordBits \in 0..WordBits
  BY WordSizes DEF WordIndices
<1>2. Join(w + 1, 0) = Join(w, WordBits)
  BY <1>1, WordSizes DEF Join
<1>3. {b \in v[w] : b < WordBits} = v[w]
  BY Bits, WordSizes DEF BitIndices
<1>4. CountBefore(v, w) + Cardinality({b \in v[w] : b < WordBits}) = Cardinality(Before(On(v), Join(w, WordBits)))
  BY <1>1, RankIs
<1> QED BY <1>1, <1>2, <1>3, <1>4, CountBeforeIs

\* The positions of a set have ranks that grow with them.
LEMMA RankGrows ==
  ASSUME NEW v, NEW p \in On(v), NEW x \in Int, p < x
  PROVE  Cardinality(Before(On(v), p)) < Cardinality(Before(On(v), x))
<1>1. PICK L, H : L = Before(On(v), p) /\ H = Before(On(v), x)
  OBVIOUS
<1>2. IsFiniteSet(L) /\ IsFiniteSet(H) /\ Cardinality(L) \in Nat /\ Cardinality(H) \in Nat
  BY <1>1, OnFinite
<1>3. p \in Int /\ \A q \in On(v) : q \in Int
  BY OnFinite, WordSizes DEF Positions
<1>4. L \in SUBSET H /\ p \in H /\ p \notin L
  <2>1. ASSUME NEW q \in On(v), q < p PROVE q < x
    BY <1>3, <2>1
  <2>2. p \in H /\ p \notin L
    BY <1>1, <1>3 DEF Before
  <2>3. ASSUME NEW q \in L PROVE q \in H
    BY <1>1, <2>1 DEF Before
  <2> QED BY <2>2, <2>3
<1>5. Cardinality(L) <= Cardinality(H) /\ (Cardinality(H) = Cardinality(L) => H = L)
  BY <1>2, <1>4, FS_Subset
<1> QED BY <1>1, <1>2, <1>4, <1>5

-----------------------------------------------------------------------------
\* What Min is, and that a set of positions has one.
LEMMA MinIs ==
  ASSUME NEW S \in SUBSET Int, NEW x \in S, \A y \in S : x <= y
  PROVE  Min(S) = x
<1>1. \A z \in S : (\A y \in S : z <= y) => z = x
  OBVIOUS
<1> QED BY <1>1 DEF Min

LEMMA MinExists ==
  ASSUME NEW S \in SUBSET Nat, S # {}
  PROVE  Min(S) \in S /\ \A y \in S : Min(S) <= y
<1>1. PICK x \in S : \A y \in S : ~(<<y, x>> \in OpToRel(<, Nat))
  BY NatLessThanWellFounded, WFMin
<1>2. \A y \in S : x <= y
  <2> SUFFICES ASSUME NEW y \in S PROVE x <= y
    OBVIOUS
  <2>1. x \in Nat /\ y \in Nat
    OBVIOUS
  <2>2. ~(y < x)
    BY <1>1, <2>1 DEF OpToRel
  <2> QED BY <2>1, <2>2
<1>3. Min(S) = x
  BY <1>2, MinIs
<1> QED BY <1>2, <1>3

\* FindNextSet is the first one at or after pos.
LEMMA FindNextSetIs ==
  ASSUME NEW v \in Bitmaps, NEW pos \in Positions
  PROVE  FindNextSet(v, pos) = FirstOr({p \in On(v) : p >= pos})
<1> DEFINE T == {p \in On(v) : p >= pos}
<1>1. PICK i \in WordIndices, o \in BitIndices : i = WordOf(pos) /\ o = BitOf(pos) /\ pos = Join(i, o)
  BY Splits
<1>2. PICK masked, later :
        /\ masked = {b \in v[i] : b >= o}
        /\ later = {w \in WordIndices : w > i /\ v[w] # {}}
  OBVIOUS
<1>3. FindNextSet(v, pos) =
        IF masked # {} THEN Join(i, Min(masked))
        ELSE IF later # {} THEN Join(Min(later), Min(v[Min(later)]))
        ELSE BitmapSize
  BY <1>1, <1>2 DEF FindNextSet, Join
<1>4. WordBits \in Nat /\ WordIndices \subseteq Nat /\ BitIndices \subseteq Nat /\ BitIndices \subseteq 0..WordBits
  BY WordSizes DEF WordIndices, BitIndices
<1>5. \A w \in WordIndices : v[w] \subseteq BitIndices
  BY Bits
<1>6. \A w \in WordIndices, b, c \in BitIndices : Join(w, b) <= Join(w, c) <=> b <= c
  <2> SUFFICES ASSUME NEW w \in WordIndices, NEW b \in BitIndices, NEW c \in BitIndices
               PROVE  Join(w, b) <= Join(w, c) <=> b <= c
    OBVIOUS
  <2>1. PICK s \in Int : s = w * WordBits
    BY <1>4
  <2> QED BY <1>4, <2>1 DEF Join
<1>7. \A p \in On(v) : /\ p \in Int /\ WordOf(p) \in WordIndices /\ BitOf(p) \in v[WordOf(p)]
                       /\ BitOf(p) \in BitIndices /\ p = Join(WordOf(p), BitOf(p))
  <2> SUFFICES ASSUME NEW p \in On(v) PROVE /\ p \in Int /\ WordOf(p) \in WordIndices /\ BitOf(p) \in v[WordOf(p)]
                       /\ BitOf(p) \in BitIndices /\ p = Join(WordOf(p), BitOf(p))
    OBVIOUS
  <2>1. p \in Positions /\ GetBit(v, p)
    BY DEF On
  <2> QED BY <2>1, Splits, WordSizes DEF GetBit, Positions
<1>8. pos \in Int /\ T \in SUBSET Int
  BY <1>7, WordSizes DEF Positions
<1>10. ASSUME masked # {} PROVE FindNextSet(v, pos) = FirstOr(T)
  <2>1. PICK b : b = Min(masked) /\ b \in v[i] /\ b \in BitIndices /\ b >= o /\ \A c \in masked : b <= c
    <3>1. masked \in SUBSET Nat
      BY <1>2, <1>4, <1>5
    <3> QED BY <1>2, <1>5, <1>10, <3>1, MinExists
  <2>2. Join(i, b) \in T
    <3>1. Join(i, b) \in On(v)
      BY <2>1, Bits
    <3>2. Join(i, o) <= Join(i, b)
      BY <1>4, <1>6, <2>1
    <3>3. Join(i, b) \in Int
      BY <1>7, <3>1
    <3> QED BY <1>1, <1>8, <3>1, <3>2, <3>3
  <2>3. ASSUME NEW p \in T PROVE Join(i, b) <= p
    <3>1. PICK w \in WordIndices, c \in BitIndices : p = Join(w, c) /\ c \in v[w]
      BY <1>7
    <3>2. Join(i, b) \in Int /\ p \in Int /\ p >= pos
      BY <1>7, <1>8, <2>2
    <3>3. CASE w < i
      <4>1. Join(w, c) < Join(i, o)
        BY <1>4, <3>3, JoinOrder
      <4> QED BY <1>1, <1>8, <3>1, <3>2, <4>1
    <3>4. CASE i < w
      <4>1. Join(i, b) < Join(w, c)
        BY <1>4, <2>1, <3>4, JoinOrder
      <4> QED BY <3>1, <3>2, <4>1
    <3>5. CASE w = i
      <4>1. o <= c
        <5>1. Join(i, o) <= Join(i, c)
          BY <1>1, <1>8, <3>1, <3>2, <3>5
        <5> QED BY <1>6, <5>1
      <4>2. c \in masked
        BY <1>2, <1>4, <3>1, <3>5, <4>1
      <4>3. b <= c
        BY <2>1, <4>2
      <4> QED BY <1>6, <2>1, <3>1, <3>5, <4>3
    <3> QED BY <1>4, <3>3, <3>4, <3>5
  <2>4. Min(T) = Join(i, b)
    BY <1>8, <2>2, <2>3, MinIs
  <2> QED BY <1>3, <1>10, <2>1, <2>2, <2>4 DEF FirstOr
<1>11. ASSUME masked = {}, later # {} PROVE FindNextSet(v, pos) = FirstOr(T)
  <2>1. PICK j : j = Min(later) /\ j \in WordIndices /\ j > i /\ v[j] # {} /\ \A w \in later : j <= w
    <3>1. later \in SUBSET Nat
      BY <1>2, <1>4
    <3> QED BY <1>2, <1>11, <3>1, MinExists
  <2>2. PICK b : b = Min(v[j]) /\ b \in v[j] /\ b \in BitIndices /\ \A c \in v[j] : b <= c
    <3>1. v[j] \in SUBSET Nat
      BY <1>4, <1>5, <2>1
    <3> QED BY <1>5, <2>1, <3>1, MinExists
  <2>3. Join(j, b) \in T
    <3>1. Join(j, b) \in On(v)
      BY <2>1, <2>2, Bits
    <3>2. Join(i, o) < Join(j, b)
      BY <1>4, <2>1, <2>2, JoinOrder
    <3>3. Join(j, b) \in Int
      BY <1>7, <3>1
    <3> QED BY <1>1, <1>8, <3>1, <3>2, <3>3
  <2>4. ASSUME NEW p \in T PROVE Join(j, b) <= p
    <3>1. PICK w \in WordIndices, c \in BitIndices : p = Join(w, c) /\ c \in v[w]
      BY <1>7
    <3>2. Join(j, b) \in Int /\ p \in Int /\ p >= pos
      BY <1>7, <1>8, <2>3
    <3>3. CASE w < i
      <4>1. Join(w, c) < Join(i, o)
        BY <1>4, <3>3, JoinOrder
      <4> QED BY <1>1, <1>8, <3>1, <3>2, <4>1
    <3>4. CASE w = i
      <4>1. o <= c
        <5>1. Join(i, o) <= Join(i, c)
          BY <1>1, <1>8, <3>1, <3>2, <3>4
        <5> QED BY <1>6, <5>1
      <4>2. c \in masked
        BY <1>2, <1>4, <3>1, <3>4, <4>1
      <4> QED BY <1>11, <4>2
    <3>5. CASE i < w
      <4>1. j <= w
        <5>1. w \in later
          BY <1>2, <1>4, <3>1, <3>5
        <5> QED BY <2>1, <5>1
      <4>2. CASE j < w
        <5>1. Join(j, b) < Join(w, c)
          BY <1>4, <2>1, <2>2, <4>2, JoinOrder
        <5> QED BY <3>1, <3>2, <5>1
      <4>3. CASE j = w
        BY <1>6, <2>2, <3>1, <4>3
      <4> QED BY <1>4, <2>1, <4>1, <4>2, <4>3
    <3> QED BY <1>4, <3>3, <3>4, <3>5
  <2>5. Min(T) = Join(j, b)
    BY <1>8, <2>3, <2>4, MinIs
  <2> QED BY <1>3, <1>11, <2>1, <2>2, <2>3, <2>5 DEF FirstOr
<1>12. ASSUME masked = {}, later = {} PROVE FindNextSet(v, pos) = FirstOr(T)
  <2>1. ASSUME NEW p \in T PROVE FALSE
    <3>1. PICK w \in WordIndices, c \in BitIndices : p = Join(w, c) /\ c \in v[w]
      BY <1>7
    <3>2. p \in Int /\ p >= pos
      BY <1>7
    <3>3. CASE w < i
      <4>1. Join(w, c) < Join(i, o)
        BY <1>4, <3>3, JoinOrder
      <4> QED BY <1>1, <1>8, <3>1, <3>2, <4>1
    <3>4. CASE w = i
      <4>1. o <= c
        <5>1. Join(i, o) <= Join(i, c)
          BY <1>1, <1>8, <3>1, <3>2, <3>4
        <5> QED BY <1>6, <5>1
      <4> QED BY <1>2, <1>4, <1>12, <3>1, <3>4, <4>1
    <3>5. CASE i < w
      BY <1>2, <1>4, <1>12, <3>1, <3>5
    <3> QED BY <1>4, <3>3, <3>4, <3>5
  <2> QED BY <1>3, <1>12, <2>1 DEF FirstOr
<1> QED BY <1>10, <1>11, <1>12

-----------------------------------------------------------------------------
\* The bits of a word before c, and how many they are.
Lower(W, c) == {b \in W : b < c}
Below(W, c) == Cardinality(Lower(W, c))
Between(W, a, c) == {b \in W : a <= b /\ b < c}

LEMMA BelowFacts ==
  ASSUME NEW W \in SUBSET Nat, IsFiniteSet(W), NEW a \in Nat, NEW c \in Nat, a <= c
  PROVE  /\ Below(W, a) \in Nat /\ Below(W, c) \in Nat
         /\ IsFiniteSet(Between(W, a, c)) /\ Cardinality(Between(W, a, c)) \in Nat
         /\ Below(W, c) = Below(W, a) + Cardinality(Between(W, a, c))
<1>1. Lower(W, a) \in SUBSET W /\ Lower(W, c) \in SUBSET W /\ Between(W, a, c) \in SUBSET W
  BY DEF Lower, Between
<1>2. /\ IsFiniteSet(Lower(W, a)) /\ IsFiniteSet(Lower(W, c)) /\ IsFiniteSet(Between(W, a, c))
  BY <1>1, FS_Subset
<1>3. /\ Cardinality(Lower(W, a)) \in Nat /\ Cardinality(Lower(W, c)) \in Nat
      /\ Cardinality(Between(W, a, c)) \in Nat
  BY <1>2, FS_CardinalityType
<1>4. Lower(W, c) \cap Lower(W, a) = Lower(W, a)
  <2>1. ASSUME NEW b \in Lower(W, a) PROVE b \in Lower(W, c)
    BY DEF Lower
  <2> QED BY <2>1
<1>5. Lower(W, c) \ Lower(W, a) = Between(W, a, c)
  <2>1. \A b \in W : ~(b < a) <=> a <= b
    OBVIOUS
  <2> QED BY <2>1 DEF Lower, Between
<1>6. Cardinality(Lower(W, c) \ Lower(W, a)) = Cardinality(Lower(W, c)) - Cardinality(Lower(W, a))
  BY <1>2, <1>4, FS_Difference
<1> QED BY <1>2, <1>3, <1>5, <1>6 DEF Below

\* A state of the halving search for bit m of the word W, whose first position is
\* first: the bit is among the next span ones from base on, and temp is the word
\* shifted by base.
Shifted(W, base) == {b - base : b \in {c \in W : c >= base}}
LocatedAt(s, W, first, m, base, span) ==
  /\ s.pos = first + base
  /\ s.temp = Shifted(W, base)
  /\ s.n \in Nat
  /\ s.n + Below(W, base) = m
  /\ m < Below(W, base + span)
Located(s, W, first, m, span) == \E base \in Nat : LocatedAt(s, W, first, m, base, span)

LEMMA LowHalf ==
  ASSUME NEW W \in SUBSET Nat, IsFiniteSet(W), NEW base \in Nat, NEW width \in Nat
  PROVE  Cardinality({t \in Shifted(W, base) : t < width}) = Cardinality(Between(W, base, base + width))
<1> DEFINE A == Between(W, base, base + width)
           B == {t \in Shifted(W, base) : t < width}
           f == [b \in A |-> b - base]
<1>1. \A b \in A : b \in W /\ b \in Nat /\ b >= base /\ b < base + width
  BY DEF Between
<1>2. f \in [A -> B]
  <2>1. ASSUME NEW b \in A PROVE b - base \in B
    <3>1. b - base \in Shifted(W, base)
      BY <1>1 DEF Shifted
    <3>2. b - base < width
      BY <1>1
    <3> QED BY <3>1, <3>2
  <2> QED BY <2>1
<1>3. \A b, c \in A : f[b] = f[c] => b = c
  BY <1>1
<1>4. ASSUME NEW t \in B PROVE \E b \in A : f[b] = t
  <2>1. PICK b \in W : b >= base /\ t = b - base
    BY DEF Shifted
  <2>2. t < width
    OBVIOUS
  <2>3. b < base + width
    BY <2>1, <2>2
  <2>4. b \in A
    BY <2>1, <2>3 DEF Between
  <2> QED BY <2>1, <2>4
<1>5. ExistsBijection(A, B)
  <2> HIDE DEF A, B, f
  <2> QED BY <1>2, <1>3, <1>4 DEF ExistsBijection, Bijection, Injection, Surjection, IsInjective
<1>6. IsFiniteSet(A)
  BY BelowFacts
<1> HIDE DEF A, B, f
<1>7. Cardinality(B) = Cardinality(A)
  BY <1>5, <1>6, FS_Bijection
<1> QED BY <1>7 DEF A, B

LEMMA HighHalf ==
  ASSUME NEW W \in SUBSET Nat, NEW base \in Nat, NEW width \in Nat
  PROVE  {t - width : t \in Shifted(W, base) \ {u \in Shifted(W, base) : u < width}} = Shifted(W, base + width)
<1> DEFINE L == {t - width : t \in Shifted(W, base) \ {u \in Shifted(W, base) : u < width}}
<1>1. ASSUME NEW x \in L PROVE x \in Shifted(W, base + width)
  <2>1. PICK t \in Shifted(W, base) : ~(t < width) /\ x = t - width
    OBVIOUS
  <2>2. PICK b \in W : b >= base /\ t = b - base
    BY <2>1 DEF Shifted
  <2>3. b >= base + width /\ x = b - (base + width)
    BY <2>1, <2>2
  <2> QED BY <2>2, <2>3 DEF Shifted
<1>2. ASSUME NEW x \in Shifted(W, base + width) PROVE x \in L
  <2>1. PICK b \in W : b >= base + width /\ x = b - (base + width)
    BY DEF Shifted
  <2>2. b >= base /\ x = (b - base) - width /\ ~(b - base < width)
    BY <2>1
  <2>3. b - base \in Shifted(W, base)
    BY <2>1, <2>2 DEF Shifted
  <2> QED BY <2>2, <2>3
<1> QED BY <1>1, <1>2

\* One halving keeps the bit located, in half the span.
LEMMA HalveIs ==
  ASSUME NEW W \in SUBSET Nat, IsFiniteSet(W), NEW first \in Nat, NEW m \in Nat, NEW s,
         NEW width \in Nat, Located(s, W, first, m, width + width)
  PROVE  Located(Halve(s, width), W, first, m, width)
<1>1. PICK base \in Nat : LocatedAt(s, W, first, m, base, width + width)
  BY DEF Located
<1>2. /\ s.pos = first + base /\ s.temp = Shifted(W, base) /\ s.n \in Nat
      /\ s.n + Below(W, base) = m /\ m < Below(W, base + (width + width))
  BY <1>1 DEF LocatedAt
<1> DEFINE low == {b \in s.temp : b < width}
<1>4. PICK k \in Nat : k = Cardinality(low) /\ Below(W, base + width) = Below(W, base) + k /\ Below(W, base) \in Nat
  <2>1. base + width \in Nat /\ base <= base + width
    OBVIOUS
  <2>2. /\ Cardinality(Between(W, base, base + width)) \in Nat /\ Below(W, base) \in Nat
        /\ Below(W, base + width) = Below(W, base) + Cardinality(Between(W, base, base + width))
    BY <2>1, BelowFacts
  <2>3. Cardinality({t \in Shifted(W, base) : t < width}) = Cardinality(Between(W, base, base + width))
    BY LowHalf
  <2>4. low = {t \in Shifted(W, base) : t < width}
    BY <1>2
  <2>5. Cardinality(low) = Cardinality(Between(W, base, base + width))
    BY <2>3, <2>4
  <2> QED BY <2>2, <2>5
<1>7. Halve(s, width) =
        IF k <= s.n
        THEN [pos |-> s.pos + width, n |-> s.n - k, temp |-> {b - width : b \in s.temp \ low}]
        ELSE s
  <2>1. Halve(s, width) =
          IF Cardinality(low) <= s.n
          THEN [pos |-> s.pos + width, n |-> s.n - Cardinality(low), temp |-> {b - width : b \in s.temp \ low}]
          ELSE s
    BY DEF Halve
  <2>2. k = Cardinality(low)
    BY <1>4
  <2> QED BY <2>1, <2>2
<1>5. CASE k <= s.n
  <2>1. Halve(s, width) = [pos |-> s.pos + width, n |-> s.n - k, temp |-> {b - width : b \in s.temp \ low}]
    BY <1>5, <1>7
  <2>2. {b - width : b \in s.temp \ low} = Shifted(W, base + width)
    <3>1. s.temp = Shifted(W, base)
      BY <1>2
    <3>2. {t - width : t \in Shifted(W, base) \ {u \in Shifted(W, base) : u < width}} = Shifted(W, base + width)
      BY HighHalf
    <3> QED BY <3>1, <3>2, Zenon
  <2>3. PICK h : h = Halve(s, width)
    OBVIOUS
  <2>4. h.pos = s.pos + width /\ h.n = s.n - k /\ h.temp = Shifted(W, base + width)
    BY <2>1, <2>2, <2>3
  <2>5. h.pos = first + (base + width) /\ h.n \in Nat /\ h.n + Below(W, base + width) = m
    BY <1>2, <1>4, <1>5, <2>4
  <2>6. (base + width) + width = base + (width + width) /\ base + width \in Nat
    OBVIOUS
  <2>7. m < Below(W, (base + width) + width)
    BY <1>2, <2>6
  <2>8. LocatedAt(h, W, first, m, base + width, width)
    BY <2>4, <2>5, <2>7 DEF LocatedAt
  <2> QED BY <2>3, <2>6, <2>8 DEF Located
<1>6. CASE ~(k <= s.n)
  <2>1. Halve(s, width) = s
    BY <1>6, <1>7
  <2>2. m < Below(W, base + width)
    BY <1>2, <1>4, <1>6
  <2>3. LocatedAt(s, W, first, m, base, width)
    BY <1>2, <2>2 DEF LocatedAt
  <2> QED BY <2>1, <2>3 DEF Located
<1> QED BY <1>5, <1>6

\* A bit located in a span of one is found.
LEMMA Found ==
  ASSUME NEW W \in SUBSET Nat, IsFiniteSet(W), NEW first \in Nat, NEW m \in Nat, NEW s,
         Located(s, W, first, m, 1)
  PROVE  \E b \in W : s.pos = first + b /\ Below(W, b) = m
<1>1. PICK base \in Nat : LocatedAt(s, W, first, m, base, 1)
  BY DEF Located
<1>2. s.pos = first + base /\ s.n \in Nat /\ s.n + Below(W, base) = m /\ m < Below(W, base + 1)
  BY <1>1 DEF LocatedAt
<1> PICK S : S = Between(W, base, base + 1)
  OBVIOUS
<1>3. PICK k \in Nat : /\ k = Cardinality(S) /\ IsFiniteSet(S)
                       /\ Below(W, base) \in Nat /\ Below(W, base + 1) = Below(W, base) + k
  <2>1. base + 1 \in Nat /\ base <= base + 1
    OBVIOUS
  <2>2. /\ IsFiniteSet(Between(W, base, base + 1)) /\ Cardinality(Between(W, base, base + 1)) \in Nat
        /\ Below(W, base) \in Nat
        /\ Below(W, base + 1) = Below(W, base) + Cardinality(Between(W, base, base + 1))
    BY <2>1, BelowFacts
  <2> QED BY <2>2
<1>4. S \subseteq {base}
  <2>1. \A b \in Nat : base <= b /\ b < base + 1 => b = base
    OBVIOUS
  <2> QED BY <2>1 DEF Between
<1>5. k > 0
  BY <1>2, <1>3
<1>6. S # {}
  BY <1>3, <1>5, FS_EmptySet
<1>7. S = {base}
  BY <1>4, <1>6
<1>8. k = 1
  BY <1>3, <1>7, FS_Singleton
<1>9. base \in W
  BY <1>3, <1>7 DEF Between
<1>10. Below(W, base) = m
  BY <1>2, <1>3, <1>8
<1> QED BY <1>2, <1>9, <1>10

\* FindNthSet is the one of rank n.
LEMMA FindNthSetIs ==
  ASSUME NEW v \in Bitmaps, NEW n \in Nat
  PROVE  FindNthSet(v, n) = FirstOr({p \in On(v) : Cardinality({q \in On(v) : q < p}) = n})
<1> DEFINE T == {p \in On(v) : Cardinality(Before(On(v), p)) = n}
<1>1. T = {p \in On(v) : Cardinality({q \in On(v) : q < p}) = n}
  BY DEF Before
<1>2. \A p \in On(v) : p \in Int /\ p < Join(Words, 0)
  <2>1. On(v) \subseteq Positions
    BY OnFinite
  <2>2. PICK z \in Nat : z = BitmapSize
    BY WordSizes
  <2>3. Join(Words, 0) = z
    BY <2>2, WordSizes DEF Join, BitmapSize
  <2>4. \A p \in Positions : p \in Int /\ p < z
    BY <2>2 DEF Positions
  <2> QED BY <2>1, <2>3, <2>4
<1>3. T \in SUBSET Int
  BY <1>2
<1>4. \A p, q \in T : p = q
  <2> SUFFICES ASSUME NEW p \in T, NEW q \in T, p < q PROVE FALSE
    BY <1>2
  <2>1. Cardinality(Before(On(v), p)) < Cardinality(Before(On(v), q))
    BY <1>2, RankGrows
  <2> QED BY <2>1
<1>5. PICK ends : ends = {w \in WordIndices : CountBefore(v, w + 1) > n}
  OBVIOUS
<1>6. \A w \in 0..Words : CountBefore(v, w) \in Nat
  BY CountBeforeIs, OnFinite
<1>7. ASSUME ends = {} PROVE FindNthSet(v, n) = FirstOr(T)
  <2>1. Words - 1 \in WordIndices /\ (Words - 1) + 1 = Words /\ Words \in 0..Words
    BY WordSizes DEF WordIndices
  <2>2. ~(CountBefore(v, Words) > n)
    BY <1>5, <1>7, <2>1
  <2>3. ASSUME NEW p \in T PROVE FALSE
    <3>1. Join(Words, 0) \in Int
      BY WordSizes DEF Join
    <3>2. Cardinality(Before(On(v), p)) < Cardinality(Before(On(v), Join(Words, 0)))
      BY <1>2, <3>1, RankGrows
    <3>3. CountBefore(v, Words) = Cardinality(Before(On(v), Join(Words, 0)))
      BY <2>1, CountBeforeIs
    <3>4. CountBefore(v, Words) > n
      BY <1>6, <2>1, <3>2, <3>3
    <3> QED BY <2>2, <3>4
  <2>4. T = {}
    BY <2>3
  <2>5. FindNthSet(v, n) = BitmapSize
    BY <1>5, <1>7 DEF FindNthSet
  <2> QED BY <2>4, <2>5 DEF FirstOr
<1>8. ASSUME ends # {} PROVE FindNthSet(v, n) = FirstOr(T)
  <2>1. PICK w : w = Min(ends) /\ w \in WordIndices /\ CountBefore(v, w + 1) > n /\ \A x \in ends : w <= x
    <3>1. ends \in SUBSET Nat
      BY <1>5, WordSizes DEF WordIndices
    <3> QED BY <1>5, <1>8, <3>1, MinExists
  <2>2. w \in Nat /\ w < Words /\ w \in 0..Words /\ w + 1 \in 0..Words
    BY <2>1, WordSizes DEF WordIndices
  <2>3. PICK c \in Nat : c = CountBefore(v, w)
    BY <1>6, <2>2
  <2>4. c <= n
    <3>1. CASE w = 0
      <4>1. {{i} \X v[i] : i \in 0..(w - 1)} = {}
        BY <3>1
      <4>2. CountBefore(v, w) = 0
        <5>1. UNION {{i} \X v[i] : i \in 0..(w - 1)} = {}
          BY <4>1
        <5> QED BY <5>1, FS_EmptySet DEF CountBefore
      <4> QED BY <2>3, <4>2
    <3>2. CASE w # 0
      <4>1. w - 1 \in WordIndices /\ (w - 1) + 1 = w /\ ~(w <= w - 1)
        BY <2>2, <3>2, WordSizes DEF WordIndices
      <4>2. w - 1 \notin ends
        BY <2>1, <4>1
      <4>3. ~(CountBefore(v, w) > n)
        BY <1>5, <4>1, <4>2
      <4> QED BY <2>3, <4>3
    <3> QED BY <3>1, <3>2
  <2> PICK W : W = v[w]
    OBVIOUS
  <2>5. PICK first \in Nat, m \in Nat : W = v[w] /\ first = w * WordBits /\ m = n - c
    BY <2>2, <2>4, WordSizes
  <2>6. W \in SUBSET Nat /\ W \in SUBSET BitIndices /\ IsFiniteSet(W) /\ WordBits \in 0..WordBits
    BY <2>1, <2>5, Bits, RankIs, WordSizes DEF BitIndices
  <2>7. PICK start : start = [pos |-> first, n |-> m, temp |-> W]
    OBVIOUS
  <2>8. Located(start, W, first, m, 64)
    <3>1. Lower(W, 0) = {} /\ Lower(W, 0 + 64) = W
      BY <2>6, WordSizes DEF Lower, BitIndices
    <3>2. Below(W, 0) = 0 /\ Below(W, 0 + 64) = Cardinality(W)
      BY <3>1, FS_EmptySet DEF Below
    <3>3. Shifted(W, 0) = W
      <4>1. \A b \in W : b >= 0 /\ b - 0 = b
        BY <2>6
      <4> QED BY <4>1 DEF Shifted
    <3>4. m < Cardinality(W)
      <4>1. CountBefore(v, w + 1) = c + Cardinality(W)
        BY <2>1, <2>3, <2>5, NextWord
      <4>2. Cardinality(W) \in Nat
        BY <2>6, FS_CardinalityType
      <4> QED BY <2>1, <2>5, <4>1, <4>2
    <3>5. start.pos = first + 0 /\ start.n \in Nat /\ start.n + Below(W, 0) = m /\ start.temp = Shifted(W, 0)
      BY <2>5, <2>7, <3>2, <3>3
    <3>6. m < Below(W, 0 + 64)
      BY <3>2, <3>4
    <3>7. LocatedAt(start, W, first, m, 0, 64)
      BY <3>5, <3>6 DEF LocatedAt
    <3> QED BY <3>7 DEF Located
  <2>9. PICK i32, i16, i8, i4, i2, i1 :
          /\ i32 = Halve(start, 32) /\ i16 = Halve(i32, 16) /\ i8 = Halve(i16, 8)
          /\ i4 = Halve(i8, 4) /\ i2 = Halve(i4, 2) /\ i1 = Halve(i2, 1)
    OBVIOUS
  <2>10. FindNthSet(v, n) = i1.pos
    <3>1. FindNthSet(v, n) =
            Halve(Halve(Halve(Halve(Halve(Halve(
              [pos |-> w * WordBits, n |-> n - CountBefore(v, w), temp |-> v[w]], 32), 16), 8), 4), 2), 1).pos
      BY <1>5, <1>8, <2>1 DEF FindNthSet, Search
    <3>2. [pos |-> w * WordBits, n |-> n - CountBefore(v, w), temp |-> v[w]] = start
      BY <2>3, <2>5, <2>7
    <3> QED BY <2>9, <3>1, <3>2
  <2>11. Located(i1, W, first, m, 1)
    <3>1. Located(i32, W, first, m, 32)
      BY <2>6, <2>8, <2>9, HalveIs
    <3>2. Located(i16, W, first, m, 16)
      BY <2>6, <2>9, <3>1, HalveIs
    <3>3. Located(i8, W, first, m, 8)
      BY <2>6, <2>9, <3>2, HalveIs
    <3>4. Located(i4, W, first, m, 4)
      BY <2>6, <2>9, <3>3, HalveIs
    <3>5. Located(i2, W, first, m, 2)
      BY <2>6, <2>9, <3>4, HalveIs
    <3> QED BY <2>6, <2>9, <3>5, HalveIs
  <2>12. PICK b \in W : i1.pos = first + b /\ Below(W, b) = m
    BY <2>6, <2>11, Found
  <2>13. b \in BitIndices /\ b \in 0..WordBits /\ Join(w, b) = first + b
    BY <2>5, <2>6, <2>12, WordSizes DEF BitIndices, Join
  <2>14. Join(w, b) \in T
    <3>1. Join(w, b) \in On(v)
      BY <2>1, <2>5, <2>12, <2>13, Bits
    <3>2. CountBefore(v, w) + Cardinality({a \in v[w] : a < b}) = Cardinality(Before(On(v), Join(w, b)))
      BY <2>1, <2>13, RankIs
    <3>3. Cardinality({a \in v[w] : a < b}) = m
      BY <2>5, <2>12 DEF Below, Lower
    <3>4. Cardinality(Before(On(v), Join(w, b))) = n
      BY <2>3, <2>5, <3>2, <3>3
    <3> QED BY <3>1, <3>4
  <2>15. Min(T) = Join(w, b)
    <3>1. \A p \in T : Join(w, b) <= p
      BY <1>3, <1>4, <2>14
    <3> HIDE DEF T
    <3> QED BY <1>3, <2>14, <3>1, MinIs
  <2>16. T # {}
    BY <2>14
  <2> QED BY <2>10, <2>12, <2>13, <2>15, <2>16 DEF FirstOr
<1> QED BY <1>1, <1>7, <1>8

-----------------------------------------------------------------------------
\* The inductive invariant: the history holds the positions of the one bits.
BitmapIInv == bm \in Bitmaps /\ ones = On(bm)

LEMMA Flipped ==
  ASSUME NEW v \in Bitmaps, NEW pos \in Positions
  PROVE  /\ SetBit(v, pos) \in Bitmaps /\ On(SetBit(v, pos)) = On(v) \union {pos}
         /\ ClearBit(v, pos) \in Bitmaps /\ On(ClearBit(v, pos)) = On(v) \ {pos}
<1>1. PICK i \in WordIndices, o \in BitIndices : i = WordOf(pos) /\ o = BitOf(pos) /\ pos = Join(i, o)
  BY Splits
<1>2. PICK s, c : s = SetBit(v, pos) /\ c = ClearBit(v, pos)
  OBVIOUS
<1>3. /\ s = [w \in WordIndices |-> IF w = i THEN v[w] \union {o} ELSE v[w]]
      /\ c = [w \in WordIndices |-> IF w = i THEN v[w] \ {o} ELSE v[w]]
  BY <1>1, <1>2 DEF SetBit, ClearBit, Bitmaps
<1>4. \A w \in WordIndices : v[w] \subseteq BitIndices
  BY Bits
<1>5. s \in Bitmaps /\ c \in Bitmaps
  BY <1>3, <1>4 DEF Bitmaps
<1>6. ASSUME NEW p \in Positions
      PROVE  /\ p \in On(s) <=> p \in On(v) \/ p = pos
             /\ p \in On(c) <=> p \in On(v) /\ p # pos
  <2>1. WordOf(p) \in WordIndices /\ p = Join(WordOf(p), BitOf(p))
    BY Splits
  <2>2. p = pos <=> WordOf(p) = i /\ BitOf(p) = o
    BY <1>1, <2>1
  <2> QED BY <1>3, <2>1, <2>2 DEF On, GetBit
<1>7. On(s) \subseteq Positions /\ On(c) \subseteq Positions /\ On(v) \subseteq Positions
  BY OnFinite
<1> QED BY <1>2, <1>5, <1>6, <1>7

LEMMA BitmapAlways == BitmapSpec => []BitmapIInv
<1>1. BitmapInit => BitmapIInv
  <2> SUFFICES ASSUME BitmapInit PROVE BitmapIInv
    OBVIOUS
  <2>1. bm \in Bitmaps
    BY DEF BitmapInit, NoBits, Bitmaps
  <2>2. ASSUME NEW p \in On(bm) PROVE FALSE
    <3>1. p \in Positions /\ BitOf(p) \in bm[WordOf(p)]
      BY DEF On, GetBit
    <3> QED BY <3>1, Splits DEF BitmapInit, NoBits
  <2> QED BY <2>1, <2>2 DEF BitmapIInv, BitmapInit
<1>2. BitmapIInv /\ [BitmapNext]_bitmapVars => BitmapIInv'
  <2> SUFFICES ASSUME BitmapIInv, [BitmapNext]_bitmapVars PROVE BitmapIInv'
    OBVIOUS
  <2>1. ASSUME NEW pos \in Positions, Set(pos) PROVE BitmapIInv'
    BY <2>1, Flipped DEF BitmapIInv, Set
  <2>2. ASSUME NEW pos \in Positions, Clear(pos) PROVE BitmapIInv'
    BY <2>2, Flipped DEF BitmapIInv, Clear
  <2>3. CASE UNCHANGED bitmapVars
    BY <2>3 DEF BitmapIInv, bitmapVars
  <2> QED BY <2>1, <2>2, <2>3 DEF BitmapNext
<1> QED BY <1>1, <1>2, PTL DEF BitmapSpec

\* FindNextClear is FindNextSet of the complement.
LEMMA FindNextClearIs ==
  ASSUME NEW v \in Bitmaps, NEW pos \in Positions
  PROVE  FindNextClear(v, pos) = FirstOr({p \in Positions \ On(v) : p >= pos})
<1>1. PICK c : c = [w \in WordIndices |-> BitIndices \ v[w]]
  OBVIOUS
<1>2. c \in Bitmaps
  BY <1>1 DEF Bitmaps
<1>3. On(c) = Positions \ On(v)
  <2>1. ASSUME NEW p \in Positions PROVE p \in On(c) <=> p \notin On(v)
    <3>1. WordOf(p) \in WordIndices /\ BitOf(p) \in BitIndices
      BY Splits
    <3> QED BY <1>1, <3>1 DEF On, GetBit
  <2>2. On(c) \subseteq Positions
    BY OnFinite
  <2> QED BY <2>1, <2>2
<1>4. FindNextSet(c, pos) = FirstOr({p \in On(c) : p >= pos})
  BY <1>2, FindNextSetIs
<1> QED BY <1>1, <1>3, <1>4 DEF FindNextClear

LEMMA QueriesAgree == BitmapIInv => BitmapAgrees
<1> SUFFICES ASSUME BitmapIInv PROVE BitmapAgrees
  OBVIOUS
<1>1. PICK v, S : v = bm /\ S = ones /\ v \in Bitmaps /\ S = On(v)
  BY DEF BitmapIInv
<1>2. CountBits(v) = Cardinality(S)
  <2>1. Words \in 0..Words /\ Join(Words, 0) = BitmapSize
    BY WordSizes DEF Join, BitmapSize
  <2>2. Before(S, BitmapSize) = S
    <3>1. \A p \in Positions : p < BitmapSize
      BY WordSizes DEF Positions
    <3>2. S \subseteq Positions
      BY <1>1, OnFinite
    <3> QED BY <3>1, <3>2 DEF Before
  <2> QED BY <1>1, <2>1, <2>2, CountBeforeIs DEF CountBits
<1>3. NoneSet(v) <=> S = {}
  <2>1. ASSUME NoneSet(v), NEW p \in S PROVE FALSE
    <3>1. p \in Positions /\ BitOf(p) \in v[WordOf(p)]
      BY <1>1 DEF On, GetBit
    <3> QED BY <2>1, <3>1, Splits DEF NoneSet
  <2>2. ASSUME S = {}, NEW w \in WordIndices PROVE v[w] = {}
    BY <1>1, <2>2, Bits
  <2> QED BY <2>1, <2>2 DEF NoneSet
<1>4. AllSet(v) <=> S = Positions
  <2>1. ASSUME AllSet(v) PROVE S = Positions
    <3>1. ASSUME NEW p \in Positions PROVE p \in S
      BY <1>1, <2>1, Splits DEF AllSet, On, GetBit
    <3> QED BY <1>1, <3>1, OnFinite
  <2>2. ASSUME S = Positions, NEW w \in WordIndices PROVE v[w] = BitIndices
    <3>1. v[w] \subseteq BitIndices /\ \A b \in BitIndices : Join(w, b) \in S <=> b \in v[w]
      BY <1>1, Bits
    <3>2. \A b \in BitIndices : Join(w, b) \in S
      BY <2>2, Joins
    <3> QED BY <3>1, <3>2
  <2> QED BY <2>1, <2>2 DEF AllSet
<1>5. ASSUME NEW pos \in Positions
      PROVE  /\ GetBit(v, pos) <=> pos \in S
             /\ CountLess(v, pos) = Cardinality({p \in S : p < pos})
             /\ FindNextSet(v, pos) = FirstOr({p \in S : p >= pos})
             /\ FindNextClear(v, pos) = FirstOr({p \in Positions \ S : p >= pos})
             /\ FindNthSet(v, pos) = FirstOr({p \in S : Cardinality({q \in S : q < p}) = pos})
  <2>1. GetBit(v, pos) <=> pos \in S
    BY <1>1 DEF On
  <2>2. CountLess(v, pos) = Cardinality({p \in S : p < pos})
    <3>1. PICK i \in WordIndices, o \in BitIndices : i = WordOf(pos) /\ o = BitOf(pos) /\ pos = Join(i, o)
      BY Splits
    <3>2. o \in 0..WordBits /\ i \in 0..Words
      BY <3>1, WordSizes DEF BitIndices, WordIndices
    <3>3. PICK k \in Nat, c \in Nat : k = Cardinality({b \in v[i] : b < o}) /\ c = CountBefore(v, i)
      <4>1. CountBefore(v, i) \in Nat
        BY <1>1, <3>2, CountBeforeIs, OnFinite
      <4>2. Cardinality({b \in v[i] : b < o}) \in Nat
        BY <1>1, <3>2, RankIs
      <4> QED BY <4>1, <4>2
    <3>4. c + k = Cardinality(Before(On(v), Join(i, o)))
      BY <1>1, <3>2, <3>3, RankIs
    <3>5. CountLess(v, pos) = k + c
      BY <3>1, <3>3 DEF CountLess
    <3>6. Before(On(v), Join(i, o)) = {p \in S : p < pos}
      BY <1>1, <3>1 DEF Before
    <3>7. k + c = c + k
      OBVIOUS
    <3> QED BY <3>4, <3>5, <3>6, <3>7
  <2>3. FindNextSet(v, pos) = FirstOr({p \in S : p >= pos})
    BY <1>1, FindNextSetIs
  <2>4. FindNextClear(v, pos) = FirstOr({p \in Positions \ S : p >= pos})
    BY <1>1, FindNextClearIs
  <2>5. FindNthSet(v, pos) = FirstOr({p \in S : Cardinality({q \in S : q < p}) = pos})
    <3>1. pos \in Nat
      BY WordSizes DEF Positions
    <3>2. FindNthSet(v, pos) = FirstOr({p \in On(v) : Cardinality({q \in On(v) : q < p}) = pos})
      BY <1>1, <3>1, FindNthSetIs
    <3> QED BY <1>1, <3>2, Zenon
  <2> QED BY <2>1, <2>2, <2>3, <2>4, <2>5
<1> QED BY <1>1, <1>2, <1>3, <1>4, <1>5 DEF BitmapAgrees

\* The bitmap answers every query for the set of the positions that were set and not
\* cleared since: for any number of words, of up to 64 bits.
THEOREM BitmapIsSet == BitmapSpec => []BitmapAgrees
BY BitmapAlways, QueriesAgree, PTL

=============================================================================
