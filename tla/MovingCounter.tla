----------------------------- MODULE MovingCounter -----------------------------
(***************************************************************************)
(* movingcounter.MovingCounter: total, count, minimum and maximum of the   *)
(* values added during the last period, kept in a ring of buckets that     *)
(* each cover an aligned stretch of bucketPeriod.                          *)
(*                                                                         *)
(* Times are integers in the unit of the clock.  The clock is external and *)
(* may step backwards.  The counter is one record, its methods operators   *)
(* on it.                                                                  *)
(***************************************************************************)
EXTENDS Integers, FiniteSets

CONSTANTS
  Period,      \* MovingCounter.period
  NumBuckets,  \* len(MovingCounter.buckets)
  Values,      \* the values that are added (Int64Value)
  MaxTime,     \* bound: the clock
  MaxAdds      \* bound: values that count at one time

ASSUME PeriodAssumption == Period \in Nat /\ NumBuckets \in Nat \ {0}
ASSUME ValuesAssumption == Values \subseteq Int
ASSUME BoundsAssumption == MaxTime \in Nat /\ MaxAdds \in Nat

BucketPeriod == Period \div NumBuckets
\* Otherwise getBucket divides by zero.
ASSUME BucketPeriodAssumption == BucketPeriod > 0

VARIABLES
  mc,        \* the counter
  now,       \* what clock.Now() returns
  panicked,  \* a panic in getBucket or expireOld
  kept,      \* history: the values that count, and when they were added
  monotone   \* history: the clock has not stepped backwards

counterVars == <<mc, now, panicked, kept, monotone>>

Times == 0..MaxTime
Indices == 0..(NumBuckets - 1)

Empty(t) == [startTime |-> t, count |-> 0, total |-> 0, min |-> 0, max |-> 0]

NewMovingCounter ==
  [buckets |-> [i \in Indices |-> Empty(0)], first |-> 0, active |-> 0, total |-> 0, count |-> 0]

Lesser(a, b) == IF b < a THEN b ELSE a
Greater(a, b) == IF b > a THEN b ELSE a

\* counterBucket.add
AddToBucket(b, v) ==
  IF b.count = 0 THEN [b EXCEPT !.total = v, !.min = v, !.max = v, !.count = 1]
  ELSE [b EXCEPT !.total = @ + v, !.min = Lesser(@, v), !.max = Greater(@, v), !.count = @ + 1]

\* The index of the i-th active bucket, from 0.
Index(m, i) == (m.first + i) % NumBuckets
Bucket(m, i) == m.buckets[Index(m, i)]
LastBucket(m) == Bucket(m, m.active - 1)

\* f[0] + ... + f[n - 1]
SumFirst(f, n) == LET sum[k \in 0..n] == IF k = 0 THEN 0 ELSE sum[k - 1] + f[k - 1] IN sum[n]
Totals(m) == [i \in 0..(m.active - 1) |-> Bucket(m, i).total]
Counts(m) == [i \in 0..(m.active - 1) |-> Bucket(m, i).count]

Old(b, t) == b.startTime <= t - Period

\* How many buckets, from the first, expireOld drops: those that start at or
\* before t - period, up to the first that does not.
ExpiredCount(m, t) ==
  Cardinality({n \in 1..m.active : \A i \in 0..(n - 1) : Old(Bucket(m, i), t)})

DroppedTotal(m, n) == SumFirst(Totals(m), n)

NewFirst(m, n) == IF n = m.active THEN 0 ELSE Index(m, n)

\* expireOld resets a copy of each dropped bucket: the array does not change.
ExpireOld(m, t) ==
  LET n == ExpiredCount(m, t)
      count == m.count - SumFirst(Counts(m), n)
  IN  [buckets |-> m.buckets,
       first |-> NewFirst(m, n),
       active |-> m.active - n,
       count |-> count,
       total |-> IF count = 0 THEN 0 ELSE m.total - DroppedTotal(m, n)]

\* expireOld panics when it dropped every bucket and the count is not zero.
ExpireOldPanics(m) == m.active = 0 /\ m.count # 0

\* getBucket in three cases: the time is before the last bucket, in it, or a new
\* bucket is needed, for which expireOld has to leave room.
GoesBack(m, t) == m.active > 0 /\ t < LastBucket(m).startTime

\* Mutant: the last bucket is used at the instant its stretch ends.
BucketEndLate(b) == b.startTime + BucketPeriod + 1
BucketEnd(b) == b.startTime + BucketPeriod

InLast(m, t) == m.active > 0 /\ LastBucket(m).startTime <= t /\ t < BucketEnd(LastBucket(m))

Aligned(t) == t - (t % BucketPeriod)

PushBucket(m, t) ==
  [m EXCEPT !.active = @ + 1, !.buckets[Index(m, m.active)] = Empty(Aligned(t))]

\* addWithTime once the last active bucket is the one for the value.
AddToLast(m, v) ==
  [m EXCEPT !.buckets[Index(m, m.active - 1)] = AddToBucket(@, v),
            !.total = @ + v, !.count = @ + 1]

CounterInit ==
  /\ mc = NewMovingCounter
  /\ now = 0
  /\ panicked = FALSE
  /\ kept = <<>>
  /\ monotone = TRUE

-----------------------------------------------------------------------------
\* What ought to count, told without the buckets.  A value counts unless one of a
\* later stretch does when it is added, and until its stretch is seen to have
\* started a period ago: by Total, Min and Max, and by an Add that is the first of
\* its stretch.
Stretch(i) == Aligned(kept[i].at)
Late(t) == \E i \in DOMAIN kept : Stretch(i) > t
Current(t) == \E i \in DOMAIN kept : Stretch(i) = Aligned(t)
Unexpired(t) == {i \in DOMAIN kept : Stretch(i) > t - Period}

Fresh(S) == CHOOSE i \in 1..MaxAdds : i \notin S
KeepAlso(S, e) == kept' = [i \in S \cup {Fresh(S)} |-> IF i \in S THEN kept[i] ELSE e]

Keep(v) ==
  LET S == IF Current(now) THEN DOMAIN kept ELSE Unexpired(now)
  IN  \/ Late(now) /\ UNCHANGED kept
      \/ ~Late(now) /\ (1..MaxAdds) \ S # {} /\ KeepAlso(S, [val |-> v, at |-> now])

-----------------------------------------------------------------------------
\* The clock moves on, or is set back, by any number of steps between two calls.
Tick ==
  /\ now < MaxTime
  /\ now' = now + 1
  /\ UNCHANGED <<mc, panicked, kept, monotone>>

StepBack ==
  /\ now > 0
  /\ now' = now - 1
  /\ monotone' = FALSE
  /\ UNCHANGED <<mc, panicked, kept>>

Add(v) ==
  /\ ~panicked
  /\ Keep(v)
  /\ \/ /\ GoesBack(mc, now)
        /\ UNCHANGED <<mc, panicked>>
     \/ /\ InLast(mc, now)
        /\ mc' = AddToLast(mc, v)
        /\ UNCHANGED panicked
     \/ /\ ~GoesBack(mc, now) /\ ~InLast(mc, now)
        /\ LET m == ExpireOld(mc, now)
           IN  /\ panicked' = (ExpireOldPanics(m) \/ m.active >= NumBuckets)
               /\ mc' = IF panicked' THEN m ELSE AddToLast(PushBucket(m, now), v)
  /\ UNCHANGED <<now, monotone>>

\* Total, Min and Max expire old buckets and read the rest.
Query ==
  /\ ~panicked
  /\ mc' = ExpireOld(mc, now)
  /\ panicked' = ExpireOldPanics(mc')
  /\ kept' = [i \in Unexpired(now) |-> kept[i]]
  /\ UNCHANGED <<now, monotone>>

CounterNext == Tick \/ StepBack \/ Query \/ \E v \in Values : Add(v)

CounterSpec == CounterInit /\ [][CounterNext]_counterVars

-----------------------------------------------------------------------------
\* The types of the variables.
CounterTypeOK ==
  /\ mc.buckets \in [Indices -> [startTime : Times, count : Nat, total : Int, min : Int, max : Int]]
  /\ mc.first \in Indices
  /\ mc.active \in 0..NumBuckets
  /\ mc.total \in Int
  /\ mc.count \in Nat
  /\ now \in Times
  /\ panicked \in BOOLEAN
  /\ DOMAIN kept \subseteq 1..MaxAdds
  /\ \A i \in DOMAIN kept : kept[i] \in [val : Values, at : Times]
  /\ monotone \in BOOLEAN

\* The panics "c.active >= len(c.buckets)" and "c.count != 0" are not reached,
\* whatever the clock does.
NoPanic == ~panicked

\* The active buckets are aligned and at least bucketPeriod apart.
BucketsApart ==
  /\ \A i \in 0..(mc.active - 1) : Bucket(mc, i).startTime % BucketPeriod = 0
  /\ \A i, j \in 0..(mc.active - 1) :
       i < j => Bucket(mc, j).startTime >= Bucket(mc, i).startTime + (j - i) * BucketPeriod

\* Minimum and maximum as Min and Max compute them, over the buckets with values.
Filled(m) == {i \in 0..(m.active - 1) : Bucket(m, i).count > 0}
MinOf(m) ==
  IF Filled(m) = {} THEN 0
  ELSE CHOOSE x \in {Bucket(m, i).min : i \in Filled(m)} : \A i \in Filled(m) : x <= Bucket(m, i).min
MaxOf(m) ==
  IF Filled(m) = {} THEN 0
  ELSE CHOOSE x \in {Bucket(m, i).max : i \in Filled(m)} : \A i \in Filled(m) : x >= Bucket(m, i).max

\* The running total and count are those of the active buckets, also when the
\* clock steps backwards.
Balanced ==
  /\ mc.count = SumFirst(Counts(mc), mc.active)
  /\ mc.total = SumFirst(Totals(mc), mc.active)

Least(S) == IF S = {} THEN 0 ELSE CHOOSE x \in S : \A y \in S : x <= y
Largest(S) == IF S = {} THEN 0 ELSE CHOOSE x \in S : \A y \in S : x >= y
QueriesRight ==
  LET m == ExpireOld(mc, now)
      recent == Unexpired(now)
      values == {kept[i].val : i \in recent}
  IN  /\ m.count = Cardinality(recent)
      /\ m.total = SumFirst([i \in 0..(MaxAdds - 1) |-> IF i + 1 \in recent THEN kept[i + 1].val ELSE 0],
                            MaxAdds)
      /\ MinOf(m) = Least(values)
      /\ MaxOf(m) = Largest(values)

\* Without a step backwards no Add is late: every value counts for its time.
NoneLate == monotone => \A i \in DOMAIN kept : kept[i].at <= now

\* What Total, Min and Max return agrees with the values that count.  As long as
\* the clock does not step backwards these are all that were added, each until the
\* start of its bucket is one period old; after a step backwards they are all but
\* those added before the start of the newest bucket, and what was expired stays
\* so.  The buckets stay in order, the running sums are theirs and nothing panics.
Accurate ==
  CounterTypeOK /\ NoPanic /\ BucketsApart /\ Balanced /\ QueriesRight /\ NoneLate

=============================================================================
