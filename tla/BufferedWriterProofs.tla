------------------------- MODULE BufferedWriterProofs -------------------------
(***************************************************************************)
(* Proofs about the ring buffer and about BufferedWriter, which keeps its  *)
(* bytes in one.  The ring buffer implements a bounded queue that Peek and *)
(* Fetch read correctly.  BufferedWriter, for any ring (the empty one of a *)
(* writer without buffer too), any callers and any bytes, passes on the    *)
(* stream in the order it was written, acknowledges a flush only for what  *)
(* has reached the writer below, and does not go on after a failed write.  *)
(***************************************************************************)
EXTENDS BufferedWriter, RingBufferClient, FiniteSetTheorems, SequenceTheorems,
        WellFoundedInduction, TLAPS

-----------------------------------------------------------------------------
\* RingBuffer.  A ring whose indices are inside the array, and its i-th byte.
RingOK(r) == r \in Rings /\ r.start \in Slots /\ r.length \in 0..BufSize
At(r, i) == r.buf[(r.start + i - 1) % BufSize]

\* No index of the code goes around the array more than once.
WrapsOnce(x) == x % BufSize = IF x < BufSize THEN x ELSE x - BufSize

\* Every index up to twice the size wraps around at most once.
LEMMA Wrap ==
  ASSUME NEW r, RingOK(r)
  PROVE  /\ BufSize \in Nat /\ BufSize > 0
         /\ \A x \in 0..(2 * BufSize - 1) : WrapsOnce(x)
<1>1. BufSize \in Nat /\ BufSize > 0
  BY BufSizeAssumption DEF RingOK, Slots
<1>2. ASSUME NEW x \in 0..(BufSize - 1) PROVE x % BufSize = x
  BY <1>1
<1>3. ASSUME NEW x \in BufSize..(2 * BufSize - 1) PROVE x % BufSize = x - BufSize
  BY <1>1
<1> QED BY <1>1, <1>2, <1>3 DEF WrapsOnce

\* Where the bytes before and after the write position are.
LEMMA Positions ==
  ASSUME NEW B \in Nat, NEW s \in 0..(B - 1), NEW L \in 0..B, NEW n \in Nat,
         NEW e \in Int, e = IF s + L < B THEN s + L ELSE s + L - B, n <= B - L, n <= B - e
  PROVE  /\ \A i \in 1..L : LET p == IF s + i - 1 < B THEN s + i - 1 ELSE s + i - 1 - B
                            IN  p \in 0..(B - 1) /\ p \notin e..(e + n - 1)
         /\ \A i \in 1..n : LET p == IF s + (L + i) - 1 < B THEN s + (L + i) - 1 ELSE s + (L + i) - 1 - B
                            IN  p \in 0..(B - 1) /\ p = e + i - 1
<1>1. CASE s + L < B
  BY <1>1
<1>2. CASE s + L >= B
  BY <1>2
<1> QED BY <1>1, <1>2

\* The ring z is r with the first n bytes of b behind its own; if more would fit,
\* the end of the array was reached.
Grown(r, b, n, z) ==
  /\ n \in 0..Len(b) /\ n <= Free(r)
  /\ RingOK(z) /\ z.start = r.start /\ z.length = r.length + n
  /\ \A i \in 1..r.length : At(z, i) = At(r, i)
  /\ \A i \in 1..n : At(z, r.length + i) = b[i]
  /\ \/ n = Len(b) \/ n = Free(r)
     \/ (n > 0 /\ n < Len(b) /\ n < Free(r) /\ r.start + r.length + n = BufSize)

\* writeBlock appends the first bytes of b and moves nothing that is in the ring.
LEMMA BlockAppends ==
  ASSUME NEW r, RingOK(r), NEW b \in Seq(Bytes)
  PROVE  Grown(r, b, BlockLen(r, Len(b)), WriteBlock(r, b))
<1> DEFINE B == BufSize
           q == WriteBlock(r, b)
<1>a. PICK s, L, e, n : s = r.start /\ L = r.length /\ e = BlockEnd(r) /\ n = BlockLen(r, Len(b))
  OBVIOUS
<1>1. /\ B \in Nat /\ B > 0 /\ s \in 0..(B - 1) /\ L \in 0..B /\ Len(b) \in Nat
      /\ r.buf \in [Slots -> Bytes] /\ Slots = 0..(B - 1)
  BY <1>a, Wrap DEF RingOK, Rings, Slots
<1>2. e = IF s + L < B THEN s + L ELSE s + L - B
  <2>1. s + L \in 0..(2 * B - 1)
    BY <1>1
  <2>2. WrapsOnce(s + L)
    BY <2>1, Wrap
  <2> QED BY <1>1, <1>a, <2>2 DEF BlockEnd, WrapsOnce
<1>3. e \in 0..(B - 1)
  BY <1>1, <1>2
<1>4. n = Smaller(Smaller(Len(b), B - L), B - e)
  BY <1>a DEF BlockLen, Free
<1>5. n \in Nat /\ n <= Len(b) /\ n <= B - L /\ n <= B - e /\ (n = Len(b) \/ n = B - L \/ n = B - e)
  BY <1>1, <1>3, <1>4 DEF Smaller
<1>6. /\ q.start = s /\ q.length = L + n
      /\ q.buf = [i \in Slots |-> IF i \in e..(e + n - 1) THEN b[i - e + 1] ELSE r.buf[i]]
  BY <1>a DEF WriteBlock
<1>7. RingOK(q)
  <2>1. ASSUME NEW i \in Slots PROVE (IF i \in e..(e + n - 1) THEN b[i - e + 1] ELSE r.buf[i]) \in Bytes
    <3>1. ASSUME i \in e..(e + n - 1) PROVE b[i - e + 1] \in Bytes
      <4>1. i - e + 1 \in 1..Len(b)
        BY <1>1, <1>3, <1>5, <3>1
      <4> QED BY <4>1
    <3> QED BY <1>1, <3>1
  <2>2. q.buf \in [Slots -> Bytes]
    BY <1>6, <2>1
  <2>3. q = [buf |-> q.buf, start |-> s, length |-> L + n]
    BY <1>a DEF WriteBlock
  <2>4. s \in Nat /\ L + n \in Nat /\ s \in Slots /\ L + n \in 0..B
    BY <1>1, <1>5
  <2> QED BY <1>6, <2>2, <2>3, <2>4 DEF RingOK, Rings
<1>8. ASSUME NEW i \in 1..L PROVE At(q, i) = At(r, i)
  <2>1. s + i - 1 \in 0..(2 * B - 1)
    BY <1>1
  <2>2. PICK p : p = (s + i - 1) % B /\ p = IF s + i - 1 < B THEN s + i - 1 ELSE s + i - 1 - B
    <3>1. WrapsOnce(s + i - 1)
      BY <2>1, Wrap
    <3> QED BY <1>1, <3>1 DEF WrapsOnce
  <2>3. p \in Slots /\ p \notin e..(e + n - 1)
    BY <1>1, <1>2, <1>3, <1>5, <2>2, Positions
  <2>4. q.buf[p] = r.buf[p]
    BY <1>6, <2>3
  <2> QED BY <1>6, <1>a, <2>2, <2>4 DEF At
<1>9. ASSUME NEW i \in 1..n PROVE At(q, L + i) = b[i]
  <2>1. s + (L + i) - 1 \in 0..(2 * B - 1)
    BY <1>1, <1>5
  <2>2. PICK p : p = (s + (L + i) - 1) % B /\ p = IF s + (L + i) - 1 < B THEN s + (L + i) - 1 ELSE s + (L + i) - 1 - B
    <3>1. WrapsOnce(s + (L + i) - 1)
      BY <2>1, Wrap
    <3> QED BY <1>1, <3>1 DEF WrapsOnce
  <2>3. p \in Slots /\ p = e + i - 1
    BY <1>1, <1>2, <1>3, <1>5, <2>2, Positions
  <2>4. q.buf[p] = b[i]
    <3>1. p \in e..(e + n - 1) /\ p - e + 1 = i
      BY <1>3, <1>5, <2>3
    <3> QED BY <1>6, <2>3, <3>1
  <2> QED BY <1>6, <1>a, <2>2, <2>4 DEF At
<1>10. n = Len(b) \/ n = Free(r) \/ (n > 0 /\ n < Len(b) /\ n < Free(r) /\ s + L + n = B)
  <2>1. Free(r) = B - L
    BY <1>a DEF Free
  <2>2. ASSUME n # Len(b), n # B - L PROVE n > 0 /\ n < Len(b) /\ n < B - L /\ s + L + n = B
    <3>1. n = B - e /\ n > 0 /\ n < Len(b) /\ n < B - L
      BY <1>1, <1>3, <1>5, <2>2
    <3>2. s + L < B
      BY <1>1, <1>2, <3>1
    <3> QED BY <1>1, <1>2, <3>1, <3>2
  <2> QED BY <2>1, <2>2
<1> QED BY <1>1, <1>5, <1>6, <1>7, <1>8, <1>9, <1>10, <1>a DEF Free, Grown

\* Two blocks take all that fits, in order: the first one ends at the end of the
\* array or at the last byte that fits.
LEMMA AppendFits ==
  ASSUME NEW r, RingOK(r), NEW b \in Seq(Bytes), NEW m, m = Smaller(Len(b), Free(r))
  PROVE  /\ m \in 0..Len(b) /\ RingOK(AppendBytes(r, b))
         /\ AppendBytes(r, b).length = r.length + m
         /\ \A i \in 1..r.length : At(AppendBytes(r, b), i) = At(r, i)
         /\ \A i \in 1..m : At(AppendBytes(r, b), r.length + i) = b[i]
<1>1. PICK n, q, c : n = BlockLen(r, Len(b)) /\ q = WriteBlock(r, b) /\ c = SubSeq(b, n + 1, Len(b))
  OBVIOUS
<1>2. PICK k, z : k = BlockLen(q, Len(c)) /\ z = WriteBlock(q, c)
  OBVIOUS
<1>3. z = AppendBytes(r, b)
  BY <1>1, <1>2 DEF AppendBytes
<1>4. PICK L, l, f : L = r.length /\ l = Len(b) /\ f = Free(r)
  OBVIOUS
<1>5. l \in Nat /\ L \in Nat /\ f \in Nat /\ f = BufSize - L /\ BufSize \in Nat
  BY <1>4, Wrap DEF RingOK, Free
<1>6. /\ n \in 0..l /\ n <= f /\ RingOK(q) /\ q.start = r.start /\ q.length = L + n
      /\ \A i \in 1..L : At(q, i) = At(r, i)
      /\ \A i \in 1..n : At(q, L + i) = b[i]
      /\ n = l \/ n = f \/ (n > 0 /\ n < l /\ n < f /\ r.start + L + n = BufSize)
  <2>1. Grown(r, b, n, q)
    BY <1>1, BlockAppends
  <2> QED BY <1>4, <2>1 DEF Grown
<1>7. c \in Seq(Bytes) /\ Len(c) = l - n /\ \A i \in 1..(l - n) : c[i] = b[n + i]
  <2>1. PICK a \in Int : a = n + 1
    BY <1>5, <1>6
  <2>2. l \in Int /\ \A i \in a..l : b[i] \in Bytes
    BY <1>4, <1>5, <1>6, <2>1
  <2>3. /\ SubSeq(b, a, l) \in Seq(Bytes) /\ Len(SubSeq(b, a, l)) = IF a <= l THEN l - a + 1 ELSE 0
        /\ \A i \in 1..(l - a + 1) : SubSeq(b, a, l)[i] = b[a + i - 1]
    BY <2>2, SubSeqProperties
  <2>4. c = SubSeq(b, a, l) /\ l - a + 1 = l - n
    BY <1>1, <1>4, <1>5, <1>6, <2>1
  <2>5. Len(c) = l - n
    BY <1>5, <1>6, <2>1, <2>3, <2>4
  <2>6. ASSUME NEW i \in 1..(l - n) PROVE c[i] = b[n + i]
    <3>1. a + i - 1 = n + i
      BY <1>5, <1>6, <2>1
    <3> QED BY <2>3, <2>4, <3>1
  <2> QED BY <2>3, <2>4, <2>5, <2>6
<1>8. /\ k \in 0..Len(c) /\ k <= Free(q) /\ RingOK(z) /\ z.length = q.length + k
      /\ \A i \in 1..q.length : At(z, i) = At(q, i)
      /\ \A i \in 1..k : At(z, q.length + i) = c[i]
      /\ k = Len(c) \/ k = Free(q) \/ (k > 0 /\ k < Len(c) /\ k < Free(q) /\ q.start + q.length + k = BufSize)
  <2>1. Grown(q, c, k, z)
    BY <1>2, <1>6, <1>7, BlockAppends
  <2> QED BY <2>1 DEF Grown
<1>9. Free(q) = f - n
  BY <1>5, <1>6 DEF Free
<1>10. PICK s \in Nat : s = r.start
  BY DEF RingOK, Rings
<1>11. n + k = m
  <2>1. m = IF l < f THEN l ELSE f
    BY <1>4 DEF Smaller
  <2>2. /\ k \in 0..(l - n) /\ k <= f - n
        /\ k = l - n \/ k = f - n \/ (k > 0 /\ k < l - n /\ k < f - n /\ s + (L + n) + k = BufSize)
    BY <1>6, <1>7, <1>8, <1>9, <1>10
  <2>3. n \in 0..l /\ n <= f /\ (n = l \/ n = f \/ (n > 0 /\ n < l /\ n < f /\ s + L + n = BufSize))
    BY <1>6, <1>10
  <2> QED BY <1>5, <2>1, <2>2, <2>3
<1>12. m \in 0..l /\ z.length = L + m
  BY <1>5, <1>6, <1>7, <1>8, <1>11
<1>13. ASSUME NEW i \in 1..L PROVE At(z, i) = At(r, i)
  <2>1. i \in 1..(L + n)
    BY <1>5, <1>6
  <2> QED BY <1>6, <1>8, <2>1
<1>14. ASSUME NEW i \in 1..m PROVE At(z, L + i) = b[i]
  <2>1. CASE i <= n
    <3>1. i \in 1..n /\ L + i \in 1..(L + n)
      BY <1>5, <1>6, <1>12, <2>1
    <3> QED BY <1>6, <1>8, <3>1
  <2>2. CASE i > n
    <3>1. PICK j \in 1..k : i = n + j
      <4>1. i - n \in 1..k /\ i = n + (i - n)
        BY <1>5, <1>6, <1>7, <1>8, <1>11, <1>12, <2>2
      <4> QED BY <4>1
    <3>2. j \in 1..(l - n)
      BY <1>5, <1>6, <1>7, <1>8
    <3>3. (L + n) + j = L + i
      BY <1>5, <1>6, <1>7, <1>8, <3>1
    <3>4. At(z, (L + n) + j) = c[j]
      BY <1>6, <1>8
    <3> QED BY <1>7, <3>1, <3>2, <3>3, <3>4
  <2> QED BY <1>5, <1>6, <1>12, <2>1, <2>2
<1> QED BY <1>3, <1>4, <1>8, <1>12, <1>13, <1>14

\* The bytes of a ring in order.
BytesOf(r) == [i \in 1..r.length |-> At(r, i)]

\* They are a sequence as long as the ring says.
LEMMA BytesOfRing ==
  ASSUME NEW r, RingOK(r)
  PROVE  BytesOf(r) \in Seq(Bytes) /\ Len(BytesOf(r)) = r.length /\ \A i \in 1..r.length : BytesOf(r)[i] = At(r, i)
<1>1. r.length \in Nat /\ BufSize \in Nat /\ BufSize > 0 /\ r.start \in Nat /\ r.buf \in [0..(BufSize - 1) -> Bytes]
  BY Wrap DEF RingOK, Rings, Slots
<1>2. ASSUME NEW i \in 1..r.length PROVE At(r, i) \in Bytes
  <2>1. PICK x \in Nat : x = r.start + i - 1
    <3>1. r.start + i - 1 \in Nat
      BY <1>1
    <3> QED BY <3>1
  <2>2. x % BufSize \in 0..(BufSize - 1)
    BY <1>1
  <2> QED BY <1>1, <2>1, <2>2 DEF At
<1> QED BY <1>1, <1>2 DEF BytesOf

\* Consume drops the first bytes and moves none of the others.
LEMMA ConsumeDrops ==
  ASSUME NEW r, RingOK(r), NEW n \in Nat, n <= r.length
  PROVE  /\ RingOK(Consume(r, n)) /\ Consume(r, n).length = r.length - n
         /\ \A i \in 1..(r.length - n) : At(Consume(r, n), i) = At(r, n + i)
<1>1. PICK s, L, z : s = r.start /\ L = r.length /\ z = Consume(r, n)
  OBVIOUS
<1>2. /\ s \in 0..(BufSize - 1) /\ L \in 0..BufSize /\ BufSize \in Nat /\ BufSize > 0 /\ n <= L
      /\ r.buf \in [Slots -> Bytes] /\ Slots = 0..(BufSize - 1)
  BY <1>1, Wrap DEF RingOK, Rings, Slots
<1>3. WrapsOnce(s + n)
  <2>1. s + n \in 0..(2 * BufSize - 1)
    BY <1>2
  <2> QED BY <2>1, Wrap
<1>4. PICK t : t = z.start
  OBVIOUS
<1>5. t = IF L = n THEN 0 ELSE IF s + n < BufSize THEN s + n ELSE s + n - BufSize
  BY <1>1, <1>2, <1>3, <1>4 DEF Consume, WrapsOnce
<1>6. t \in 0..(BufSize - 1)
  BY <1>2, <1>5
<1>7. z = [buf |-> r.buf, start |-> t, length |-> L - n]
  BY <1>1, <1>4 DEF Consume
<1>8. RingOK(z)
  BY <1>2, <1>6, <1>7 DEF RingOK, Rings
<1>9. ASSUME NEW i \in 1..(L - n) PROVE At(z, i) = At(r, n + i)
  <2>1. t + i - 1 \in 0..(2 * BufSize - 1) /\ s + (n + i) - 1 \in 0..(2 * BufSize - 1)
    BY <1>2, <1>6
  <2>2. WrapsOnce(t + i - 1) /\ WrapsOnce(s + (n + i) - 1)
    BY <2>1, Wrap
  <2>3. PICK p, q : p = (t + i - 1) % BufSize /\ q = (s + (n + i) - 1) % BufSize
    OBVIOUS
  <2>4. /\ p = IF t + i - 1 < BufSize THEN t + i - 1 ELSE t + i - 1 - BufSize
        /\ q = IF s + (n + i) - 1 < BufSize THEN s + (n + i) - 1 ELSE s + (n + i) - 1 - BufSize
    BY <1>2, <1>6, <2>2, <2>3 DEF WrapsOnce
  <2>5. p = q
    BY <1>2, <1>5, <1>6, <2>4
  <2> QED BY <1>1, <1>7, <2>3, <2>5 DEF At
<1> QED BY <1>1, <1>7, <1>8, <1>9

\* The invariant of the ring, and its contents as a sequence.
RingInv == RingOK(ring) /\ given \in Seq(Bytes) /\ count \in 0..Len(given)

\* Contents is a sequence of bytes, each at its place in the ring.
LEMMA ContentsAreBytes ==
  RingInv => /\ Contents = BytesOf(ring) /\ Contents \in Seq(Bytes) /\ Len(Contents) = ring.length
             /\ \A i \in 1..ring.length : Contents[i] = At(ring, i)
<1>1. Contents = BytesOf(ring)
  BY DEF Contents, BytesOf, At
<1> QED BY <1>1, BytesOfRing DEF RingInv

\* Append is the queue's: it takes what fits and reports how much that was.
LEMMA AppendStep ==
  ASSUME RingInv, NEW b \in Seq(Bytes), DoAppend(b)
  PROVE  RingInv' /\ Queue!QueueAppend(b)
<1>1. RingOK(ring) /\ ring' = AppendBytes(ring, b) /\ given' = b /\ count' = AppendBytes(ring, b).length - ring.length
  BY DEF RingInv, DoAppend, AppendCount
<1>2. PICK m : m = Smaller(Len(b), Free(ring))
  OBVIOUS
<1>3. PICK L \in Nat : L = ring.length
  BY <1>1 DEF RingOK, Rings
<1>4. /\ m \in 0..Len(b) /\ RingOK(ring') /\ ring'.length = L + m
      /\ \A i \in 1..L : At(ring', i) = At(ring, i)
      /\ \A i \in 1..m : At(ring', L + i) = b[i]
  BY <1>1, <1>2, <1>3, AppendFits
<1>5. Len(b) \in Nat /\ m \in Nat
  BY <1>4
<1>6. count' = m
  BY <1>1, <1>3, <1>4, <1>5
<1>7. RingInv'
  BY <1>1, <1>4, <1>5, <1>6 DEF RingInv
<1>8. PICK x, y : x = Contents /\ y = Contents'
  OBVIOUS
<1>9. x \in Seq(Bytes) /\ Len(x) = L /\ \A i \in 1..L : x[i] = At(ring, i)
  BY <1>3, <1>8, ContentsAreBytes
<1>10. y \in Seq(Bytes) /\ Len(y) = L + m /\ \A i \in 1..(L + m) : y[i] = At(ring', i)
  <2>1. Contents' = BytesOf(ring')
    BY DEF Contents, BytesOf, At
  <2> QED BY <1>4, <1>8, <2>1, BytesOfRing
<1>11. PICK c : c = SubSeq(b, 1, m)
  OBVIOUS
<1>12. c \in Seq(Bytes) /\ Len(c) = m /\ \A i \in 1..m : c[i] = b[i]
  <2>1. \A i \in 1..m : b[i] \in Bytes
    BY <1>4, <1>5
  <2>2. /\ c \in Seq(Bytes) /\ Len(c) = IF 1 <= m THEN m - 1 + 1 ELSE 0
        /\ \A i \in 1..(m - 1 + 1) : c[i] = b[1 + i - 1]
    BY <1>5, <1>11, <2>1, SubSeqProperties
  <2> QED BY <1>5, <2>2
<1>13. /\ x \o c \in Seq(Bytes) /\ Len(x \o c) = L + m
       /\ \A i \in 1..(L + m) : (x \o c)[i] = IF i <= L THEN x[i] ELSE c[i - L]
  BY <1>9, <1>12, ConcatProperties
<1>14. ASSUME NEW i \in 1..(L + m) PROVE y[i] = (x \o c)[i]
  <2>1. CASE i <= L
    <3>1. i \in 1..L
      BY <1>5, <2>1
    <3>2. (x \o c)[i] = x[i]
      BY <1>13, <2>1
    <3> QED BY <1>4, <1>9, <1>10, <3>1, <3>2
  <2>2. CASE i > L
    <3>1. PICK j \in 1..m : i = L + j
      <4>1. i - L \in 1..m /\ i = L + (i - L)
        BY <1>5, <2>2
      <4> QED BY <4>1
    <3>2. i - L = j
      BY <1>5, <3>1
    <3>3. (x \o c)[i] = b[j]
      BY <1>12, <1>13, <2>2, <3>2
    <3> QED BY <1>4, <1>10, <3>1, <3>3
  <2>3. i <= L \/ i > L
    BY <1>5
  <2> QED BY <2>1, <2>2, <2>3
<1>15. y = x \o c
  BY <1>10, <1>13, <1>14, SeqEqual
<1>16. count' = IF Len(b) <= BufSize - Len(x) THEN Len(b) ELSE BufSize - Len(x)
  <2>1. Free(ring) = BufSize - L /\ BufSize \in Nat
    BY <1>3, BufSizeAssumption DEF Free
  <2> QED BY <1>2, <1>5, <1>6, <1>9, <2>1 DEF Smaller
<1>17. Contents' = Contents \o SubSeq(b, 1, count')
  BY <1>6, <1>8, <1>11, <1>15
<1> QED BY <1>1, <1>7, <1>8, <1>16, <1>17 DEF Queue!QueueAppend

\* Consume is the queue's.
LEMMA ConsumeStep ==
  ASSUME RingInv, NEW n \in Nat, DoConsume(n)
  PROVE  RingInv' /\ Queue!QueueConsume(n)
<1>1. RingOK(ring) /\ n <= ring.length /\ ring' = Consume(ring, n) /\ given' = given /\ count' = count
  BY DEF RingInv, DoConsume
<1>2. PICK L \in Nat : L = ring.length
  BY <1>1 DEF RingOK, Rings
<1>3. /\ RingOK(ring') /\ ring'.length = L - n
      /\ \A i \in 1..(L - n) : At(ring', i) = At(ring, n + i)
  BY <1>1, <1>2, ConsumeDrops
<1>4. RingInv'
  BY <1>1, <1>3 DEF RingInv
<1>5. PICK x, y : x = Contents /\ y = Contents'
  OBVIOUS
<1>6. x \in Seq(Bytes) /\ Len(x) = L /\ \A i \in 1..L : x[i] = At(ring, i)
  BY <1>2, <1>5, ContentsAreBytes
<1>7. y \in Seq(Bytes) /\ Len(y) = L - n /\ \A i \in 1..(L - n) : y[i] = At(ring', i)
  <2>1. Contents' = BytesOf(ring')
    BY DEF Contents, BytesOf, At
  <2> QED BY <1>3, <1>5, <2>1, BytesOfRing
<1>8. PICK z : z = SubSeq(x, n + 1, L)
  OBVIOUS
<1>9. n <= L
  BY <1>1, <1>2
<1>10. z \in Seq(Bytes) /\ Len(z) = L - n /\ \A i \in 1..(L - n) : z[i] = x[n + i]
  <2>1. PICK a \in Int : a = n + 1
    OBVIOUS
  <2>2. \A i \in a..L : x[i] \in Bytes
    BY <1>6, <2>1
  <2>3. z = SubSeq(x, a, L)
    BY <1>8, <2>1
  <2>4. /\ z \in Seq(Bytes) /\ Len(z) = IF a <= L THEN L - a + 1 ELSE 0
        /\ \A i \in 1..(L - a + 1) : z[i] = x[a + i - 1]
    BY <2>2, <2>3, SubSeqProperties
  <2>5. Len(z) = L - n /\ L - a + 1 = L - n
    BY <1>9, <2>1, <2>4
  <2>6. ASSUME NEW i \in 1..(L - n) PROVE z[i] = x[n + i]
    <3>1. a + i - 1 = n + i
      BY <2>1
    <3> QED BY <2>4, <2>5, <3>1
  <2> QED BY <2>4, <2>5, <2>6
<1>11. ASSUME NEW i \in 1..(L - n) PROVE y[i] = z[i]
  <2>1. n + i \in 1..L
    BY <1>9
  <2> QED BY <1>3, <1>6, <1>7, <1>10, <2>1
<1>12. y = z
  BY <1>7, <1>9, <1>10, <1>11, SeqEqual
<1>13. n <= Len(Contents) /\ Contents' = SubSeq(Contents, n + 1, Len(Contents))
  BY <1>5, <1>6, <1>8, <1>9, <1>12
<1> QED BY <1>1, <1>4, <1>13 DEF Queue!QueueConsume

\* The ring stays well-formed, and every step is one of the queue's.
LEMMA RingStep ==
  ASSUME RingInv, [RingNext]_ringVars
  PROVE  RingInv' /\ [Queue!QueueNext]_<<Contents, given, count>>
<1>1. CASE UNCHANGED ringVars
  BY <1>1 DEF ringVars, RingInv, RingOK, Contents
<1>2. ASSUME NEW n \in 0..(BufSize + 1), NEW b \in [1..n -> Bytes], DoAppend(b)
      PROVE  RingInv' /\ Queue!QueueNext
  <2>1. n \in Nat /\ b \in Seq(Bytes)
    BY <1>2, Wrap
  <2>2. RingInv' /\ Queue!QueueAppend(b)
    BY <1>2, <2>1, AppendStep
  <2> QED BY <2>2 DEF Queue!QueueNext
<1>3. ASSUME NEW n \in 0..BufSize, DoConsume(n)
      PROVE  RingInv' /\ Queue!QueueNext
  <2>1. n \in Nat
    BY <1>3, Wrap
  <2>2. RingInv' /\ Queue!QueueConsume(n)
    BY <1>3, <2>1, ConsumeStep
  <2> QED BY <2>2 DEF Queue!QueueNext
<1> QED BY <1>1, <1>2, <1>3 DEF RingNext

\* A new ring is well-formed and an empty queue.
LEMMA RingStart ==
  RingInit => RingInv /\ Queue!QueueInit
<1> SUFFICES ASSUME RingInit PROVE RingInv /\ Queue!QueueInit
  OBVIOUS
<1>1. ring = NewRingBuffer /\ given = <<>> /\ count = 0 /\ BufSize \in Nat /\ BufSize > 0 /\ Zero \in Bytes
  BY BufSizeAssumption, ZeroAssumption DEF RingInit
<1>2. RingInv
  BY <1>1 DEF RingInv, RingOK, Rings, Slots, NewRingBuffer
<1>3. ring.length = 0
  BY <1>1 DEF NewRingBuffer
<1>4. Contents = <<>>
  BY <1>3 DEF Contents
<1> QED BY <1>1, <1>2, <1>4 DEF Queue!QueueInit

\* A ring buffer of any size is a bounded FIFO queue: Append adds the bytes it is
\* given, exactly those that fit, and Consume drops from the front, wherever the contents wrap around.
THEOREM RingIsQueue == RingSpec => ImplementsQueue
BY RingStart, RingStep, PTL DEF RingSpec, ImplementsQueue, Queue!QueueSpec

\* Where the bytes from an offset on are: up to the end of the array, then from its
\* start.
From(r, L, off, a) ==
  /\ BufSize \in Nat /\ BufSize > 0 /\ L \in 0..BufSize /\ a \in 0..(BufSize - 1)
  /\ r.buf \in [0..(BufSize - 1) -> Bytes]
  /\ \A i \in 1..(L - off) :
       At(r, off + i) = IF a + i - 1 < BufSize THEN r.buf[a + i - 1] ELSE r.buf[a + i - 1 - BufSize]

LEMMA FromOffset ==
  ASSUME NEW r, RingOK(r), NEW L, L = r.length, NEW off \in 0..L, NEW a, a = PeekStart(r, off)
  PROVE  From(r, L, off, a)
<1>1. PICK s : s = r.start
  OBVIOUS
<1>2. /\ s \in 0..(BufSize - 1) /\ L \in 0..BufSize /\ BufSize \in Nat /\ BufSize > 0
      /\ r.buf \in [0..(BufSize - 1) -> Bytes]
  BY <1>1, Wrap DEF RingOK, Rings, Slots
<1>3. WrapsOnce(s + off)
  <2>1. s + off \in 0..(2 * BufSize - 1)
    BY <1>2
  <2> QED BY <2>1, Wrap
<1>4. a = IF s + off < BufSize THEN s + off ELSE s + off - BufSize
  BY <1>1, <1>2, <1>3 DEF PeekStart, WrapsOnce
<1>5. a \in 0..(BufSize - 1)
  BY <1>2, <1>4
<1>6. ASSUME NEW i \in 1..(L - off)
      PROVE  At(r, off + i) = IF a + i - 1 < BufSize THEN r.buf[a + i - 1] ELSE r.buf[a + i - 1 - BufSize]
  <2>1. s + (off + i) - 1 \in 0..(2 * BufSize - 1)
    BY <1>2
  <2>2. WrapsOnce(s + (off + i) - 1)
    BY <2>1, Wrap
  <2>3. PICK p : p = (s + (off + i) - 1) % BufSize
    OBVIOUS
  <2>4. p = IF s + (off + i) - 1 < BufSize THEN s + (off + i) - 1 ELSE s + (off + i) - 1 - BufSize
    BY <1>2, <2>2, <2>3 DEF WrapsOnce
  <2>5. p = IF a + i - 1 < BufSize THEN a + i - 1 ELSE a + i - 1 - BufSize
    BY <1>2, <1>4, <1>5, <2>4
  <2>6. At(r, off + i) = r.buf[p]
    BY <1>1, <2>3 DEF At
  <2> QED BY <2>5, <2>6
<1> QED BY <1>2, <1>5, <1>6 DEF From

\* A part of the contents.
IsPart(z, off, k) == z \in Seq(Bytes) /\ Len(z) = k /\ \A i \in 1..k : z[i] = At(ring, off + i)

\* What SubSeq selects of the contents is a part of the ring.
LEMMA PartOfContents ==
  ASSUME RingInv, NEW L \in Nat, L = ring.length, NEW off \in 0..L, NEW k \in 0..(L - off)
  PROVE  IsPart(SubSeq(Contents, off + 1, off + k), off, k)
<1>1. PICK x, z : x = Contents /\ z = SubSeq(Contents, off + 1, off + k)
  OBVIOUS
<1>2. x \in Seq(Bytes) /\ Len(x) = L /\ \A i \in 1..L : x[i] = At(ring, i)
  BY <1>1, ContentsAreBytes
<1>3. PICK a \in Int, b \in Int : a = off + 1 /\ b = off + k
  OBVIOUS
<1>4. \A i \in a..b : x[i] \in Bytes
  BY <1>2, <1>3
<1>5. z = SubSeq(x, a, b)
  BY <1>1, <1>3
<1>6. /\ z \in Seq(Bytes) /\ Len(z) = IF a <= b THEN b - a + 1 ELSE 0
      /\ \A i \in 1..(b - a + 1) : z[i] = x[a + i - 1]
  <2>1. /\ SubSeq(x, a, b) \in Seq(Bytes) /\ Len(SubSeq(x, a, b)) = IF a <= b THEN b - a + 1 ELSE 0
        /\ \A i \in 1..(b - a + 1) : SubSeq(x, a, b)[i] = x[a + i - 1]
    BY <1>4, SubSeqProperties
  <2> QED BY <1>5, <2>1
<1>7. Len(z) = k /\ b - a + 1 = k
  BY <1>3, <1>6
<1>8. ASSUME NEW i \in 1..k PROVE z[i] = At(ring, off + i)
  <2>1. a + i - 1 = off + i /\ off + i \in 1..L
    BY <1>3
  <2> QED BY <1>2, <1>6, <1>7, <2>1
<1> QED BY <1>1, <1>6, <1>7, <1>8 DEF IsPart

\* Peek returns the bytes up to the wrap around.
LEMMA PeekAgrees ==
  RingInv => PeekIsPrefix
<1> SUFFICES ASSUME RingInv, NEW off \in 0..ring.length
             PROVE  /\ Peek(ring, off) = SubSeq(Contents, off + 1, off + Len(Peek(ring, off)))
                    /\ Peek(ring, off) = <<>> => off = ring.length
  BY DEF PeekIsPrefix
<1>1. PICK L, a, k, p : L = ring.length /\ a = PeekStart(ring, off) /\ k = PeekLen(ring, off) /\ p = Peek(ring, off)
  OBVIOUS
<1>2. off \in 0..L
  BY <1>1
<1>3. /\ BufSize \in Nat /\ BufSize > 0 /\ L \in 0..BufSize /\ a \in 0..(BufSize - 1)
      /\ ring.buf \in [0..(BufSize - 1) -> Bytes]
      /\ \A i \in 1..(L - off) :
           At(ring, off + i) = IF a + i - 1 < BufSize THEN ring.buf[a + i - 1] ELSE ring.buf[a + i - 1 - BufSize]
  <2>1. From(ring, L, off, a)
    BY <1>1, <1>2, FromOffset DEF RingInv
  <2> QED BY <2>1 DEF From
<1>4. k = Smaller(L - off, BufSize - a)
  BY <1>1 DEF PeekLen
<1>5. k \in Nat /\ k <= L - off /\ a + k <= BufSize /\ (k = 0 => off = L)
  BY <1>2, <1>3, <1>4 DEF Smaller
<1>6. p = [i \in 1..k |-> ring.buf[a + i - 1]]
  BY <1>1 DEF Peek
<1>7. ASSUME NEW i \in 1..k PROVE ring.buf[a + i - 1] \in Bytes /\ ring.buf[a + i - 1] = At(ring, off + i)
  <2>1. i \in 1..(L - off) /\ a + i - 1 < BufSize /\ a + i - 1 \in 0..(BufSize - 1)
    BY <1>2, <1>3, <1>5
  <2> QED BY <1>3, <2>1
<1>8. p \in Seq(Bytes) /\ Len(p) = k /\ \A i \in 1..k : p[i] = At(ring, off + i)
  BY <1>5, <1>6, <1>7
<1>9. PICK z : z = SubSeq(Contents, off + 1, off + k)
  OBVIOUS
<1>10. z \in Seq(Bytes) /\ Len(z) = k /\ \A i \in 1..k : z[i] = At(ring, off + i)
  <2>1. L \in Nat /\ k \in 0..(L - off)
    BY <1>2, <1>3, <1>5
  <2>2. IsPart(SubSeq(Contents, off + 1, off + k), off, k)
    BY <1>1, <1>2, <2>1, PartOfContents
  <2> QED BY <1>9, <2>2 DEF IsPart
<1>11. p = z
  BY <1>8, <1>10, SeqEqual
<1>12. p = <<>> => off = L
  BY <1>5, <1>8
<1> QED BY <1>1, <1>8, <1>9, <1>11, <1>12

\* Fetch copies what lies before the wrap around and what lies after it.
LEMMA FetchAgrees ==
  RingInv => FetchIsExact
<1> SUFFICES ASSUME RingInv, NEW off \in 0..ring.length, NEW n \in 0..(BufSize + 1)
             PROVE  Fetch(ring, n, off) = SubSeq(Contents, off + 1, off + Smaller(n, ring.length - off))
  BY DEF FetchIsExact
<1>1. PICK L, a, f : L = ring.length /\ a = PeekStart(ring, off) /\ f = Smaller(n, ring.length - off)
  OBVIOUS
<1>2. PICK g : g = Smaller(f, BufSize - a)
  OBVIOUS
<1>3. off \in 0..L
  BY <1>1
<1>4. /\ BufSize \in Nat /\ BufSize > 0 /\ L \in 0..BufSize /\ a \in 0..(BufSize - 1)
      /\ ring.buf \in [0..(BufSize - 1) -> Bytes]
      /\ \A i \in 1..(L - off) :
           At(ring, off + i) = IF a + i - 1 < BufSize THEN ring.buf[a + i - 1] ELSE ring.buf[a + i - 1 - BufSize]
  <2>1. From(ring, L, off, a)
    BY <1>1, <1>3, FromOffset DEF RingInv
  <2> QED BY <2>1 DEF From
<1>5. f \in 0..(L - off)
  BY <1>1, <1>3, <1>4 DEF Smaller
<1>6. g \in 0..f /\ a + g <= BufSize /\ (g = f \/ a + g = BufSize)
  BY <1>2, <1>3, <1>4, <1>5 DEF Smaller
<1>7. PICK u, v : u = [i \in 1..g |-> ring.buf[a + i - 1]] /\ v = [i \in 1..(f - g) |-> ring.buf[i - 1]]
  OBVIOUS
<1>8. Fetch(ring, n, off) = u \o v
  BY <1>1, <1>2, <1>7 DEF Fetch
<1>9. u \in Seq(Bytes) /\ Len(u) = g /\ \A i \in 1..g : u[i] = ring.buf[a + i - 1]
  <2>1. ASSUME NEW i \in 1..g PROVE ring.buf[a + i - 1] \in Bytes
    <3>1. a + i - 1 \in 0..(BufSize - 1)
      BY <1>3, <1>4, <1>5, <1>6
    <3> QED BY <1>4, <3>1
  <2>2. g \in Nat
    BY <1>3, <1>4, <1>5, <1>6
  <2> QED BY <1>7, <2>1, <2>2
<1>10. v \in Seq(Bytes) /\ Len(v) = f - g /\ \A i \in 1..(f - g) : v[i] = ring.buf[i - 1]
  <2>1. ASSUME NEW i \in 1..(f - g) PROVE ring.buf[i - 1] \in Bytes
    <3>1. i - 1 \in 0..(BufSize - 1)
      BY <1>3, <1>4, <1>5, <1>6
    <3> QED BY <1>4, <3>1
  <2>2. f - g \in Nat
    BY <1>3, <1>4, <1>5, <1>6
  <2> QED BY <1>7, <2>1, <2>2
<1>11. /\ u \o v \in Seq(Bytes) /\ Len(u \o v) = g + (f - g)
       /\ \A i \in 1..(g + (f - g)) : (u \o v)[i] = IF i <= g THEN u[i] ELSE v[i - g]
  <2>1. /\ u \o v \in Seq(Bytes) /\ Len(u \o v) = Len(u) + Len(v)
        /\ \A i \in 1..(Len(u) + Len(v)) : (u \o v)[i] = IF i <= Len(u) THEN u[i] ELSE v[i - Len(u)]
    BY <1>9, <1>10, ConcatProperties
  <2> QED BY <1>9, <1>10, <2>1
<1>12. f \in Nat /\ g \in Nat /\ g + (f - g) = f
  BY <1>3, <1>4, <1>5, <1>6
<1>13. ASSUME NEW i \in 1..f PROVE (u \o v)[i] = At(ring, off + i)
  <2>1. i \in 1..(L - off)
    BY <1>3, <1>4, <1>5
  <2>2. CASE i <= g
    <3>1. i \in 1..g /\ a + i - 1 < BufSize
      BY <1>4, <1>6, <1>12, <2>2
    <3>2. (u \o v)[i] = u[i]
      BY <1>11, <1>12, <2>2
    <3> QED BY <1>4, <1>9, <2>1, <3>1, <3>2
  <2>3. CASE i > g
    <3>1. PICK j \in 1..(f - g) : i = g + j
      <4>1. i - g \in 1..(f - g) /\ i = g + (i - g)
        BY <1>12, <2>3
      <4> QED BY <4>1
    <3>2. a + g = BufSize
      BY <1>6, <1>12, <2>3
    <3>3. i - g = j /\ ~(a + i - 1 < BufSize) /\ a + i - 1 - BufSize = j - 1
      BY <1>4, <1>12, <3>1, <3>2
    <3>4. (u \o v)[i] = v[j]
      BY <1>11, <1>12, <2>3, <3>3
    <3> QED BY <1>4, <1>10, <2>1, <3>3, <3>4
  <2>4. i <= g \/ i > g
    BY <1>12
  <2> QED BY <2>2, <2>3, <2>4
<1>14. PICK z : z = SubSeq(Contents, off + 1, off + f)
  OBVIOUS
<1>15. z \in Seq(Bytes) /\ Len(z) = f /\ \A i \in 1..f : z[i] = At(ring, off + i)
  <2>1. L \in Nat
    BY <1>4
  <2>2. IsPart(SubSeq(Contents, off + 1, off + f), off, f)
    BY <1>1, <1>3, <1>5, <2>1, PartOfContents
  <2> QED BY <1>14, <2>2 DEF IsPart
<1>16. u \o v = z
  BY <1>11, <1>12, <1>13, <1>15, SeqEqual
<1> QED BY <1>1, <1>8, <1>14, <1>16

\* Whatever Peek and Fetch return, at any offset, is what was appended and not yet
\* consumed, for a ring of any size and any position of the wrap around.
THEOREM RingReadsAgree == RingSpec => []ReadsAgree
<1>1. RingInv => RingTypeOK
  BY DEF RingInv, RingOK, RingTypeOK
<1>2. RingInv => ReadsAgree
  BY <1>1, PeekAgrees, FetchAgrees DEF ReadsAgree
<1> QED BY <1>2, RingStart, RingStep, PTL DEF RingSpec

-----------------------------------------------------------------------------
\* BufferedWriter.  What an operation holds of the ring.
InRing(o) == IF o.kind = "buffered" THEN o.length ELSE 0

\* The bytes of an operation: they come after the first x of the stream, and if
\* they are buffered, after the first y of the ring r.
Placed(o, x, y, r) ==
  /\ o.kind = "buffered" => /\ BufSize > 0 /\ o.owner = NoCaller
                            /\ \A k \in 1..o.length : At(r, y + k) = x + k
  /\ o.kind = "buf" => o.owner \in Callers /\ o.first = x + 1
  /\ o.kind = "flush" => o.owner \in Callers /\ o.length = 0

\* The operations of q share out the stream from X to Z, in order, and the ring r
\* from Y on; e and b are the places where they end.
Layout(q, e, b, X, Y, Z, r) ==
  /\ e \in [0..Len(q) -> 0..MaxBytes] /\ b \in [0..Len(q) -> 0..BufSize]
  /\ e[0] = X /\ b[0] = Y /\ e[Len(q)] = Z /\ b[Len(q)] = r.length
  /\ \A i, j \in 0..Len(q) : i <= j => e[i] <= e[j] /\ b[i] <= b[j]
  /\ \A i \in 1..Len(q) :
       /\ e[i] = e[i - 1] + q[i].length /\ b[i] = b[i - 1] + InRing(q[i])
       /\ Placed(q[i], e[i - 1], b[i - 1], r)

\* A call that is owed d and waits for o, which ends at x of the stream, asks for no
\* more.
Covers(d, o, x) ==
  /\ d.written <= x
  /\ d.flushed <= IF o.kind = "flush" THEN x ELSE 0

\* A blocked caller waits for the current operation or for one in the list, and
\* that one covers what the caller is owed.
Waits(e) ==
  \A g \in Callers : pc[g] = "blocked" =>
    /\ opOf[g] \in Callers
    /\ \/ cur.owner = opOf[g] /\ Covers(due[g], cur, e[0])
       \/ \E i \in 1..Len(ops) : ops[i].owner = opOf[g] /\ Covers(due[g], ops[i], e[i])

\* What the current operation holds of the ring.
OfCur == IF cur.kind = "buffered" THEN left ELSE 0

\* As long as the flusher runs, the stream is what was written, then the rest of the
\* current operation, then the operations in the list.
Account ==
  fpc # "exited" =>
    \E e \in [0..Len(ops) -> 0..MaxBytes], b \in [0..Len(ops) -> 0..BufSize] :
      /\ Layout(ops, e, b, Len(out) + left - emitted, OfCur, accepted, rb)
      /\ Waits(e)

\* An owner of an operation is blocked for it, and owns no other.
OwnerBlocked(p, w, g) == g \in Callers => p[g] = "blocked" /\ w[g] = g
Owning ==
  /\ OwnerBlocked(pc, opOf, cur.owner)
  /\ \A i \in 1..Len(ops) : OwnerBlocked(pc, opOf, ops[i].owner)
  /\ \A i \in 1..Len(ops) : ops[i].owner \in Callers =>
       /\ ops[i].owner # cur.owner
       /\ \A j \in 1..Len(ops) : ops[j].owner = ops[i].owner => i = j

\* What the flusher is doing: the slice it passed to the underlying Write is the
\* next part of the stream, wherever it lies.
AtWork ==
  /\ fpc \in {"ready", "wait", "exited"} => cur = NoOp /\ left = 0
  /\ fpc = "flush" => cur.kind = "flush" /\ left = 0
  /\ fpc = "write" => cur.kind \in {"buffered", "buf"}
  /\ cur.kind = "buf" => size = left /\ cur.first + emitted = Len(out) + 1
  /\ cur.kind = "buffered" =>
       /\ BufSize > 0 /\ cur.owner = NoCaller /\ win = rb.start /\ win + size <= BufSize
       /\ \A k \in 1..left : At(rb, k) = (Len(out) - emitted) + k

\* The flusher has left its loop after an error or after Close, and woken everybody.
Gone ==
  /\ err # "nil" => fpc = "exited"
  /\ fpc = "exited" => /\ err # "nil" \/ closed
                       /\ ops = <<>> /\ \A g \in Callers : pc[g] # "blocked"

Owed == \A g \in Callers : pc[g] = "idle" => due[g] = Nothing

IInv == TypeOK /\ OutInOrder /\ AckCovers /\ Account /\ Owning /\ AtWork /\ Gone /\ Owed

-----------------------------------------------------------------------------
\* Operations join the list and leave it.  A list p of n operations with the layout
\* that starts like e, up to the m-th.
LaidOut(p, n, e, m, X, Y, Z, r) ==
  \E f \in [0..n -> 0..MaxBytes], c \in [0..n -> 0..BufSize] :
    Layout(p, f, c, X, Y, Z, r) /\ \A i \in 0..m : f[i] = e[i]

\* A new operation.
LEMMA LayoutPush ==
  ASSUME NEW q \in Seq(Ops), NEW e, NEW b, NEW X, NEW Y, NEW Z, NEW r, NEW z, NEW o \in Ops,
         Layout(q, e, b, X, Y, Z, r), Z + o.length <= MaxBytes,
         r.length \in Nat, z.length = r.length + InRing(o), z.length <= BufSize,
         \A i \in 1..r.length : At(z, i) = At(r, i),
         Placed(o, Z, r.length, z)
  PROVE  LaidOut(Append(q, o), Len(q) + 1, e, Len(q), X, Y, Z + o.length, z)
<1>1. PICK L, p, m, R, S : L = Len(q) /\ p = Append(q, o) /\ m = o.length /\ R = r.length /\ S = InRing(o)
  OBVIOUS
<1>2. /\ L \in Nat /\ m \in 0..MaxBytes /\ R \in Nat /\ S \in 0..m /\ MaxBytes \in Nat /\ BufSize \in Nat
      /\ R + S <= BufSize /\ z.length = R + S
  BY <1>1, BytesAssumption, BufSizeAssumption DEF Ops, InRing
<1>3. Len(p) = L + 1 /\ p[L + 1] = o /\ \A i \in 1..L : p[i] = q[i]
  BY <1>1
<1>4. /\ e \in [0..L -> 0..MaxBytes] /\ b \in [0..L -> 0..BufSize]
      /\ e[0] = X /\ b[0] = Y /\ e[L] = Z /\ b[L] = R
      /\ \A i, j \in 0..L : i <= j => e[i] <= e[j] /\ b[i] <= b[j]
      /\ \A i \in 1..L : /\ e[i] = e[i - 1] + q[i].length /\ b[i] = b[i - 1] + InRing(q[i])
                         /\ Placed(q[i], e[i - 1], b[i - 1], r)
  BY <1>1 DEF Layout
<1>5. PICK f, c : /\ f = [i \in 0..(L + 1) |-> IF i <= L THEN e[i] ELSE Z + m]
                  /\ c = [i \in 0..(L + 1) |-> IF i <= L THEN b[i] ELSE R + S]
  OBVIOUS
<1>6. /\ \A i \in 0..L : f[i] = e[i] /\ c[i] = b[i] /\ e[i] <= Z /\ b[i] <= R
      /\ f[L + 1] = Z + m /\ c[L + 1] = R + S /\ Z \in 0..MaxBytes /\ Z + m \in 0..MaxBytes /\ R + S \in 0..BufSize
  <2>1. 0 \in 0..L /\ L \in 0..L /\ L + 1 \in 0..(L + 1) /\ ~(L + 1 <= L)
    BY <1>2
  <2>2. ASSUME NEW i \in 0..L PROVE f[i] = e[i] /\ c[i] = b[i] /\ e[i] <= Z /\ b[i] <= R
    <3>1. i \in 0..(L + 1) /\ i <= L
      BY <1>2
    <3>2. e[i] <= e[L] /\ b[i] <= b[L]
      BY <1>4, <2>1, <3>1
    <3> QED BY <1>4, <1>5, <3>1, <3>2
  <2>3. f[L + 1] = Z + m /\ c[L + 1] = R + S
    BY <1>5, <2>1
  <2>4. Z \in 0..MaxBytes
    BY <1>4, <2>1
  <2> QED BY <1>1, <1>2, <2>2, <2>3, <2>4
<1>7. f \in [0..(L + 1) -> 0..MaxBytes] /\ c \in [0..(L + 1) -> 0..BufSize]
  BY <1>2, <1>4, <1>5, <1>6
<1>8. ASSUME NEW i \in 0..(L + 1), NEW j \in 0..(L + 1), i <= j PROVE f[i] <= f[j] /\ c[i] <= c[j]
  <2>1. CASE j \in 0..L
    <3>1. i \in 0..L
      BY <1>2, <1>8, <2>1
    <3> QED BY <1>4, <1>6, <1>8, <2>1, <3>1
  <2>2. CASE j = L + 1 /\ i \in 0..L
    <3>1. e[i] \in Nat /\ b[i] \in Nat /\ e[i] <= Z /\ b[i] <= R
      BY <1>4, <1>6, <2>2
    <3> QED BY <1>2, <1>6, <2>2, <3>1
  <2>3. CASE j = L + 1 /\ i = L + 1
    BY <1>2, <1>6, <2>3
  <2> QED BY <1>2, <2>1, <2>2, <2>3
<1>9. ASSUME NEW i \in 1..(L + 1)
      PROVE  /\ f[i] = f[i - 1] + p[i].length /\ c[i] = c[i - 1] + InRing(p[i])
             /\ Placed(p[i], f[i - 1], c[i - 1], z)
  <2>1. CASE i \in 1..L
    <3>1. i - 1 \in 0..L /\ i \in 0..L
      BY <1>2, <2>1
    <3>2. PICK a, x, y : a = q[i] /\ x = e[i - 1] /\ y = b[i - 1]
      OBVIOUS
    <3>3. p[i] = a /\ f[i] = e[i] /\ c[i] = b[i] /\ f[i - 1] = x /\ c[i - 1] = y
      BY <1>3, <1>6, <2>1, <3>1, <3>2
    <3>4. e[i] = x + a.length /\ b[i] = y + InRing(a) /\ Placed(a, x, y, r)
      BY <1>4, <2>1, <3>2
    <3>5. b[i] <= R /\ y \in Nat /\ a.length \in Nat
      <4>1. a \in Ops
        BY <1>1, <2>1, <3>2
      <4>2. a.length \in Nat
        BY <1>2, <4>1 DEF Ops
      <4>3. b[i] <= R /\ y \in Nat
        BY <1>4, <1>6, <3>1, <3>2
      <4> QED BY <4>2, <4>3
    <3>6. ASSUME a.kind = "buffered", NEW k \in 1..a.length PROVE At(z, y + k) = x + k
      <4>1. y + a.length <= R
        BY <3>4, <3>5, <3>6 DEF InRing
      <4>2. PICK l : l = y + k
        OBVIOUS
      <4>3. l \in 1..R
        BY <1>2, <3>5, <4>1, <4>2
      <4>4. At(z, l) = At(r, l)
        BY <1>1, <4>3
      <4>5. At(r, l) = x + k
        BY <3>4, <3>6, <4>2 DEF Placed
      <4> QED BY <4>2, <4>4, <4>5
    <3>7. Placed(a, x, y, z)
      BY <3>4, <3>6 DEF Placed
    <3> QED BY <3>3, <3>4, <3>7
  <2>2. CASE i = L + 1
    <3>1. i - 1 = L /\ L \in 0..L
      BY <1>2, <2>2
    <3>2. p[i] = o /\ f[i] = Z + m /\ c[i] = R + S /\ f[i - 1] = Z /\ c[i - 1] = R
      BY <1>3, <1>4, <1>6, <2>2, <3>1
    <3> QED BY <1>1, <3>2
  <2> QED BY <1>2, <2>1, <2>2
<1>10. f[0] = X /\ c[0] = Y
  <2>1. 0 \in 0..L
    BY <1>2
  <2> QED BY <1>4, <1>6, <2>1
<1>11. Layout(p, f, c, X, Y, Z + m, z)
  BY <1>2, <1>3, <1>6, <1>7, <1>8, <1>9, <1>10 DEF Layout
<1> QED BY <1>1, <1>6, <1>7, <1>11 DEF LaidOut

\* A layout with the lengths of its list named.
LEMMA LayoutParts ==
  ASSUME NEW q \in Seq(Ops), NEW e, NEW b, NEW X, NEW Y, NEW Z, NEW r,
         Layout(q, e, b, X, Y, Z, r), NEW L, L = Len(q)
  PROVE  /\ L \in Nat /\ MaxBytes \in Nat /\ BufSize \in Nat
         /\ e \in [0..L -> 0..MaxBytes] /\ b \in [0..L -> 0..BufSize]
         /\ 0 \in 0..L /\ L \in 0..L
         /\ e[0] = X /\ b[0] = Y /\ e[L] = Z /\ b[L] = r.length
         /\ X \in 0..MaxBytes /\ Z \in 0..MaxBytes /\ X <= Z
         /\ Y \in 0..BufSize /\ r.length \in 0..BufSize /\ Y <= r.length
         /\ \A i \in 1..L : q[i] \in Ops /\ q[i].length \in Nat /\ InRing(q[i]) \in Nat /\ InRing(q[i]) <= q[i].length
<1>1. L \in Nat /\ MaxBytes \in Nat /\ BufSize \in Nat
  BY BytesAssumption, BufSizeAssumption
<1>2. 0 \in 0..L /\ L \in 0..L /\ 0 <= L
  BY <1>1
<1>3. e \in [0..L -> 0..MaxBytes] /\ b \in [0..L -> 0..BufSize] /\ e[0] = X /\ b[0] = Y /\ e[L] = Z /\ b[L] = r.length
  BY DEF Layout
<1>4. e[0] <= e[L] /\ b[0] <= b[L]
  BY <1>2 DEF Layout
<1>5. ASSUME NEW i \in 1..L
      PROVE  q[i] \in Ops /\ q[i].length \in Nat /\ InRing(q[i]) \in Nat /\ InRing(q[i]) <= q[i].length
  <2>1. PICK o \in Ops : o = q[i]
    BY <1>1
  <2>2. o.length \in Nat
    BY <1>1 DEF Ops
  <2>3. InRing(o) \in Nat /\ InRing(o) <= o.length
    BY <2>2 DEF InRing
  <2> QED BY <2>1, <2>2, <2>3
<1> QED BY <1>1, <1>2, <1>3, <1>4, <1>5

\* The newest operation, a bufferedOp, grows by n bytes.
Longer(q, n) == [q EXCEPT ![Len(q)].length = @ + n]

\* The ring z is r with the n bytes that come after the first Z of the stream.
Follows(r, z, Z, n) ==
  /\ z.length = r.length + n /\ z.length <= BufSize
  /\ \A i \in 1..r.length : At(z, i) = At(r, i)
  /\ \A k \in 1..n : At(z, r.length + k) = Z + k

LEMMA LayoutGrow ==
  ASSUME NEW q \in Seq(Ops), NEW e, NEW b, NEW X, NEW Y, NEW Z, NEW r, NEW z, NEW n \in Nat,
         NEW L, L = Len(q), L > 0, q[L].kind = "buffered", NEW p, p = Longer(q, n),
         Layout(q, e, b, X, Y, Z, r), Z + n <= MaxBytes,
         Follows(r, z, Z, n)
  PROVE  p \in Seq(Ops) /\ Len(p) = L /\ LaidOut(p, L, e, L - 1, X, Y, Z + n, z)
<1>1. PICK R, o, u : R = r.length /\ o = q[L] /\ u = [q[L] EXCEPT !.length = @ + n]
  OBVIOUS
<1>a. /\ z.length = R + n /\ R + n <= BufSize
      /\ \A i \in 1..R : At(z, i) = At(r, i)
      /\ \A k \in 1..n : At(z, R + k) = Z + k
  BY <1>1 DEF Follows
<1>2. /\ L \in Nat /\ MaxBytes \in Nat /\ BufSize \in Nat /\ L - 1 \in 0..L /\ L \in 1..L /\ 0 \in 0..(L - 1)
      /\ Z \in 0..MaxBytes /\ R \in 0..BufSize /\ L \in 0..L /\ 0..(L - 1) \subseteq 0..L
  BY <1>1, LayoutParts
<1>3. /\ e \in [0..L -> 0..MaxBytes] /\ b \in [0..L -> 0..BufSize]
      /\ e[0] = X /\ b[0] = Y /\ e[L] = Z /\ b[L] = R
      /\ \A i, j \in 0..L : i <= j => e[i] <= e[j] /\ b[i] <= b[j]
      /\ \A i \in 1..L : /\ e[i] = e[i - 1] + q[i].length /\ b[i] = b[i - 1] + InRing(q[i])
                         /\ Placed(q[i], e[i - 1], b[i - 1], r)
  BY <1>1 DEF Layout
<1>4. \A i \in 1..L : q[i] \in Ops /\ q[i].length \in Nat /\ InRing(q[i]) \in Nat
  BY LayoutParts
<1>b. \A i \in 0..L : e[i] \in Nat /\ b[i] \in Nat
  <2>1. \A i \in 0..L : e[i] \in 0..MaxBytes /\ b[i] \in 0..BufSize
    BY <1>3
  <2>2. \A v \in 0..MaxBytes : v \in Nat
    OBVIOUS
  <2>3. \A v \in 0..BufSize : v \in Nat
    OBVIOUS
  <2> QED BY <2>1, <2>2, <2>3
<1>5. PICK x, y : x = e[L - 1] /\ y = b[L - 1]
  OBVIOUS
<1>6. x \in Nat /\ y \in Nat /\ o.length \in Nat /\ Z = x + o.length /\ R = y + o.length /\ o.kind = "buffered"
  <2>1. x \in Nat /\ y \in Nat
    BY <1>2, <1>5, <1>b
  <2>2. o.length \in Nat /\ o.kind = "buffered"
    BY <1>1, <1>2, <1>4
  <2>3. e[L] = x + o.length /\ b[L] = y + InRing(o)
    BY <1>1, <1>2, <1>3, <1>5
  <2> QED BY <1>3, <2>1, <2>2, <2>3 DEF InRing
<1>7. u \in Ops /\ u.kind = "buffered" /\ u.length = o.length + n /\ u.owner = o.owner
  <2>1. o \in Ops
    BY <1>1, <1>2, <1>4
  <2>2. o.length + n \in 0..MaxBytes
    <3>1. PICK m \in Nat : m = o.length
      BY <1>6
    <3>2. x + m + n <= MaxBytes /\ x \in Nat /\ n \in Nat /\ MaxBytes \in Nat
      BY <1>2, <1>6, <3>1
    <3>3. m + n \in 0..MaxBytes
      BY <3>2
    <3> QED BY <3>1, <3>3
  <2> QED BY <1>1, <2>1, <2>2 DEF Ops
<1>8. p \in Seq(Ops) /\ Len(p) = L /\ p[L] = u /\ \A i \in 1..(L - 1) : p[i] = q[i]
  <2>1. p = [q EXCEPT ![L] = u]
    BY <1>1 DEF Longer
  <2> QED BY <1>2, <1>7, <2>1
<1>9. PICK f, c : f = [e EXCEPT ![L] = Z + n] /\ c = [b EXCEPT ![L] = R + n]
  OBVIOUS
<1>10. f[L] = Z + n /\ c[L] = R + n /\ Z + n \in 0..MaxBytes /\ R + n \in 0..BufSize
  BY <1>2, <1>3, <1>9, <1>a
<1>11. f \in [0..L -> 0..MaxBytes] /\ c \in [0..L -> 0..BufSize]
  BY <1>2, <1>3, <1>9, <1>10
<1>12. ASSUME NEW i \in 0..(L - 1) PROVE f[i] = e[i] /\ c[i] = b[i] /\ e[i] <= Z /\ b[i] <= R /\ i \in 0..L
  <2>1. i \in 0..L /\ i # L /\ i <= L
    BY <1>2
  <2>2. e[i] <= e[L] /\ b[i] <= b[L]
    BY <1>2, <1>3, <2>1
  <2> QED BY <1>3, <1>9, <2>1, <2>2
<1>13. ASSUME NEW i \in 0..L, NEW j \in 0..L, i <= j PROVE f[i] <= f[j] /\ c[i] <= c[j]
  <2>1. CASE j \in 0..(L - 1)
    <3>1. i \in 0..(L - 1)
      BY <1>2, <1>13, <2>1
    <3>2. e[i] <= e[j] /\ b[i] <= b[j]
      BY <1>3, <1>13
    <3> QED BY <1>12, <2>1, <3>1, <3>2
  <2>2. CASE j = L /\ i \in 0..(L - 1)
    <3>1. e[i] \in Nat /\ b[i] \in Nat /\ e[i] <= Z /\ b[i] <= R /\ f[i] = e[i] /\ c[i] = b[i]
      BY <1>12, <1>b, <2>2
    <3>2. e[i] <= Z + n /\ b[i] <= R + n
      BY <1>2, <3>1
    <3> QED BY <1>10, <2>2, <3>1, <3>2
  <2>3. CASE j = L /\ i = L
    BY <1>2, <1>10, <2>3
  <2> QED BY <1>2, <2>1, <2>2, <2>3
<1>14. ASSUME NEW i \in 1..L
       PROVE  /\ f[i] = f[i - 1] + p[i].length /\ c[i] = c[i - 1] + InRing(p[i])
              /\ Placed(p[i], f[i - 1], c[i - 1], z)
  <2>1. CASE i \in 1..(L - 1)
    <3>1. i - 1 \in 0..(L - 1) /\ i \in 0..(L - 1)
      BY <1>2, <2>1
    <3>2. PICK a, v, w : a = q[i] /\ v = e[i - 1] /\ w = b[i - 1]
      OBVIOUS
    <3>3. p[i] = a /\ f[i] = e[i] /\ c[i] = b[i] /\ f[i - 1] = v /\ c[i - 1] = w
      BY <1>8, <1>12, <2>1, <3>1, <3>2
    <3>4. e[i] = v + a.length /\ b[i] = w + InRing(a) /\ Placed(a, v, w, r)
      BY <1>3, <3>2
    <3>5. a.length \in Nat /\ b[i] <= R /\ w \in Nat
      <4>1. a.length \in Nat
        BY <1>4, <3>2
      <4>2. b[i] <= R
        BY <1>12, <3>1
      <4>3. w \in Nat
        BY <1>12, <1>b, <3>1, <3>2
      <4> QED BY <4>1, <4>2, <4>3
    <3>6. ASSUME a.kind = "buffered", NEW k \in 1..a.length PROVE At(z, w + k) = v + k
      <4>1. w + a.length <= R
        BY <3>4, <3>5, <3>6 DEF InRing
      <4>2. PICK l : l = w + k
        OBVIOUS
      <4>3. l \in 1..R
        BY <1>2, <3>5, <4>1, <4>2
      <4>4. At(z, l) = At(r, l)
        BY <1>a, <4>3
      <4>5. At(r, l) = v + k
        BY <3>4, <3>6, <4>2 DEF Placed
      <4> QED BY <4>2, <4>4, <4>5
    <3>7. Placed(a, v, w, z)
      BY <3>4, <3>6 DEF Placed
    <3> QED BY <3>3, <3>4, <3>7
  <2>2. CASE i = L
    <3>1. p[i] = u /\ f[i] = Z + n /\ c[i] = R + n /\ f[i - 1] = x /\ c[i - 1] = y
      <4>1. L - 1 \in 0..(L - 1)
        BY <1>2
      <4> QED BY <1>5, <1>8, <1>10, <1>12, <2>2, <4>1
    <3>2. Placed(o, x, y, r)
      BY <1>1, <1>2, <1>3, <1>5
    <3>3. ASSUME NEW k \in 1..(o.length + n) PROVE At(z, y + k) = x + k
      <4>1. CASE k <= o.length
        <5>1. k \in 1..o.length /\ y + k \in 1..R
          BY <1>6, <4>1
        <5>2. At(r, y + k) = x + k
          BY <1>6, <3>2, <5>1 DEF Placed
        <5>3. At(z, y + k) = At(r, y + k)
          BY <1>a, <5>1
        <5> QED BY <5>2, <5>3
      <4>2. CASE k > o.length
        <5>1. PICK m \in 1..n : k = o.length + m
          <6>1. PICK m \in Nat : m = o.length
            BY <1>6
          <6>2. k - m \in 1..n /\ k = m + (k - m)
            BY <4>2, <6>1
          <6> QED BY <6>1, <6>2
        <5>2. y + k = R + m /\ x + k = Z + m
          <6>1. PICK t \in Nat : t = o.length
            BY <1>6
          <6>2. y \in Nat /\ x \in Nat /\ k = t + m /\ R = y + t /\ Z = x + t
            BY <1>6, <5>1, <6>1
          <6> QED BY <6>2
        <5> QED BY <1>a, <5>2
      <4> QED BY <1>6, <4>1, <4>2
    <3>4. Placed(u, x, y, z)
      BY <1>6, <1>7, <3>2, <3>3 DEF Placed
    <3>5. Z + n = x + u.length /\ R + n = y + InRing(u)
      BY <1>6, <1>7 DEF InRing
    <3> QED BY <3>1, <3>4, <3>5
  <2> QED BY <1>2, <2>1, <2>2
<1>15. f[0] = X /\ c[0] = Y
  BY <1>2, <1>3, <1>12
<1>16. Layout(p, f, c, X, Y, Z + n, z)
  BY <1>8, <1>10, <1>11, <1>13, <1>14, <1>15, <1>a DEF Layout
<1> QED BY <1>8, <1>11, <1>12, <1>16 DEF LaidOut

\* The oldest operation leaves the list: it is the next part of the stream.
Popped(q, L, h, p, e, X, Y, Z, r) ==
  \E f \in [0..(L - 1) -> 0..MaxBytes], c \in [0..(L - 1) -> 0..BufSize] :
    /\ p \in Seq(Ops) /\ Len(p) = L - 1 /\ \A i \in 1..(L - 1) : p[i] = q[i + 1]
    /\ h \in Ops /\ h = q[1] /\ L \in Nat /\ 1 \in 1..L /\ Placed(h, X, Y, r)
    /\ Layout(p, f, c, X + h.length, Y + InRing(h), Z, r)
    /\ \A i \in 0..(L - 1) : f[i] = e[i + 1]

LEMMA LayoutPop ==
  ASSUME NEW q \in Seq(Ops), q # <<>>, NEW e, NEW b, NEW X, NEW Y, NEW Z, NEW r,
         Layout(q, e, b, X, Y, Z, r), NEW L, L = Len(q), NEW h, h = Head(q), NEW p, p = Tail(q)
  PROVE  Popped(q, L, h, p, e, X, Y, Z, r)
<1>1. PICK R : R = r.length
  OBVIOUS
<1>2. L \in Nat /\ L > 0 /\ h \in Ops /\ h = q[1] /\ p \in Seq(Ops) /\ Len(p) = L - 1 /\ \A i \in 1..(L - 1) : p[i] = q[i + 1]
  <2>1. L \in Nat /\ L > 0
    BY EmptySeq
  <2>2. h \in Ops /\ h = q[1] /\ p \in Seq(Ops) /\ Len(p) = L - 1
    BY <2>1, HeadTailProperties
  <2>3. \A i \in 1..(L - 1) : p[i] = q[i + 1]
    BY <2>2, HeadTailProperties
  <2> QED BY <2>1, <2>2, <2>3
<1>3. /\ e \in [0..L -> 0..MaxBytes] /\ b \in [0..L -> 0..BufSize]
      /\ e[0] = X /\ b[0] = Y /\ e[L] = Z /\ b[L] = R
      /\ \A i, j \in 0..L : i <= j => e[i] <= e[j] /\ b[i] <= b[j]
      /\ \A i \in 1..L : /\ e[i] = e[i - 1] + q[i].length /\ b[i] = b[i - 1] + InRing(q[i])
                         /\ Placed(q[i], e[i - 1], b[i - 1], r)
  BY <1>1 DEF Layout
<1>4. PICK f, c : f = [i \in 0..(L - 1) |-> e[i + 1]] /\ c = [i \in 0..(L - 1) |-> b[i + 1]]
  OBVIOUS
<1>5. \A i \in 0..(L - 1) : i + 1 \in 0..L /\ f[i] = e[i + 1] /\ c[i] = b[i + 1]
  BY <1>2, <1>4
<1>6. f \in [0..(L - 1) -> 0..MaxBytes]
  BY <1>3, <1>4, <1>5
<1>7. c \in [0..(L - 1) -> 0..BufSize]
  BY <1>3, <1>4, <1>5
<1>8. 1 \in 1..L /\ 0 \in 0..(L - 1) /\ L - 1 \in 0..(L - 1) /\ (L - 1) + 1 = L /\ 0 + 1 = 1 /\ 1 - 1 = 0
  BY <1>2
<1>9. Placed(h, X, Y, r) /\ e[1] = X + h.length /\ b[1] = Y + InRing(h)
  <2>1. /\ e[1] = e[1 - 1] + q[1].length /\ b[1] = b[1 - 1] + InRing(q[1])
        /\ Placed(q[1], e[1 - 1], b[1 - 1], r)
    BY <1>3, <1>8
  <2> QED BY <1>2, <1>3, <1>8, <2>1
<1>10. f[0] = X + h.length /\ c[0] = Y + InRing(h) /\ f[L - 1] = Z /\ c[L - 1] = R
  BY <1>3, <1>5, <1>8, <1>9
<1>11. ASSUME NEW i \in 0..(L - 1), NEW j \in 0..(L - 1), i <= j PROVE f[i] <= f[j] /\ c[i] <= c[j]
  <2>1. i + 1 \in 0..L /\ j + 1 \in 0..L /\ i + 1 <= j + 1
    BY <1>2, <1>11
  <2>2. e[i + 1] <= e[j + 1] /\ b[i + 1] <= b[j + 1]
    BY <1>3, <2>1
  <2> QED BY <1>5, <2>2
<1>12. ASSUME NEW i \in 1..(L - 1)
       PROVE  /\ f[i] = f[i - 1] + p[i].length /\ c[i] = c[i - 1] + InRing(p[i])
              /\ Placed(p[i], f[i - 1], c[i - 1], r)
  <2>1. PICK j \in 1..L : j = i + 1
    <3>1. i + 1 \in 1..L
      BY <1>2
    <3> QED BY <3>1
  <2>2. i \in 0..(L - 1) /\ i - 1 \in 0..(L - 1) /\ (i - 1) + 1 = i /\ j - 1 = i
    BY <1>2, <2>1
  <2>3. f[i] = e[j] /\ c[i] = b[j] /\ f[i - 1] = e[j - 1] /\ c[i - 1] = b[j - 1] /\ p[i] = q[j]
    BY <1>2, <1>5, <2>1, <2>2
  <2>4. e[j] = e[j - 1] + q[j].length /\ b[j] = b[j - 1] + InRing(q[j]) /\ Placed(q[j], e[j - 1], b[j - 1], r)
    BY <1>3
  <2> QED BY <2>3, <2>4
<1>13. Layout(p, f, c, X + h.length, Y + InRing(h), Z, r)
  BY <1>1, <1>2, <1>6, <1>7, <1>10, <1>11, <1>12 DEF Layout
<1> QED BY <1>2, <1>5, <1>6, <1>7, <1>8, <1>9, <1>13 DEF Popped

\* The first n bytes of the ring, which no operation in the list has, are consumed.
LEMMA LayoutConsume ==
  ASSUME NEW q \in Seq(Ops), NEW e, NEW b, NEW X, NEW Y, NEW Z, NEW r, NEW z, NEW n \in Nat, n <= Y,
         Layout(q, e, b, X, Y, Z, r), NEW L, L = Len(q),
         z.length = r.length - n, \A i \in 1..(r.length - n) : At(z, i) = At(r, n + i)
  PROVE  \E c \in [0..L -> 0..BufSize] : Layout(q, e, c, X, Y - n, Z, z)
<1>1. PICK R : R = r.length
  OBVIOUS
<1>2. L \in Nat /\ BufSize \in Nat /\ Y \in Nat /\ R \in 0..BufSize /\ Y <= R /\ 0 \in 0..L /\ L \in 0..L
  BY <1>1, LayoutParts
<1>3. /\ e \in [0..L -> 0..MaxBytes] /\ b \in [0..L -> 0..BufSize]
      /\ e[0] = X /\ b[0] = Y /\ e[L] = Z /\ b[L] = R
      /\ \A i, j \in 0..L : i <= j => e[i] <= e[j] /\ b[i] <= b[j]
      /\ \A i \in 1..L : /\ e[i] = e[i - 1] + q[i].length /\ b[i] = b[i - 1] + InRing(q[i])
                         /\ Placed(q[i], e[i - 1], b[i - 1], r)
  BY <1>1 DEF Layout
<1>4. PICK c : c = [i \in 0..L |-> b[i] - n]
  OBVIOUS
<1>5. ASSUME NEW i \in 0..L PROVE c[i] = b[i] - n /\ b[i] \in Nat /\ b[i] <= R /\ Y <= b[i] /\ b[i] - n \in 0..BufSize
  <2>1. b[i] \in 0..BufSize /\ c[i] = b[i] - n
    BY <1>3, <1>4
  <2>2. b[0] <= b[i] /\ b[i] <= b[L]
    BY <1>2, <1>3
  <2>3. PICK m : m = b[i]
    OBVIOUS
  <2>4. m - n \in 0..BufSize
    BY <1>2, <1>3, <2>1, <2>2, <2>3
  <2> QED BY <1>3, <2>1, <2>2, <2>3, <2>4
<1>6. c \in [0..L -> 0..BufSize]
  BY <1>4, <1>5
<1>7. c[0] = Y - n /\ c[L] = R - n
  BY <1>2, <1>3, <1>5
<1>8. ASSUME NEW i \in 0..L, NEW j \in 0..L, i <= j PROVE c[i] <= c[j]
  <2>1. b[i] <= b[j]
    BY <1>3, <1>8
  <2> QED BY <1>5, <2>1
<1>9. ASSUME NEW i \in 1..L
      PROVE  /\ c[i] = c[i - 1] + InRing(q[i])
             /\ Placed(q[i], e[i - 1], c[i - 1], z)
  <2>1. i - 1 \in 0..L /\ i \in 0..L
    BY <1>2
  <2>2. PICK a, x, y : a = q[i] /\ x = e[i - 1] /\ y = b[i - 1]
    OBVIOUS
  <2>3. a.length \in Nat /\ InRing(a) \in Nat
    BY <2>2, LayoutParts
  <2>4. c[i] = b[i] - n /\ c[i - 1] = y - n /\ y \in Nat /\ b[i] \in Nat /\ b[i] <= R /\ Y <= y
    BY <1>5, <2>1, <2>2
  <2>5. b[i] = y + InRing(a) /\ Placed(a, x, y, r)
    BY <1>3, <2>2
  <2>6. c[i] = c[i - 1] + InRing(a)
    BY <2>3, <2>4, <2>5
  <2>7. ASSUME a.kind = "buffered", NEW k \in 1..a.length PROVE At(z, (y - n) + k) = x + k
    <3>1. y + a.length <= R
      BY <2>3, <2>4, <2>5, <2>7 DEF InRing
    <3>2. PICK l : l = (y - n) + k
      OBVIOUS
    <3>3. l \in 1..(R - n) /\ n + l = y + k
      BY <1>2, <2>3, <2>4, <3>1, <3>2
    <3>4. At(z, l) = At(r, y + k)
      BY <1>1, <3>3
    <3>5. At(r, y + k) = x + k
      BY <2>5, <2>7 DEF Placed
    <3> QED BY <3>2, <3>4, <3>5
  <2>8. Placed(a, x, y - n, z)
    BY <2>5, <2>7 DEF Placed
  <2> QED BY <2>2, <2>4, <2>6, <2>8
<1>10. Layout(q, e, c, X, Y - n, Z, z)
  BY <1>1, <1>3, <1>6, <1>7, <1>8, <1>9 DEF Layout
<1> QED BY <1>6, <1>10

\* Every set of naturals has a least element.
LEMMA Least ==
  ASSUME NEW T \in SUBSET Nat, T # {}
  PROVE  \E a \in T : \A b \in T : a <= b
<1>1. PICK a \in T : \A b \in T : ~(<<b, a>> \in OpToRel(<, Nat))
  BY NatLessThanWellFounded, WFMin
<1>2. \A b \in T : ~(b < a)
  BY <1>1 DEF OpToRel
<1> QED BY <1>2

\* The bytes of the bufferedOps among the first k of the list, as OpBytes counts them.
Slices(q, k) == {x \in (1..k) \X (1..MaxBytes) : q[x[1]].kind = "buffered" /\ x[2] <= q[x[1]].length}
Counted(q, b, k) == IsFiniteSet(Slices(q, k)) /\ Cardinality(Slices(q, k)) = b[k] - b[0]

\* One more operation adds the bytes that it holds of the ring.
LEMMA CountedStep ==
  ASSUME NEW q \in Seq(Ops), NEW e, NEW b, NEW X, NEW Y, NEW Z, NEW r,
         Layout(q, e, b, X, Y, Z, r), NEW j \in 1..Len(q), Counted(q, b, j - 1)
  PROVE  Counted(q, b, j)
<1>1. PICK L, o, m : L = Len(q) /\ o = q[j] /\ m = InRing(q[j])
  OBVIOUS
<1>2. /\ L \in Nat /\ MaxBytes \in Nat /\ b \in [0..L -> 0..BufSize] /\ BufSize \in Nat /\ 0 \in 0..L
      /\ o \in Ops /\ o.length \in Nat /\ m \in Nat /\ m <= o.length
  BY <1>1, LayoutParts
<1>3. o.length <= MaxBytes
  BY <1>2 DEF Ops
<1>4. DEFINE S == Slices(q, j - 1)
             T == {j} \X (1..m)
<1>5. IsFiniteSet(T) /\ Cardinality(T) = m
  <2>1. IsFiniteSet(1..m) /\ Cardinality(1..m) = m
    <3>1. m \in Int /\ 1 \in Int
      BY <1>2
    <3>2. IsFiniteSet(1..m) /\ Cardinality(1..m) = IF 1 > m THEN 0 ELSE m - 1 + 1
      BY <3>1, FS_Interval
    <3> QED BY <1>2, <3>2
  <2>2. IsFiniteSet({j}) /\ Cardinality({j}) = 1
    BY FS_Singleton
  <2>3. IsFiniteSet(T) /\ Cardinality(T) = Cardinality({j}) * Cardinality(1..m)
    BY <2>1, <2>2, FS_Product
  <2> QED BY <1>2, <2>1, <2>2, <2>3
<1>6. S \cap T = {}
  BY <1>2 DEF Slices
<1>7. Slices(q, j) = S \cup T
  <2>1. ASSUME NEW x \in Slices(q, j) PROVE x \in S \cup T
    <3>1. PICK i \in 1..j, k \in 1..MaxBytes : x = <<i, k>> /\ q[i].kind = "buffered" /\ k <= q[i].length
      BY <2>1 DEF Slices
    <3>2. CASE i = j
      <4>1. k \in 1..m
        BY <1>1, <1>2, <3>1, <3>2 DEF InRing
      <4> QED BY <3>1, <3>2, <4>1
    <3>3. CASE i # j
      <4>1. i \in 1..(j - 1)
        BY <1>2, <3>3
      <4> QED BY <3>1, <4>1 DEF Slices
    <3> QED BY <3>2, <3>3
  <2>2. ASSUME NEW x \in S PROVE x \in Slices(q, j)
    BY <1>2, <2>2 DEF Slices
  <2>3. ASSUME NEW x \in T PROVE x \in Slices(q, j)
    <3>1. PICK k \in 1..m : x = <<j, k>>
      BY <2>3
    <3>2. o.kind = "buffered" /\ m = o.length
      BY <1>1, <1>2, <3>1 DEF InRing
    <3>3. k \in 1..MaxBytes /\ k <= o.length /\ j \in 1..j
      BY <1>2, <1>3, <3>2
    <3> QED BY <1>1, <3>1, <3>2, <3>3 DEF Slices
  <2> QED BY <2>1, <2>2, <2>3
<1>8. IsFiniteSet(S \cup T) /\ Cardinality(S \cup T) = Cardinality(S) + m
  <2>1. IsFiniteSet(S) /\ Cardinality(S) \in Nat
    BY FS_CardinalityType DEF Counted
  <2>2. Cardinality(S \cap T) = 0
    BY <1>6, FS_EmptySet
  <2>3. IsFiniteSet(S \cup T) /\ Cardinality(S \cup T) = Cardinality(S) + Cardinality(T) - Cardinality(S \cap T)
    BY <1>5, <2>1, FS_Union
  <2> QED BY <1>2, <1>5, <2>1, <2>2, <2>3
<1>9. Cardinality(S) = b[j - 1] - b[0] /\ b[j] = b[j - 1] + m
  BY <1>1 DEF Counted, Layout
<1>10. b[j - 1] \in Nat /\ b[0] \in Nat
  <2>1. j - 1 \in 0..L
    BY <1>1, <1>2
  <2> QED BY <1>2, <2>1
<1>11. Cardinality(S \cup T) = b[j] - b[0]
  BY <1>2, <1>8, <1>9, <1>10
<1> QED BY <1>7, <1>8, <1>11 DEF Counted

\* The operations in the list account for the bytes of the ring after the first Y.
LEMMA LayoutSum ==
  ASSUME NEW q \in Seq(Ops), NEW e, NEW b, NEW X, NEW Y, NEW Z, NEW r,
         Layout(q, e, b, X, Y, Z, r)
  PROVE  OpBytes(q) = r.length - Y
<1>1. PICK L : L = Len(q)
  OBVIOUS
<1>2. L \in Nat /\ BufSize \in Nat /\ b[0] = Y /\ b[L] = r.length /\ Y \in Nat /\ L \in 0..L
  BY <1>1, LayoutParts
<1>3. DEFINE T == {k \in 0..L : ~Counted(q, b, k)}
<1>4. T = {}
  <2>1. SUFFICES ASSUME T # {} PROVE FALSE
    OBVIOUS
  <2>2. T \in SUBSET Nat
    OBVIOUS
  <2>3. PICK a \in T : \A k \in T : a <= k
    BY <2>1, <2>2, Least
  <2>4. a \in 0..L /\ ~Counted(q, b, a)
    BY <2>3
  <2>5. CASE a = 0
    <3>1. Slices(q, 0) = {}
      BY DEF Slices
    <3>2. Counted(q, b, 0)
      <4>1. b[0] - b[0] = 0
        BY <1>2
      <4>2. IsFiniteSet(Slices(q, 0)) /\ Cardinality(Slices(q, 0)) = 0
        BY <3>1, FS_EmptySet
      <4> QED BY <4>1, <4>2 DEF Counted
    <3> QED BY <2>4, <2>5, <3>2
  <2>6. CASE a # 0
    <3>1. a \in 1..L /\ a - 1 \in 0..L /\ ~(a <= a - 1)
      BY <1>2, <2>4, <2>6
    <3>2. Counted(q, b, a - 1)
      BY <2>3, <3>1
    <3>3. Counted(q, b, a)
      BY <1>1, <3>1, <3>2, CountedStep
    <3> QED BY <2>4, <3>3
  <2> QED BY <2>5, <2>6
<1>5. Counted(q, b, L)
  BY <1>2, <1>4
<1>6. OpBytes(q) = Cardinality(Slices(q, L))
  BY <1>1 DEF OpBytes, Slices
<1> QED BY <1>2, <1>5, <1>6 DEF Counted

-----------------------------------------------------------------------------
\* The invariant implies the stream invariant: the places of the layout count the
\* bytes of the operations in the list.
LEMMA IInvStream ==
  ASSUME IInv PROVE StreamInv
<1>1. TypeOK /\ OutInOrder /\ Account
  BY DEF IInv
<1>2. ASSUME fpc # "exited" PROVE rb.length = OpBytes(ops) + OfCur
  <2>1. PICK e \in [0..Len(ops) -> 0..MaxBytes], b \in [0..Len(ops) -> 0..BufSize] :
          Layout(ops, e, b, Len(out) + left - emitted, OfCur, accepted, rb)
    BY <1>1, <1>2 DEF Account
  <2>2. ops \in Seq(Ops) /\ rb.length \in Nat /\ OfCur \in Nat
    BY <1>1, BytesAssumption DEF TypeOK, Rings, OfCur
  <2>3. PICK X : X = Len(out) + left - emitted
    OBVIOUS
  <2>4. OpBytes(ops) = rb.length - OfCur
    BY <2>1, <2>2, <2>3, LayoutSum
  <2> QED BY <2>2, <2>4
<1>3. RingMatchesOps
  BY <1>2 DEF RingMatchesOps, OfCur
<1> QED BY <1>1, <1>3 DEF StreamInv

\* The writer starts with an empty stream.
LEMMA IInvInit ==
  ASSUME Init PROVE IInv
<1>1. /\ MaxBytes \in Nat /\ BufSize \in Nat /\ Zero \in Bytes /\ rb = NewRingBuffer /\ ops = <<>> /\ Len(ops) = 0
      /\ cur = NoOp /\ out = <<>> /\ Len(out) = 0 /\ accepted = 0 /\ left = 0 /\ emitted = 0 /\ size = 0 /\ win = 0
      /\ rb.length = 0 /\ rb.start = 0 /\ NoOp.kind = "flush" /\ NoOp.owner = NoCaller /\ NoCaller \notin Callers
      /\ err = "nil" /\ fpc = "ready" /\ durable = 0 /\ closed = FALSE
  BY BytesAssumption, BufSizeAssumption, ZeroAssumption, CallersAssumption DEF Init, NewRingBuffer, NoOp, FlushOp
<1>2. /\ pc = [g \in Callers |-> "idle"] /\ opOf = [g \in Callers |-> NoCaller] /\ res = [g \in Callers |-> "nil"]
      /\ due = [g \in Callers |-> Nothing]
  BY DEF Init
<1>3. TypeOK
  <2>1. rb \in Rings /\ (BufSize > 0 => rb.start \in Slots)
    BY <1>1 DEF NewRingBuffer, Rings, Slots
  <2>2. NoOp \in Ops
    BY <1>1 DEF NoOp, FlushOp, Ops
  <2>3. pc \in [Callers -> CallerPCs]
    BY <1>2 DEF CallerPCs
  <2>4. res \in [Callers -> Errors]
    BY <1>2 DEF Errors
  <2>5. due \in [Callers -> [written : 0..MaxBytes, flushed : 0..MaxBytes]]
    BY <1>1, <1>2 DEF Nothing
  <2>6. opOf \in [Callers -> Callers \cup {NoCaller}]
    BY <1>2
  <2>7. ops \in Seq(Ops) /\ out \in Seq(Bytes)
    BY <1>1
  <2>8. /\ left \in 0..MaxBytes /\ size \in 0..left /\ emitted \in 0..size /\ win \in Nat /\ ~(size > 0)
        /\ accepted \in 0..MaxBytes /\ durable \in 0..Len(out) /\ rb.length <= BufSize
    BY <1>1
  <2>9. closed \in BOOLEAN /\ err \in {"nil", "fail"} /\ fpc \in FlusherPCs /\ cur \in Ops
    BY <1>1, <2>2 DEF FlusherPCs
  <2> QED BY <2>1, <2>3, <2>4, <2>5, <2>6, <2>7, <2>8, <2>9 DEF TypeOK
<1>4. OutInOrder
  BY <1>1 DEF OutInOrder
<1>5. \A g \in Callers : pc[g] = "idle" /\ due[g] = Nothing
  BY <1>2
<1>6. Account
  <2>1. PICK e, b : e = [i \in 0..0 |-> 0] /\ b = [i \in 0..0 |-> 0]
    OBVIOUS
  <2>2. e \in [0..Len(ops) -> 0..MaxBytes] /\ b \in [0..Len(ops) -> 0..BufSize] /\ e[0] = 0 /\ b[0] = 0
    BY <1>1, <2>1
  <2>3. \A i, j \in 0..Len(ops) : i <= j => e[i] <= e[j] /\ b[i] <= b[j]
    BY <1>1, <2>1
  <2>4. Layout(ops, e, b, 0, 0, 0, rb)
    BY <1>1, <2>2, <2>3 DEF Layout
  <2>5. Waits(e)
    BY <1>5 DEF Waits
  <2>6. Len(out) + left - emitted = 0 /\ OfCur = 0
    BY <1>1 DEF OfCur
  <2> QED BY <1>1, <2>2, <2>4, <2>5, <2>6 DEF Account
<1>7. Owning
  BY <1>1 DEF Owning, OwnerBlocked
<1>8. AtWork /\ Gone
  BY <1>1, <1>5 DEF AtWork, Gone
<1>9. AckCovers /\ Owed
  BY <1>5 DEF AckCovers, Owed
<1> QED BY <1>3, <1>4, <1>6, <1>7, <1>8, <1>9 DEF IInv

\* A caller that is not blocked is refused, closes the writer or returns: whatever
\* is in flight stays where it is.
Aside(g, v) ==
  /\ pc[g] # "blocked" /\ v \in {"idle", "woken"} /\ pc' = [pc EXCEPT ![g] = v]
  /\ UNCHANGED <<rb, ops, err, cur, left, win, size, emitted, accepted, out, durable>>
  /\ fpc' = fpc \/ (fpc = "wait" /\ fpc' = "ready")
  /\ closed' \in BOOLEAN /\ (closed => closed')
  /\ opOf' \in [Callers -> Callers \cup {NoCaller}]
  /\ res' \in [Callers -> Errors]
  /\ due' \in [Callers -> [written : 0..MaxBytes, flushed : 0..MaxBytes]]
  /\ \A h \in Callers \ {g} : opOf'[h] = opOf[h] /\ res'[h] = res[h] /\ due'[h] = due[h]
  /\ v = "woken" /\ res'[g] = "nil" => due'[g] = Nothing
  /\ v = "idle" => due'[g] = Nothing

LEMMA AsideKeeps ==
  ASSUME IInv, NEW g \in Callers, NEW v, Aside(g, v) PROVE IInv'
<1>1. TypeOK /\ OutInOrder /\ AckCovers /\ Account /\ Owning /\ AtWork /\ Gone /\ Owed
  BY DEF IInv
<1>2. pc \in [Callers -> CallerPCs] /\ pc' = [pc EXCEPT ![g] = v] /\ v \in {"idle", "woken"}
  BY <1>1 DEF TypeOK, Aside
<1>3. pc'[g] = v /\ \A h \in Callers \ {g} : pc'[h] = pc[h]
  BY <1>2
<1>4. pc' \in [Callers -> CallerPCs]
  BY <1>2 DEF CallerPCs
<1>5. fpc' \in FlusherPCs
  BY <1>1 DEF Aside, TypeOK, FlusherPCs
<1>6. TypeOK'
  BY <1>1, <1>4, <1>5 DEF TypeOK, Aside
<1>7. OutInOrder'
  BY <1>1 DEF OutInOrder, Aside
<1>8. AckCovers'
  <2>1. ASSUME NEW h \in Callers, pc'[h] = "woken", res'[h] = "nil"
        PROVE  due'[h].written <= Len(out) /\ due'[h].flushed <= durable
    <3>1. CASE h = g
      <4>1. due'[h] = Nothing
        BY <1>3, <2>1, <3>1 DEF Aside
      <4>2. Len(out) \in Nat /\ durable \in Nat
        BY <1>1 DEF TypeOK
      <4> QED BY <4>1, <4>2 DEF Nothing
    <3>2. CASE h # g
      BY <1>1, <1>3, <2>1, <3>2 DEF AckCovers, Aside
    <3> QED BY <3>1, <3>2
  <2> QED BY <2>1 DEF AckCovers, Aside
<1>9. \A h \in Callers : pc'[h] = "blocked" => h # g /\ pc[h] = "blocked" /\ opOf'[h] = opOf[h] /\ due'[h] = due[h]
  BY <1>2, <1>3 DEF Aside
<1>10. Account'
  <2>1. SUFFICES ASSUME fpc' # "exited" PROVE Account'
    BY DEF Account
  <2>2. fpc # "exited"
    BY <2>1 DEF Aside
  <2>3. PICK e \in [0..Len(ops) -> 0..MaxBytes], b \in [0..Len(ops) -> 0..BufSize] :
          Layout(ops, e, b, Len(out) + left - emitted, OfCur, accepted, rb) /\ Waits(e)
    BY <1>1, <2>2 DEF Account
  <2>4. cur' = cur /\ ops' = ops /\ OfCur' = OfCur
    BY DEF Aside, OfCur
  <2>5. Waits(e)'
    BY <1>9, <2>3, <2>4 DEF Waits
  <2> QED BY <2>3, <2>4, <2>5 DEF Account, Aside
<1>11. \A h : OwnerBlocked(pc, opOf, h) => OwnerBlocked(pc', opOf', h)
  <2>1. ASSUME NEW h \in Callers, pc[h] = "blocked", opOf[h] = h PROVE pc'[h] = "blocked" /\ opOf'[h] = h
    <3>1. h # g
      BY <2>1 DEF Aside
    <3> QED BY <1>3, <2>1, <3>1 DEF Aside
  <2> QED BY <2>1 DEF OwnerBlocked
<1>12. Owning'
  <2>1. cur' = cur /\ ops' = ops
    BY DEF Aside
  <2> QED BY <1>1, <1>11, <2>1 DEF Owning
<1>13. AtWork'
  BY <1>1 DEF AtWork, Aside
<1>14. Gone'
  BY <1>1, <1>9 DEF Gone, Aside
<1>15. Owed'
  BY <1>1, <1>3 DEF Owed, Aside
<1> QED BY <1>6, <1>7, <1>8, <1>10, <1>12, <1>13, <1>14, <1>15 DEF IInv

\* The three steps of this kind.
LEMMA RefusedKeeps ==
  ASSUME IInv, NEW g \in Callers, Refused(g) PROVE IInv'
<1>1. TypeOK
  BY DEF IInv
<1>2. res' \in [Callers -> Errors] /\ res'[g] # "nil" /\ \A h \in Callers \ {g} : res'[h] = res[h]
  BY <1>1 DEF TypeOK, Refused, Errors
<1>3. Aside(g, "woken")
  BY <1>1, <1>2 DEF Aside, Refused, TypeOK, bvars, xvars, hvars
<1> QED BY <1>3, AsideKeeps

LEMMA CloseKeeps ==
  ASSUME IInv, NEW g \in Callers, Close(g) PROVE IInv'
<1>1. TypeOK /\ Owed
  BY DEF IInv
<1>2. res' \in [Callers -> Errors] /\ \A h \in Callers \ {g} : res'[h] = res[h]
  BY <1>1 DEF TypeOK, Close, Errors
<1>3. fpc' = fpc \/ (fpc = "wait" /\ fpc' = "ready")
  BY DEF Close, Signal
<1>4. due[g] = Nothing
  BY <1>1 DEF Owed, Close
<1>5. Aside(g, "woken")
  BY <1>1, <1>2, <1>3, <1>4 DEF Aside, Close, TypeOK, hvars
<1> QED BY <1>5, AsideKeeps

LEMMA ReturnKeeps ==
  ASSUME IInv, NEW g \in Callers, Return(g) PROVE IInv'
<1>1. TypeOK /\ MaxBytes \in Nat
  BY BytesAssumption DEF IInv
<1>2. opOf' \in [Callers -> Callers \cup {NoCaller}] /\ \A h \in Callers \ {g} : opOf'[h] = opOf[h]
  BY <1>1 DEF TypeOK, Return
<1>3. res' \in [Callers -> Errors] /\ \A h \in Callers \ {g} : res'[h] = res[h]
  BY <1>1 DEF TypeOK, Return, Errors
<1>4. Nothing \in [written : 0..MaxBytes, flushed : 0..MaxBytes]
  BY <1>1 DEF Nothing
<1>5. /\ due' \in [Callers -> [written : 0..MaxBytes, flushed : 0..MaxBytes]] /\ due'[g] = Nothing
      /\ \A h \in Callers \ {g} : due'[h] = due[h]
  BY <1>1, <1>4 DEF TypeOK, Return
<1>6. Aside(g, "idle")
  BY <1>1, <1>2, <1>3, <1>5 DEF Aside, Return, TypeOK, bvars, xvars, hvars
<1> QED BY <1>6, AsideKeeps

\* A call that is taken in: it may add bytes to the ring and an operation to the
\* list, and may block the caller.
Posts(g) ==
  /\ Accepting(g)
  /\ UNCHANGED <<closed, err, cur, left, win, size, emitted, res, out, durable>>
  /\ fpc' = fpc \/ (fpc = "wait" /\ fpc' = "ready")
  /\ accepted' \in 0..MaxBytes /\ accepted <= accepted'
  /\ rb' \in Rings /\ rb'.length <= BufSize /\ rb'.start = rb.start
  /\ \A k \in 1..rb.length : At(rb', k) = At(rb, k)
  /\ pc' \in [Callers -> CallerPCs] /\ opOf' \in [Callers -> Callers \cup {NoCaller}]
  /\ due' \in [Callers -> [written : 0..MaxBytes, flushed : 0..MaxBytes]]
  /\ \A h \in Callers \ {g} : pc'[h] = pc[h] /\ opOf'[h] = opOf[h] /\ due'[h] = due[h]
  /\ pc'[g] = "blocked" \/ (pc'[g] = "idle" /\ due'[g] = due[g])

\* What such a call leaves alone, whatever becomes of the list.
Rest == TypeOK /\ OutInOrder /\ AckCovers /\ AtWork /\ Gone /\ Owed

LEMMA PostsKeeps ==
  ASSUME IInv, NEW g \in Callers, Posts(g), ops' \in Seq(Ops)
  PROVE  Rest' /\ fpc # "exited"
<1>1. TypeOK /\ OutInOrder /\ AckCovers /\ Account /\ AtWork /\ Gone /\ Owed
  BY DEF IInv
<1>2. err = "nil" /\ closed = FALSE /\ pc[g] = "idle"
  BY <1>1 DEF Posts, Accepting, TypeOK
<1>3. fpc # "exited"
  BY <1>1, <1>2 DEF Gone
<1>4. fpc' # "exited" /\ fpc' \in FlusherPCs
  BY <1>1, <1>3 DEF Posts, TypeOK, FlusherPCs
<1>5. OfCur <= rb.length
  <2>1. PICK e \in [0..Len(ops) -> 0..MaxBytes], b \in [0..Len(ops) -> 0..BufSize] :
          Layout(ops, e, b, Len(out) + left - emitted, OfCur, accepted, rb)
    BY <1>1, <1>3 DEF Account
  <2>2. PICK X : X = Len(out) + left - emitted
    OBVIOUS
  <2> QED BY <1>1, <2>1, <2>2, LayoutParts DEF TypeOK
<1>6. TypeOK'
  BY <1>1, <1>4 DEF TypeOK, Posts
<1>7. OutInOrder'
  <2>1. Len(out) \in Nat /\ accepted \in Nat /\ accepted' \in Nat /\ accepted <= accepted' /\ Len(out) <= accepted
    BY <1>1, BytesAssumption DEF TypeOK, Posts, OutInOrder
  <2>2. Len(out) <= accepted'
    BY <2>1
  <2> QED BY <1>1, <2>2 DEF OutInOrder, Posts
<1>8. AckCovers'
  BY <1>1 DEF AckCovers, Posts
<1>9. AtWork'
  <2>1. ASSUME cur.kind = "buffered", NEW k \in 1..left PROVE At(rb', k) = At(rb, k)
    <3>1. left <= rb.length /\ left \in Nat /\ rb.length \in Nat
      BY <1>1, <1>5, <2>1, BytesAssumption DEF OfCur, TypeOK, Rings
    <3>2. k \in 1..rb.length
      BY <3>1
    <3> QED BY <3>2 DEF Posts
  <2>2. cur.kind = "buffered" =>
          /\ BufSize > 0 /\ cur.owner = NoCaller /\ win = rb'.start /\ win + size <= BufSize
          /\ \A k \in 1..left : At(rb', k) = (Len(out) - emitted) + k
    BY <1>1, <2>1 DEF AtWork, Posts
  <2>3. /\ cur' = cur /\ left' = left /\ size' = size /\ emitted' = emitted /\ win' = win /\ out' = out
        /\ fpc' = fpc \/ (fpc = "wait" /\ fpc' = "ready")
    BY DEF Posts
  <2>4. /\ fpc' \in {"ready", "wait", "exited"} => cur' = NoOp /\ left' = 0
        /\ fpc' = "flush" => cur'.kind = "flush" /\ left' = 0
        /\ fpc' = "write" => cur'.kind \in {"buffered", "buf"}
        /\ cur'.kind = "buf" => size' = left' /\ cur'.first + emitted' = Len(out') + 1
    BY <1>1, <2>3 DEF AtWork
  <2> QED BY <2>2, <2>3, <2>4 DEF AtWork, NoOp, FlushOp
<1>10. Gone'
  BY <1>2, <1>4 DEF Gone, Posts
<1>11. Owed'
  BY <1>1, <1>2 DEF Owed, Posts
<1> QED BY <1>3, <1>6, <1>7, <1>8, <1>9, <1>10, <1>11 DEF Rest

\* A caller that is idle owns no operation, and nobody's operation is lost when it
\* blocks.
LEMMA OwnersStay ==
  ASSUME IInv, NEW g \in Callers, Posts(g)
  PROVE  /\ cur.owner # g /\ \A i \in 1..Len(ops) : ops[i].owner # g
         /\ \A h : OwnerBlocked(pc, opOf, h) => OwnerBlocked(pc', opOf', h)
         /\ \A h \in Callers : pc[h] = "blocked" => h # g
<1>1. Owning /\ pc[g] = "idle"
  BY DEF IInv, Posts, Accepting
<1>2. cur.owner # g /\ \A i \in 1..Len(ops) : ops[i].owner # g
  BY <1>1 DEF Owning, OwnerBlocked
<1>3. \A h \in Callers : pc[h] = "blocked" => h # g
  BY <1>1
<1>4. \A h : OwnerBlocked(pc, opOf, h) => OwnerBlocked(pc', opOf', h)
  BY <1>3 DEF OwnerBlocked, Posts
<1> QED BY <1>2, <1>3, <1>4

\* A new operation joins the list.
LEMMA PushKeeps ==
  ASSUME IInv, NEW g \in Callers, Posts(g), NEW o \in Ops, ops' = Push(o),
         accepted' = accepted + o.length, rb'.length = rb.length + InRing(o),
         Placed(o, accepted, rb.length, rb'),
         \/ o.owner = NoCaller /\ pc'[g] = "idle"
         \/ /\ o.owner = g /\ pc'[g] = "blocked" /\ opOf'[g] = g
            /\ due'[g].written <= accepted'
            /\ due'[g].flushed <= IF o.kind = "flush" THEN accepted' ELSE 0
  PROVE  IInv'
<1>1. TypeOK /\ Account /\ Owning
  BY DEF IInv
<1>2. PICK L : L = Len(ops)
  OBVIOUS
<1>3. /\ ops \in Seq(Ops) /\ L \in Nat /\ ops' = Append(ops, o) /\ ops' \in Seq(Ops) /\ Len(ops') = L + 1
      /\ ops'[L + 1] = o /\ (\A i \in 1..L : ops'[i] = ops[i]) /\ rb.length \in Nat
      /\ cur' = cur
  BY <1>1, <1>2 DEF TypeOK, Push, Rings, Posts
<1>4. Rest' /\ fpc # "exited"
  BY <1>3, PostsKeeps
<1>5. PICK e \in [0..L -> 0..MaxBytes], b \in [0..L -> 0..BufSize] :
        Layout(ops, e, b, Len(out) + left - emitted, OfCur, accepted, rb) /\ Waits(e)
  BY <1>1, <1>2, <1>4 DEF Account
<1>6. PICK X, Y : X = Len(out) + left - emitted /\ Y = OfCur
  OBVIOUS
<1>7. X = Len(out') + left' - emitted' /\ Y = OfCur'
  BY <1>6 DEF Posts, OfCur
<1>8. PICK f \in [0..(L + 1) -> 0..MaxBytes], c \in [0..(L + 1) -> 0..BufSize] :
        /\ Layout(ops', f, c, X, Y, accepted', rb')
        /\ \A i \in 0..L : f[i] = e[i]
  <2>1. Layout(ops, e, b, X, Y, accepted, rb)
    BY <1>5, <1>6
  <2>2. accepted + o.length <= MaxBytes /\ rb'.length <= BufSize /\ \A i \in 1..rb.length : At(rb', i) = At(rb, i)
    BY BytesAssumption DEF Posts
  <2>3. LaidOut(Append(ops, o), Len(ops) + 1, e, Len(ops), X, Y, accepted + o.length, rb')
    <3>1. PICK r, z, Z : r = rb /\ z = rb' /\ Z = accepted
      OBVIOUS
    <3>2. /\ Layout(ops, e, b, X, Y, Z, r) /\ Z + o.length <= MaxBytes /\ r.length \in Nat
          /\ z.length = r.length + InRing(o) /\ z.length <= BufSize
          /\ (\A i \in 1..r.length : At(z, i) = At(r, i)) /\ Placed(o, Z, r.length, z)
      BY <1>3, <2>1, <2>2, <3>1
    <3>3. LaidOut(Append(ops, o), Len(ops) + 1, e, Len(ops), X, Y, Z + o.length, z)
      BY <1>3, <3>2, LayoutPush
    <3> QED BY <3>1, <3>3
  <2>4. LaidOut(ops', L + 1, e, L, X, Y, accepted', rb')
    BY <1>2, <1>3, <2>3
  <2> QED BY <2>4 DEF LaidOut
<1>9. f[L + 1] = accepted' /\ f[0] = e[0]
  <2>1. f[L + 1] = accepted'
    BY <1>3, <1>8 DEF Layout
  <2>2. 0 \in 0..L
    BY <1>3
  <2> QED BY <1>8, <2>1, <2>2
<1>10. Waits(f)'
  <2>1. ASSUME NEW h \in Callers, pc'[h] = "blocked"
        PROVE  /\ opOf'[h] \in Callers
               /\ \/ cur'.owner = opOf'[h] /\ Covers(due'[h], cur', f[0])
                  \/ \E i \in 1..(L + 1) : ops'[i].owner = opOf'[h] /\ Covers(due'[h], ops'[i], f[i])
    <3>1. CASE h = g
      <4>1. o.owner = g /\ opOf'[g] = g /\ L + 1 \in 1..(L + 1)
        BY <1>3, <2>1, <3>1
      <4>2. Covers(due'[g], o, accepted')
        BY <2>1, <3>1 DEF Covers
      <4> QED BY <1>3, <1>9, <3>1, <4>1, <4>2
    <3>2. CASE h # g
      <4>1. pc[h] = "blocked" /\ opOf'[h] = opOf[h] /\ due'[h] = due[h]
        BY <2>1, <3>2 DEF Posts
      <4>2. /\ opOf[h] \in Callers
            /\ \/ cur.owner = opOf[h] /\ Covers(due[h], cur, e[0])
               \/ \E i \in 1..L : ops[i].owner = opOf[h] /\ Covers(due[h], ops[i], e[i])
        BY <1>2, <1>5, <4>1 DEF Waits
      <4>3. CASE cur.owner = opOf[h] /\ Covers(due[h], cur, e[0])
        BY <1>3, <1>9, <4>1, <4>2, <4>3
      <4>4. CASE \E i \in 1..L : ops[i].owner = opOf[h] /\ Covers(due[h], ops[i], e[i])
        <5>1. PICK i \in 1..L : ops[i].owner = opOf[h] /\ Covers(due[h], ops[i], e[i])
          BY <4>4
        <5>2. i \in 1..(L + 1) /\ i \in 0..L
          BY <1>3
        <5>3. ops'[i] = ops[i] /\ f[i] = e[i]
          BY <1>3, <1>8, <5>2
        <5>4. ops'[i].owner = opOf'[h] /\ Covers(due'[h], ops'[i], f[i])
          BY <4>1, <5>1, <5>3
        <5> QED BY <4>1, <4>2, <5>2, <5>4
      <4> QED BY <4>2, <4>3, <4>4
    <3> QED BY <3>1, <3>2
  <2> QED BY <1>3, <2>1 DEF Waits
<1>11. Account'
  BY <1>3, <1>7, <1>8, <1>10 DEF Account
<1>12. Owning'
  <2>1. /\ cur.owner # g /\ \A i \in 1..L : ops[i].owner # g
        /\ \A h : OwnerBlocked(pc, opOf, h) => OwnerBlocked(pc', opOf', h)
    BY <1>2, OwnersStay
  <2>2. OwnerBlocked(pc', opOf', o.owner) /\ (o.owner \in Callers => o.owner = g)
    BY CallersAssumption DEF OwnerBlocked
  <2>3. OwnerBlocked(pc, opOf, cur.owner) /\ \A i \in 1..L : OwnerBlocked(pc, opOf, ops[i].owner)
    BY <1>1, <1>2 DEF Owning
  <2>4. OwnerBlocked(pc', opOf', cur'.owner)
    BY <1>3, <2>1, <2>3
  <2>5. ASSUME NEW i \in 1..(L + 1) PROVE i \in 1..L \/ i = L + 1
    BY <1>3
  <2>6. ASSUME NEW i \in 1..(L + 1) PROVE OwnerBlocked(pc', opOf', ops'[i].owner)
    <3>1. CASE i \in 1..L
      <4>1. OwnerBlocked(pc', opOf', ops[i].owner)
        BY <2>1, <2>3, <3>1
      <4> QED BY <1>3, <3>1, <4>1
    <3>2. CASE i = L + 1
      BY <1>3, <2>2, <3>2
    <3> QED BY <2>5, <3>1, <3>2
  <2>7. ASSUME NEW i \in 1..(L + 1), ops'[i].owner \in Callers
        PROVE  ops'[i].owner # cur'.owner /\ \A j \in 1..(L + 1) : ops'[j].owner = ops'[i].owner => i = j
    <3>1. CASE i = L + 1
      <4>1. ops'[i].owner = g
        BY <1>3, <2>2, <2>7, <3>1
      <4>2. \A j \in 1..(L + 1) : ops'[j].owner = g => j = L + 1
        BY <1>3, <2>1, <2>5
      <4> QED BY <1>3, <2>1, <3>1, <4>1, <4>2
    <3>2. CASE i \in 1..L
      <4>1. ops'[i] = ops[i] /\ ops[i].owner \in Callers /\ ops[i].owner # g
        BY <1>3, <2>1, <2>7, <3>2
      <4>2. ops[i].owner # cur.owner /\ \A j \in 1..L : ops[j].owner = ops[i].owner => i = j
        BY <1>1, <1>2, <3>2, <4>1 DEF Owning
      <4>3. ASSUME NEW j \in 1..(L + 1), ops'[j].owner = ops[i].owner PROVE i = j
        BY <1>3, <2>2, <2>5, <4>1, <4>2, <4>3
      <4> QED BY <1>3, <4>1, <4>2, <4>3
    <3> QED BY <2>5, <3>1, <3>2
  <2> QED BY <1>3, <2>4, <2>6, <2>7 DEF Owning
<1> QED BY <1>4, <1>11, <1>12 DEF IInv, Rest

\* A Write that fits puts the next n bytes of the stream behind those in the ring.
Buffers(n) ==
  rb' \in Rings /\ rb'.start = rb.start /\ Follows(rb, rb', accepted, n)

LEMMA BufferAppends ==
  ASSUME TypeOK, NEW n \in Nat, accepted + n <= MaxBytes, Fits(n),
         rb' = AppendBytes(rb, [i \in 1..n |-> accepted + i])
  PROVE  Buffers(n)
<1>1. PICK b : b = [i \in 1..n |-> accepted + i]
  OBVIOUS
<1>2. accepted \in Nat /\ MaxBytes \in Nat /\ BufSize \in Nat /\ BufSize > 0 /\ n <= Free(rb) /\ 1..MaxBytes \subseteq Bytes
  BY BytesAssumption, BufSizeAssumption DEF TypeOK, Fits
<1>3. RingOK(rb)
  BY <1>2 DEF RingOK, TypeOK, Rings
<1>4. b \in Seq(Bytes) /\ Len(b) = n /\ \A k \in 1..n : b[k] = accepted + k
  <2>1. \A k \in 1..n : accepted + k \in Bytes
    BY <1>2
  <2> QED BY <1>1, <2>1
<1>5. n = Smaller(Len(b), Free(rb))
  <2>1. Free(rb) \in Int
    BY <1>2 DEF TypeOK, Rings, Free
  <2> QED BY <1>2, <1>4, <2>1 DEF Smaller
<1>6. /\ RingOK(rb') /\ rb'.length = rb.length + n
      /\ \A i \in 1..rb.length : At(rb', i) = At(rb, i)
      /\ \A k \in 1..n : At(rb', rb.length + k) = b[k]
  <2>1. /\ RingOK(AppendBytes(rb, b)) /\ AppendBytes(rb, b).length = rb.length + n
        /\ \A i \in 1..rb.length : At(AppendBytes(rb, b), i) = At(rb, i)
        /\ \A k \in 1..n : At(AppendBytes(rb, b), rb.length + k) = b[k]
    BY <1>3, <1>4, <1>5, AppendFits
  <2> QED BY <1>1, <2>1
<1>7. rb'.start = rb.start
  BY DEF AppendBytes, WriteBlock
<1> QED BY <1>4, <1>6, <1>7 DEF Buffers, Follows, RingOK

\* The bytes join the bufferedOp at the end of the list.
LEMMA GrowKeeps ==
  ASSUME IInv, NEW g \in Callers, Posts(g), NEW n \in Nat, Front("buffered"),
         ops' = [ops EXCEPT ![Len(ops)].length = @ + n], accepted' = accepted + n, Buffers(n),
         UNCHANGED <<pc, opOf, due>>
  PROVE  IInv'
<1>1. TypeOK /\ Account /\ Owning
  BY DEF IInv
<1>2. PICK L : L = Len(ops)
  OBVIOUS
<1>3. ops \in Seq(Ops) /\ L \in Nat /\ L > 0 /\ L \in 1..L /\ ops[L].kind = "buffered" /\ cur' = cur
  BY <1>1, <1>2, EmptySeq DEF TypeOK, Front, Posts
<1>4. fpc # "exited"
  BY <1>1 DEF IInv, Gone, Posts, Accepting
<1>5. PICK e \in [0..L -> 0..MaxBytes], b \in [0..L -> 0..BufSize] :
        Layout(ops, e, b, Len(out) + left - emitted, OfCur, accepted, rb) /\ Waits(e)
  BY <1>1, <1>2, <1>4 DEF Account
<1>6. PICK X, Y : X = Len(out) + left - emitted /\ Y = OfCur
  OBVIOUS
<1>7. X = Len(out') + left' - emitted' /\ Y = OfCur'
  BY <1>6 DEF Posts, OfCur
<1>8. ops' \in Seq(Ops) /\ Len(ops') = L /\ LaidOut(ops', L, e, L - 1, X, Y, accepted', rb')
  <2>1. PICK r, z, Z, p : r = rb /\ z = rb' /\ Z = accepted /\ p = ops'
    OBVIOUS
  <2>2. Z + n <= MaxBytes
    BY <2>1, BytesAssumption DEF Posts
  <2>3. Follows(r, z, Z, n)
    BY <2>1 DEF Buffers
  <2>4. Layout(ops, e, b, X, Y, Z, r) /\ p = Longer(ops, n)
    BY <1>2, <1>5, <1>6, <2>1 DEF Longer
  <2>5. p \in Seq(Ops) /\ Len(p) = L /\ LaidOut(p, L, e, L - 1, X, Y, Z + n, z)
    BY <1>2, <1>3, <2>2, <2>3, <2>4, LayoutGrow
  <2> QED BY <2>1, <2>5
<1>9. PICK f \in [0..L -> 0..MaxBytes], c \in [0..L -> 0..BufSize] :
        /\ Layout(ops', f, c, X, Y, accepted', rb')
        /\ \A i \in 0..(L - 1) : f[i] = e[i]
  BY <1>8 DEF LaidOut
<1>10. \A i \in 1..L : ops'[i].owner = ops[i].owner
  <2>1. \A i \in 1..L : ops[i] \in Ops
    BY <1>2, <1>3
  <2> QED BY <1>2, <1>3, <2>1 DEF Ops
<1>11. \A i \in 1..(L - 1) : ops'[i] = ops[i]
  BY <1>2, <1>3
<1>12. ops[L].owner \notin Callers
  <2>1. Placed(ops[L], e[L - 1], b[L - 1], rb)
    BY <1>2, <1>3, <1>5 DEF Layout
  <2> QED BY <1>3, <2>1, CallersAssumption DEF Placed
<1>13. Waits(f)'
  <2>1. ASSUME NEW h \in Callers, pc[h] = "blocked"
        PROVE  /\ opOf[h] \in Callers
               /\ \/ cur.owner = opOf[h] /\ Covers(due[h], cur, f[0])
                  \/ \E i \in 1..L : ops'[i].owner = opOf[h] /\ Covers(due[h], ops'[i], f[i])
    <3>1. /\ opOf[h] \in Callers
          /\ \/ cur.owner = opOf[h] /\ Covers(due[h], cur, e[0])
             \/ \E i \in 1..L : ops[i].owner = opOf[h] /\ Covers(due[h], ops[i], e[i])
      BY <1>2, <1>5, <2>1 DEF Waits
    <3>2. CASE cur.owner = opOf[h] /\ Covers(due[h], cur, e[0])
      <4>1. 0 \in 0..(L - 1)
        BY <1>3
      <4> QED BY <1>9, <3>1, <3>2, <4>1
    <3>3. CASE \E i \in 1..L : ops[i].owner = opOf[h] /\ Covers(due[h], ops[i], e[i])
      <4>1. PICK i \in 1..L : ops[i].owner = opOf[h] /\ Covers(due[h], ops[i], e[i])
        BY <3>3
      <4>2. i # L
        BY <1>12, <3>1, <4>1
      <4>3. i \in 1..(L - 1) /\ i \in 0..(L - 1)
        BY <1>3, <4>2
      <4>4. ops'[i] = ops[i] /\ f[i] = e[i]
        BY <1>9, <1>11, <4>3
      <4> QED BY <3>1, <4>1, <4>4
    <3> QED BY <3>1, <3>2, <3>3
  <2>2. pc' = pc /\ opOf' = opOf /\ due' = due
    OBVIOUS
  <2>3. ASSUME NEW h \in Callers, pc'[h] = "blocked"
        PROVE  /\ opOf'[h] \in Callers
               /\ \/ cur'.owner = opOf'[h] /\ Covers(due'[h], cur', f[0])
                  \/ \E i \in 1..Len(ops') : ops'[i].owner = opOf'[h] /\ Covers(due'[h], ops'[i], f[i])
    <3>1. /\ opOf[h] \in Callers
          /\ \/ cur.owner = opOf[h] /\ Covers(due[h], cur, f[0])
             \/ \E i \in 1..L : ops'[i].owner = opOf[h] /\ Covers(due[h], ops'[i], f[i])
      BY <2>1, <2>2, <2>3
    <3>2. 1..Len(ops') = 1..L /\ opOf'[h] = opOf[h] /\ due'[h] = due[h]
      BY <1>8, <2>2
    <3> QED BY <1>3, <3>1, <3>2, Zenon
  <2> QED BY <2>3 DEF Waits
<1>14. Account'
  BY <1>7, <1>8, <1>9, <1>13 DEF Account
<1>15. Owning'
  BY <1>1, <1>2, <1>3, <1>8, <1>10 DEF Owning
<1>16. Rest'
  BY <1>8, PostsKeeps
<1> QED BY <1>14, <1>15, <1>16 DEF IInv, Rest

\* The three calls that are taken in.
LEMMA WriteBufferedKeeps ==
  ASSUME IInv, NEW g \in Callers, NEW n \in 0..Smaller(MaxWrite, MaxBytes - accepted), WriteBuffered(g, n)
  PROVE  IInv'
<1>1. TypeOK /\ Accepting(g) /\ Fits(n) /\ accepted' = accepted + n
  BY DEF IInv, WriteBuffered
<1>2. n \in Nat /\ accepted + n <= MaxBytes /\ accepted \in Nat /\ MaxBytes \in Nat
  <2>1. accepted \in 0..MaxBytes /\ MaxBytes \in Nat /\ MaxWrite \in Nat
    BY <1>1, BytesAssumption DEF TypeOK
  <2> QED BY <2>1 DEF Smaller
<1>3. Buffers(n)
  BY <1>1, <1>2, BufferAppends DEF WriteBuffered
<1>4. fpc' = fpc \/ (fpc = "wait" /\ fpc' = "ready")
  BY DEF WriteBuffered, Signal
<1>5. accepted' \in 0..MaxBytes /\ accepted <= accepted'
  BY <1>1, <1>2
<1>6. Posts(g)
  BY <1>1, <1>3, <1>4, <1>5 DEF Posts, Buffers, Follows, WriteBuffered, cvars, TypeOK, Accepting
<1>7. CASE Front("buffered")
  BY <1>1, <1>2, <1>3, <1>6, <1>7, GrowKeeps DEF WriteBuffered, cvars
<1>8. CASE ~Front("buffered")
  <2>1. PICK o : o = BufferedOp(n)
    OBVIOUS
  <2>2. o \in Ops /\ o.kind = "buffered" /\ o.owner = NoCaller /\ o.length = n /\ InRing(o) = n
    BY <1>2, <2>1 DEF BufferedOp, Ops, InRing
  <2>3. Placed(o, accepted, rb.length, rb')
    BY <1>1, <1>3, <2>2 DEF Placed, Buffers, Follows, Fits
  <2>4. ops' = Push(o) /\ pc'[g] = "idle"
    BY <1>1, <1>8, <2>1 DEF WriteBuffered, cvars, Accepting
  <2>5. accepted' = accepted + o.length /\ rb'.length = rb.length + InRing(o)
    BY <1>1, <1>3, <2>2 DEF Buffers, Follows
  <2> QED BY <1>6, <2>2, <2>3, <2>4, <2>5, PushKeeps
<1> QED BY <1>7, <1>8

LEMMA WriteBlockingKeeps ==
  ASSUME IInv, NEW g \in Callers, NEW n \in 0..Smaller(MaxWrite, MaxBytes - accepted), WriteBlocking(g, n)
  PROVE  IInv'
<1>1. TypeOK /\ Accepting(g) /\ accepted' = accepted + n /\ rb' = rb
  BY DEF IInv, WriteBlocking
<1>2. n \in Nat /\ accepted + n <= MaxBytes /\ accepted \in Nat /\ MaxBytes \in Nat
  <2>1. accepted \in 0..MaxBytes /\ MaxBytes \in Nat /\ MaxWrite \in Nat
    BY <1>1, BytesAssumption DEF TypeOK
  <2> QED BY <2>1 DEF Smaller
<1>3. fpc' = fpc \/ (fpc = "wait" /\ fpc' = "ready")
  BY DEF WriteBlocking, Signal
<1>4. accepted' \in 0..MaxBytes /\ accepted <= accepted' /\ 0 \in 0..MaxBytes /\ n \in 0..MaxBytes /\ accepted + 1 \in 0..(MaxBytes + 1)
  BY <1>1, <1>2
<1>5. PICK d : d = [written |-> accepted + n, flushed |-> 0]
  OBVIOUS
<1>6. d \in [written : 0..MaxBytes, flushed : 0..MaxBytes] /\ d.written = accepted' /\ d.flushed = 0
  BY <1>1, <1>4, <1>5
<1>7. due' = [due EXCEPT ![g] = d] /\ opOf' = [opOf EXCEPT ![g] = g] /\ pc' = [pc EXCEPT ![g] = "blocked"]
  BY <1>5 DEF WriteBlocking
<1>8. /\ due' \in [Callers -> [written : 0..MaxBytes, flushed : 0..MaxBytes]] /\ due'[g] = d
      /\ \A h \in Callers \ {g} : due'[h] = due[h]
  BY <1>1, <1>6, <1>7 DEF TypeOK
<1>9. /\ opOf' \in [Callers -> Callers \cup {NoCaller}] /\ opOf'[g] = g
      /\ \A h \in Callers \ {g} : opOf'[h] = opOf[h]
  BY <1>1, <1>7 DEF TypeOK
<1>10. /\ pc' \in [Callers -> CallerPCs] /\ pc'[g] = "blocked"
       /\ \A h \in Callers \ {g} : pc'[h] = pc[h]
  BY <1>1, <1>7 DEF TypeOK, CallerPCs
<1>11. Posts(g)
  BY <1>1, <1>3, <1>4, <1>8, <1>9, <1>10 DEF Posts, WriteBlocking, TypeOK
<1>12. PICK o : o = BufOp(g, n)
  OBVIOUS
<1>13. o \in Ops /\ o.kind = "buf" /\ o.owner = g /\ o.length = n /\ o.first = accepted + 1 /\ InRing(o) = 0
  BY <1>4, <1>12 DEF BufOp, Ops, InRing
<1>14. Placed(o, accepted, rb.length, rb')
  BY <1>13 DEF Placed
<1>15. ops' = Push(o) /\ accepted' = accepted + o.length
  BY <1>1, <1>12, <1>13 DEF WriteBlocking
<1>16. rb'.length = rb.length + InRing(o)
  <2>1. rb.length \in Nat
    BY <1>1 DEF TypeOK, Rings
  <2> QED BY <1>1, <1>13, <2>1
<1>17. due'[g].written <= accepted' /\ due'[g].flushed <= IF o.kind = "flush" THEN accepted' ELSE 0
  BY <1>1, <1>2, <1>6, <1>8, <1>13
<1> QED BY <1>9, <1>10, <1>11, <1>13, <1>14, <1>15, <1>16, <1>17, PushKeeps

\* Flush waits for its own flushOp, or for the one at the end of the list: nothing
\* was taken in after it.
LEMMA FlushKeeps ==
  ASSUME IInv, NEW g \in Callers, Flush(g)
  PROVE  IInv'
<1>1. TypeOK /\ Account /\ Owning /\ Accepting(g) /\ rb' = rb /\ accepted' = accepted
  BY DEF IInv, Flush, hvars
<1>2. PICK L, d : L = Len(ops) /\ d = [written |-> accepted, flushed |-> accepted]
  OBVIOUS
<1>3. /\ MaxBytes \in Nat /\ accepted \in 0..MaxBytes /\ ops \in Seq(Ops) /\ L \in Nat
      /\ d \in [written : 0..MaxBytes, flushed : 0..MaxBytes] /\ d.written = accepted /\ d.flushed = accepted
  BY <1>1, <1>2, BytesAssumption DEF TypeOK
<1>4. PICK w \in Callers \cup {NoCaller} : opOf' = [opOf EXCEPT ![g] = w] /\ (Front("flush") => w = ops[L].owner)
  <2>1. CASE Front("flush")
    <3>1. L \in 1..L
      BY <1>2, <1>3, <2>1, EmptySeq DEF Front
    <3>2. ops[L] \in Ops
      BY <1>2, <1>3, <3>1
    <3>3. ops[L].owner \in Callers \cup {NoCaller}
      BY <3>2 DEF Ops
    <3> QED BY <1>2, <2>1, <3>3 DEF Flush
  <2>2. CASE ~Front("flush")
    BY <2>2 DEF Flush
  <2> QED BY <2>1, <2>2
<1>5. due' = [due EXCEPT ![g] = d] /\ pc' = [pc EXCEPT ![g] = "blocked"]
  BY <1>2 DEF Flush
<1>6. /\ due' \in [Callers -> [written : 0..MaxBytes, flushed : 0..MaxBytes]] /\ due'[g] = d
      /\ \A h \in Callers \ {g} : due'[h] = due[h]
  BY <1>1, <1>3, <1>5 DEF TypeOK
<1>7. /\ opOf' \in [Callers -> Callers \cup {NoCaller}] /\ opOf'[g] = w
      /\ \A h \in Callers \ {g} : opOf'[h] = opOf[h]
  BY <1>1, <1>4 DEF TypeOK
<1>8. /\ pc' \in [Callers -> CallerPCs] /\ pc'[g] = "blocked"
      /\ \A h \in Callers \ {g} : pc'[h] = pc[h]
  BY <1>1, <1>5 DEF TypeOK, CallerPCs
<1>9. fpc' = fpc \/ (fpc = "wait" /\ fpc' = "ready")
  BY DEF Flush, Signal
<1>10. Posts(g)
  BY <1>1, <1>3, <1>6, <1>7, <1>8, <1>9 DEF Posts, Flush, TypeOK, hvars
<1>11. CASE ~Front("flush")
  <2>1. PICK o : o = FlushOp(g)
    OBVIOUS
  <2>2. o \in Ops /\ o.kind = "flush" /\ o.owner = g /\ o.length = 0 /\ InRing(o) = 0
    BY <1>3, <2>1 DEF FlushOp, Ops, InRing
  <2>3. Placed(o, accepted, rb.length, rb')
    BY <2>2 DEF Placed
  <2>4. ops' = Push(o) /\ opOf'[g] = g
    BY <1>1, <1>11, <2>1 DEF Flush, TypeOK
  <2>5. accepted' = accepted + o.length /\ rb'.length = rb.length + InRing(o)
    <3>1. rb.length \in Nat /\ accepted \in Nat
      BY <1>1, <1>3 DEF TypeOK, Rings
    <3> QED BY <1>1, <2>2, <3>1
  <2>6. due'[g].written <= accepted' /\ due'[g].flushed <= IF o.kind = "flush" THEN accepted' ELSE 0
    BY <1>1, <1>3, <1>6, <2>2
  <2> QED BY <1>8, <1>10, <2>2, <2>3, <2>4, <2>5, <2>6, PushKeeps
<1>12. CASE Front("flush")
  <2>1. ops' = ops /\ w = ops[L].owner /\ ops[L].kind = "flush" /\ L \in 1..L /\ cur' = cur
    BY <1>2, <1>3, <1>4, <1>12, EmptySeq DEF Flush, Front
  <2>2. Rest' /\ fpc # "exited"
    BY <1>3, <1>10, <2>1, PostsKeeps
  <2>3. PICK e \in [0..L -> 0..MaxBytes], b \in [0..L -> 0..BufSize] :
          Layout(ops, e, b, Len(out) + left - emitted, OfCur, accepted, rb) /\ Waits(e)
    BY <1>1, <1>2, <2>2 DEF Account
  <2>4. w \in Callers /\ e[L] = accepted
    <3>1. Placed(ops[L], e[L - 1], b[L - 1], rb)
      BY <1>2, <2>1, <2>3 DEF Layout
    <3>2. w \in Callers
      BY <2>1, <3>1 DEF Placed
    <3>3. e[L] = accepted
      BY <1>2, <2>3 DEF Layout
    <3> QED BY <3>2, <3>3
  <2>5. Waits(e)'
    <3>1. ASSUME NEW h \in Callers, pc'[h] = "blocked"
          PROVE  /\ opOf'[h] \in Callers
                 /\ \/ cur.owner = opOf'[h] /\ Covers(due'[h], cur, e[0])
                    \/ \E i \in 1..L : ops[i].owner = opOf'[h] /\ Covers(due'[h], ops[i], e[i])
      <4>1. CASE h = g
        <5>1. Covers(d, ops[L], e[L])
          BY <1>3, <2>1, <2>4 DEF Covers
        <5> QED BY <1>6, <1>7, <2>1, <2>4, <4>1, <5>1
      <4>2. CASE h # g
        <5>1. pc[h] = "blocked" /\ opOf'[h] = opOf[h] /\ due'[h] = due[h]
          BY <1>6, <1>7, <1>8, <3>1, <4>2
        <5> QED BY <1>2, <2>3, <5>1 DEF Waits
      <4> QED BY <4>1, <4>2
    <3>2. Len(ops') = L
      BY <1>2, <2>1
    <3> QED BY <2>1, <3>1, <3>2 DEF Waits
  <2>6. Account'
    BY <1>1, <1>2, <2>1, <2>3, <2>5 DEF Account, Flush, OfCur, hvars
  <2>7. Owning'
    <3>1. \A h : OwnerBlocked(pc, opOf, h) => OwnerBlocked(pc', opOf', h)
      BY <1>10, OwnersStay
    <3> QED BY <1>1, <2>1, <3>1 DEF Owning
  <2> QED BY <2>2, <2>6, <2>7 DEF IInv, Rest
<1> QED BY <1>11, <1>12

-----------------------------------------------------------------------------
\* The flusher's steps.  The underlying Write takes the next byte of the stream.
LEMMA EmitByteKeeps ==
  ASSUME IInv, EmitByte
  PROVE  IInv'
<1>1. TypeOK /\ OutInOrder /\ AckCovers /\ Account /\ Owning /\ AtWork /\ Gone /\ Owed
  BY DEF IInv
<1>2. /\ fpc = "write" /\ emitted < size /\ emitted' = emitted + 1
      /\ out' = Append(out, IF cur.kind = "buffered" THEN rb.buf[win + emitted] ELSE cur.first + emitted)
      /\ UNCHANGED <<rb, closed, err, ops, fpc, cur, left, win, size, pc, opOf, res, due, accepted, durable>>
  BY DEF EmitByte, bvars, cvars
<1>3. /\ MaxBytes \in Nat /\ BufSize \in Nat /\ left \in 0..MaxBytes /\ size \in 0..left /\ emitted \in 0..size
      /\ emitted \in Nat /\ left \in Nat /\ size \in Nat /\ accepted \in 0..MaxBytes
      /\ out \in Seq(Bytes) /\ ops \in Seq(Ops) /\ durable \in 0..Len(out) /\ 1..MaxBytes \subseteq Bytes
  BY <1>1, BytesAssumption, BufSizeAssumption DEF TypeOK
<1>4. PICK n \in Nat : n = Len(out)
  BY <1>3
<1>5. PICK e \in [0..Len(ops) -> 0..MaxBytes], b \in [0..Len(ops) -> 0..BufSize] :
        Layout(ops, e, b, Len(out) + left - emitted, OfCur, accepted, rb) /\ Waits(e)
  BY <1>1, <1>2 DEF Account
<1>6. PICK X : X = Len(out) + left - emitted
  OBVIOUS
<1>7. X <= accepted /\ X = n + left - emitted
  <2>1. Layout(ops, e, b, X, OfCur, accepted, rb)
    BY <1>5, <1>6
  <2>2. X <= accepted
    BY <1>3, <2>1, LayoutParts
  <2> QED BY <1>4, <1>6, <2>2
<1>8. n + 1 <= accepted /\ n + 1 \in Bytes
  <2>1. n + 1 <= accepted
    BY <1>2, <1>3, <1>7
  <2>2. n + 1 \in 1..MaxBytes
    BY <1>3, <2>1
  <2> QED BY <1>3, <2>1, <2>2
<1>9. out' = Append(out, n + 1)
  <2>1. cur.kind = "buffered" \/ cur.kind = "buf"
    BY <1>1, <1>2 DEF AtWork
  <2>2. CASE cur.kind = "buf"
    <3>1. cur.first + emitted = n + 1
      BY <1>1, <1>4, <2>2 DEF AtWork
    <3> QED BY <1>2, <2>2, <3>1
  <2>3. CASE cur.kind = "buffered"
    <3>1. /\ BufSize > 0 /\ win = rb.start /\ win + size <= BufSize /\ win \in Nat
          /\ \A k \in 1..left : At(rb, k) = (n - emitted) + k
      BY <1>1, <1>4, <2>3 DEF AtWork, TypeOK
    <3>2. emitted + 1 \in 1..left
      BY <1>2, <1>3
    <3>3. At(rb, emitted + 1) = n + 1
      <4>1. At(rb, emitted + 1) = (n - emitted) + (emitted + 1)
        BY <3>1, <3>2
      <4> QED BY <1>3, <4>1
    <3>4. PICK p : p = win + emitted
      OBVIOUS
    <3>5. p \in 0..(BufSize - 1)
      <4>1. win \in Nat /\ emitted \in Nat /\ size \in Nat /\ BufSize \in Nat /\ win + size <= BufSize /\ emitted < size
        BY <1>2, <1>3, <3>1
      <4> QED BY <3>4, <4>1
    <3>6. p % BufSize = p
      <4>1. RingOK(rb)
        BY <1>1, <1>3, <3>1 DEF RingOK, TypeOK, Rings
      <4>2. p \in 0..(2 * BufSize - 1)
        BY <1>3, <3>5
      <4>3. WrapsOnce(p)
        BY <4>1, <4>2, Wrap
      <4> QED BY <1>3, <3>5, <4>3 DEF WrapsOnce
    <3>7. rb.start + (emitted + 1) - 1 = p
      BY <1>3, <3>1, <3>4
    <3>8. At(rb, emitted + 1) = rb.buf[p]
      BY <3>6, <3>7 DEF At
    <3> QED BY <1>2, <2>3, <3>3, <3>4, <3>8
  <2> QED BY <2>1, <2>2, <2>3
<1>10. /\ out' \in Seq(Bytes) /\ Len(out') = n + 1 /\ out'[n + 1] = n + 1
       /\ \A i \in 1..n : out'[i] = out[i]
  BY <1>3, <1>4, <1>8, <1>9
<1>11. TypeOK'
  <2>1. emitted' \in 0..size
    BY <1>2, <1>3
  <2>2. durable \in 0..(n + 1)
    BY <1>3, <1>4
  <2> QED BY <1>1, <1>2, <1>10, <2>1, <2>2 DEF TypeOK
<1>12. OutInOrder'
  <2>1. ASSUME NEW i \in 1..(n + 1) PROVE out'[i] = i
    <3>1. i \in 1..n \/ i = n + 1
      OBVIOUS
    <3>2. \A j \in 1..n : out[j] = j
      BY <1>1, <1>4 DEF OutInOrder
    <3> QED BY <1>10, <3>1, <3>2
  <2> QED BY <1>2, <1>8, <1>10, <2>1 DEF OutInOrder
<1>13. AckCovers'
  <2>1. ASSUME NEW g \in Callers, pc[g] = "woken", res[g] = "nil"
        PROVE  due[g].written <= n + 1 /\ due[g].flushed <= durable
    <3>1. due[g].written <= n /\ due[g].flushed <= durable
      BY <1>1, <1>4, <2>1 DEF AckCovers
    <3>2. due[g] \in [written : 0..MaxBytes, flushed : 0..MaxBytes]
      BY <1>1 DEF TypeOK
    <3>3. due[g].written \in Nat
      BY <1>3, <3>2
    <3> QED BY <3>1, <3>3
  <2> QED BY <1>2, <1>10, <2>1 DEF AckCovers
<1>14. Account'
  <2>1. X = Len(out') + left' - emitted' /\ OfCur' = OfCur
    <3>1. OfCur' = OfCur /\ left' = left /\ emitted' = emitted + 1
      BY <1>2 DEF OfCur
    <3>2. n + left - emitted = (n + 1) + left - (emitted + 1)
      BY <1>3
    <3> QED BY <1>7, <1>10, <3>1, <3>2
  <2>2. Waits(e)'
    BY <1>2, <1>5 DEF Waits
  <2> QED BY <1>2, <1>5, <1>6, <2>1, <2>2 DEF Account
<1>15. AtWork'
  <2>1. cur.kind = "buf" => cur.first + (emitted + 1) = (n + 1) + 1
    <3>1. ASSUME cur.kind = "buf" PROVE cur.first + emitted = n + 1 /\ cur.first \in Nat
      BY <1>1, <1>3, <1>4, <3>1 DEF AtWork, TypeOK, Ops
    <3> QED BY <1>3, <3>1
  <2>2. (n + 1) - (emitted + 1) = n - emitted
    BY <1>3
  <2>3. cur.kind = "buffered" => \A k \in 1..left : At(rb, k) = ((n + 1) - (emitted + 1)) + k
    BY <1>1, <1>4, <2>2 DEF AtWork
  <2> QED BY <1>1, <1>2, <1>10, <2>1, <2>3 DEF AtWork
<1>16. Owning' /\ Gone' /\ Owed'
  BY <1>1, <1>2 DEF Owning, Gone, Owed
<1> QED BY <1>11, <1>12, <1>13, <1>14, <1>15, <1>16 DEF IInv

\* The current operation is over, with x: if it was performed, the operations in the
\* list are the rest of the stream.
Done(r, x) ==
  /\ fpc # "exited" /\ x \in {"nil", "fail"}
  /\ r \in Rings /\ r.length <= BufSize /\ (BufSize > 0 => r.start \in Slots)
  /\ OpDone(r, x) /\ accepted' = accepted /\ out' = out
  /\ durable' \in 0..Len(out) /\ durable <= durable'
  /\ x = "nil" =>
       /\ \E e \in [0..Len(ops) -> 0..MaxBytes], b \in [0..Len(ops) -> 0..BufSize] :
            Layout(ops, e, b, Len(out), 0, accepted, r) /\ Waits(e)
       /\ cur.kind = "flush" /\ cur.owner \in Callers => durable' = Len(out)

\* Who is woken then, and with what.
Woken(x) ==
  /\ pc' \in [Callers -> CallerPCs] /\ res' \in [Callers -> Errors] /\ UNCHANGED <<opOf, due>>
  /\ \A h \in Callers :
       /\ pc'[h] = "blocked" => /\ pc[h] = "blocked" /\ opOf[h] # cur.owner
                                /\ x = "nil" /\ ~closed
       /\ pc[h] = "blocked" /\ opOf[h] # cur.owner /\ x = "nil" /\ ~closed => pc'[h] = "blocked"
       /\ pc'[h] = "woken" /\ res'[h] = "nil" =>
            \/ pc[h] = "woken" /\ res[h] = "nil"
            \/ pc[h] = "blocked" /\ opOf[h] = cur.owner /\ x = "nil"
       /\ pc'[h] = "idle" => pc[h] = "idle"

LEMMA WakeDoes ==
  ASSUME IInv, NEW r, NEW x, Done(r, x)
  PROVE  Woken(x) /\ err = "nil" /\ err' = x /\ rb' = r /\ closed' = closed
         /\ IF x # "nil" \/ closed THEN Exit ELSE Begin(r)
<1>1. TypeOK /\ Account /\ Gone /\ fpc # "exited" /\ x \in {"nil", "fail"} /\ OpDone(r, x)
  BY DEF IInv, Done
<1>2. err = "nil"
  BY <1>1 DEF Gone
<1>3. PICK stop \in BOOLEAN : stop = (x # "nil" \/ closed)
  BY <1>1 DEF TypeOK
<1>4. PICK dropped : dropped = IF x # "nil" THEN x ELSE "closed"
  OBVIOUS
<1>5. Stops(x) = stop /\ (IF x # "nil" THEN x ELSE err) = x
  BY <1>1, <1>2, <1>3 DEF Stops
<1>6. PICK w : w = [o \in Callers |-> IF o = cur.owner THEN x ELSE IF stop /\ o \in Owners THEN dropped ELSE "none"]
  OBVIOUS
<1>7. Wake(w) /\ err' = x /\ rb' = r /\ closed' = closed /\ IF stop THEN Exit ELSE Begin(r)
  BY <1>1, <1>4, <1>5, <1>6 DEF OpDone
<1>8. ASSUME NEW h \in Callers, pc[h] = "blocked"
      PROVE  opOf[h] \in Callers /\ (opOf[h] = cur.owner \/ opOf[h] \in Owners)
  <2>1. PICK e : Waits(e)
    BY <1>1 DEF Account
  <2> QED BY <1>8, <2>1 DEF Waits, Owners
<1>9. dropped \in {"fail", "closed"}
  BY <1>1, <1>4
<1>10. /\ pc' = [g \in Callers |-> IF pc[g] = "blocked" /\ w[opOf[g]] # "none" THEN "woken" ELSE pc[g]]
       /\ res' = [g \in Callers |-> IF pc[g] = "blocked" /\ w[opOf[g]] # "none" THEN w[opOf[g]] ELSE res[g]]
       /\ UNCHANGED <<opOf, due>>
  BY <1>7 DEF Wake
<1>11. pc \in [Callers -> CallerPCs] /\ res \in [Callers -> Errors]
  BY <1>1 DEF TypeOK
<1>12. ASSUME NEW h \in Callers, pc[h] = "blocked"
       PROVE  /\ opOf[h] = cur.owner => w[opOf[h]] = x
              /\ opOf[h] # cur.owner /\ stop => w[opOf[h]] = dropped
              /\ opOf[h] # cur.owner /\ ~stop => w[opOf[h]] = "none"
  BY <1>6, <1>8, <1>12
<1>13. pc' \in [Callers -> CallerPCs]
  BY <1>10, <1>11 DEF CallerPCs
<1>14. res' \in [Callers -> Errors]
  <2>1. ASSUME NEW h \in Callers, pc[h] = "blocked", w[opOf[h]] # "none" PROVE w[opOf[h]] \in Errors
    BY <1>1, <1>9, <1>12, <2>1 DEF Errors
  <2> QED BY <1>10, <1>11, <2>1
<1>15. ASSUME NEW h \in Callers
       PROVE  /\ pc'[h] = "blocked" => pc[h] = "blocked" /\ opOf[h] # cur.owner /\ ~stop
              /\ pc[h] = "blocked" /\ opOf[h] # cur.owner /\ ~stop => pc'[h] = "blocked"
              /\ pc'[h] = "woken" /\ res'[h] = "nil" =>
                   \/ pc[h] = "woken" /\ res[h] = "nil"
                   \/ pc[h] = "blocked" /\ opOf[h] = cur.owner /\ x = "nil"
              /\ pc'[h] = "idle" => pc[h] = "idle"
  <2>1. CASE pc[h] # "blocked"
    <3>1. pc'[h] = pc[h] /\ res'[h] = res[h]
      BY <1>10, <2>1
    <3> QED BY <2>1, <3>1
  <2>2. CASE pc[h] = "blocked" /\ opOf[h] = cur.owner
    <3>1. w[opOf[h]] = x /\ x # "none"
      BY <1>1, <1>12, <2>2
    <3>2. pc'[h] = "woken" /\ res'[h] = x
      BY <1>10, <2>2, <3>1
    <3> QED BY <2>2, <3>2
  <2>3. CASE pc[h] = "blocked" /\ opOf[h] # cur.owner /\ stop
    <3>1. w[opOf[h]] = dropped /\ dropped # "none" /\ dropped # "nil"
      BY <1>9, <1>12, <2>3
    <3>2. pc'[h] = "woken" /\ res'[h] = dropped
      BY <1>10, <2>3, <3>1
    <3> QED BY <2>3, <3>1, <3>2, Zenon
  <2>4. CASE pc[h] = "blocked" /\ opOf[h] # cur.owner /\ ~stop
    <3>1. w[opOf[h]] = "none"
      BY <1>12, <2>4
    <3>2. pc'[h] = "blocked"
      BY <1>10, <2>4, <3>1
    <3> QED BY <2>4, <3>2
  <2> QED BY <2>1, <2>2, <2>3, <2>4
<1>16. Woken(x)
  BY <1>3, <1>10, <1>13, <1>14, <1>15 DEF Woken
<1> QED BY <1>2, <1>3, <1>7, <1>16

\* A call that returns without an error is covered; nothing else changes for the
\* callers.
LEMMA DoneRest ==
  ASSUME IInv, NEW r, NEW x, Done(r, x)
  PROVE  OutInOrder' /\ AckCovers' /\ Owed'
<1>1. TypeOK /\ OutInOrder /\ AckCovers /\ Owning /\ Owed /\ Woken(x)
  BY WakeDoes DEF IInv
<1>2. OutInOrder'
  BY <1>1 DEF OutInOrder, Done
<1>3. Owed'
  BY <1>1 DEF Owed, Woken
<1>4. /\ Len(out) \in Nat /\ durable \in Nat /\ durable' \in Nat /\ durable <= durable' /\ durable' <= Len(out)
      /\ out' = out /\ due' = due
  BY <1>1 DEF TypeOK, Done, Woken
<1>5. ASSUME NEW h \in Callers, pc'[h] = "woken", res'[h] = "nil"
      PROVE  due[h].written <= Len(out) /\ due[h].flushed <= durable'
  <2>1. due[h].written \in Nat /\ due[h].flushed \in Nat
    <3>1. due[h] \in [written : 0..MaxBytes, flushed : 0..MaxBytes] /\ MaxBytes \in Nat
      BY <1>1, BytesAssumption DEF TypeOK
    <3> QED BY <3>1
  <2>2. CASE pc[h] = "woken" /\ res[h] = "nil"
    <3>1. due[h].written <= Len(out) /\ due[h].flushed <= durable
      BY <1>1, <2>2 DEF AckCovers
    <3> QED BY <1>4, <2>1, <3>1
  <2>3. CASE pc[h] = "blocked" /\ opOf[h] = cur.owner /\ x = "nil"
    <3>1. PICK e \in [0..Len(ops) -> 0..MaxBytes], b \in [0..Len(ops) -> 0..BufSize] :
            Layout(ops, e, b, Len(out), 0, accepted, r) /\ Waits(e)
      BY <2>3 DEF Done
    <3>2. e[0] = Len(out)
      BY <3>1 DEF Layout
    <3>3. opOf[h] \in Callers /\ cur.owner \in Callers
      BY <2>3, <3>1 DEF Waits
    <3>4. Covers(due[h], cur, e[0])
      <4>1. \A i \in 1..Len(ops) : ops[i].owner # opOf[h]
        BY <1>1, <2>3, <3>3 DEF Owning
      <4> QED BY <2>3, <3>1, <4>1 DEF Waits
    <3>5. due[h].written <= Len(out) /\ due[h].flushed <= IF cur.kind = "flush" THEN Len(out) ELSE 0
      BY <3>2, <3>4 DEF Covers
    <3>6. cur.kind = "flush" => durable' = Len(out)
      BY <2>3, <3>3 DEF Done
    <3> QED BY <1>4, <2>1, <3>5, <3>6
  <2> QED BY <1>1, <1>5, <2>2, <2>3 DEF Woken
<1>6. AckCovers'
  BY <1>4, <1>5 DEF AckCovers
<1> QED BY <1>2, <1>3, <1>6

\* The types after the flusher's step, whatever it does next.
LEMMA DoneType ==
  ASSUME IInv, NEW r, NEW x, Done(r, x), ops' \in Seq(Ops), cur' \in Ops, fpc' \in FlusherPCs,
         left' \in 0..MaxBytes, size' \in 0..left', emitted' = 0, win' \in Nat,
         size' > 0 /\ cur'.kind = "buffered" => win' + size' <= BufSize
  PROVE  TypeOK'
<1>1. TypeOK /\ Woken(x) /\ err' = x /\ rb' = r /\ closed' = closed
  BY WakeDoes DEF IInv
<1>2. emitted' \in 0..size'
  <2>1. MaxBytes \in Nat
    BY BytesAssumption
  <2> QED BY <2>1
<1>3. /\ pc' \in [Callers -> CallerPCs] /\ res' \in [Callers -> Errors] /\ opOf' = opOf /\ due' = due
  BY <1>1 DEF Woken
<1>4. /\ rb' \in Rings /\ rb'.length <= BufSize /\ (BufSize > 0 => rb'.start \in Slots)
      /\ err' \in {"nil", "fail"} /\ accepted' = accepted /\ out' = out /\ durable' \in 0..Len(out')
  BY <1>1 DEF Done
<1> QED BY <1>1, <1>2, <1>3, <1>4 DEF TypeOK

\* The flusher leaves its loop: everybody is woken.
LEMMA ExitKeeps ==
  ASSUME IInv, NEW r, NEW x, Done(r, x), x # "nil" \/ closed
  PROVE  IInv'
<1>1. /\ TypeOK /\ Woken(x) /\ err' = x /\ rb' = r /\ closed' = closed /\ Exit
      /\ OutInOrder' /\ AckCovers' /\ Owed'
  BY WakeDoes, DoneRest DEF IInv
<1>2. NoOp.kind = "flush" /\ NoOp.owner = NoCaller /\ NoOp \in Ops /\ NoCaller \notin Callers /\ MaxBytes \in Nat
  BY BytesAssumption, CallersAssumption DEF NoOp, FlushOp, Ops
<1>3. fpc' = "exited" /\ ops' = <<>> /\ cur' = NoOp /\ win' = 0 /\ size' = 0 /\ left' = 0 /\ emitted' = 0
  BY <1>1, <1>2 DEF Exit, Window
<1>4. TypeOK'
  <2>1. /\ ops' \in Seq(Ops) /\ cur' \in Ops /\ fpc' \in FlusherPCs /\ cur'.kind # "buffered"
    BY <1>2, <1>3 DEF FlusherPCs
  <2>2. left' \in 0..MaxBytes /\ size' \in 0..left' /\ emitted' = 0 /\ win' \in Nat
    BY <1>2, <1>3
  <2> QED BY <2>1, <2>2, DoneType
<1>5. Account'
  BY <1>3 DEF Account
<1>6. Owning'
  BY <1>2, <1>3 DEF Owning, OwnerBlocked
<1>7. AtWork'
  BY <1>2, <1>3 DEF AtWork
<1>8. \A h \in Callers : pc'[h] # "blocked"
  BY <1>1 DEF Woken
<1>9. Gone'
  BY <1>1, <1>3, <1>8 DEF Gone
<1> QED BY <1>1, <1>4, <1>5, <1>6, <1>7, <1>9 DEF IInv

\* The list q is the rest of the stream, and those who stay blocked wait for it.
Queued(q, e, b, r) ==
  /\ q \in Seq(Ops) /\ Layout(q, e, b, Len(out), 0, accepted, r)
  /\ \A h \in Callers : pc[h] = "blocked" /\ opOf[h] # cur.owner =>
       /\ opOf[h] \in Callers
       /\ \E i \in 1..Len(q) : q[i].owner = opOf[h] /\ Covers(due[h], q[i], e[i])
  /\ \A i \in 1..Len(q) : q[i].owner \in Callers =>
       /\ q[i].owner # cur.owner /\ pc[q[i].owner] = "blocked" /\ opOf[q[i].owner] = q[i].owner
       /\ \A j \in 1..Len(q) : q[j].owner = q[i].owner => i = j

\* The same when o has been taken from it, and p is left.
Taken(o, p, e, b, r) ==
  /\ o \in Ops /\ Placed(o, Len(out), 0, r)
  /\ p \in Seq(Ops) /\ Layout(p, e, b, Len(out) + o.length, InRing(o), accepted, r)
  /\ \A h \in Callers : pc[h] = "blocked" /\ opOf[h] # cur.owner =>
       /\ opOf[h] \in Callers
       /\ \/ o.owner = opOf[h] /\ Covers(due[h], o, e[0])
          \/ \E i \in 1..Len(p) : p[i].owner = opOf[h] /\ Covers(due[h], p[i], e[i])
  /\ o.owner \in Callers => o.owner # cur.owner /\ pc[o.owner] = "blocked" /\ opOf[o.owner] = o.owner
  /\ \A i \in 1..Len(p) : p[i].owner \in Callers =>
       /\ p[i].owner # cur.owner /\ pc[p[i].owner] = "blocked" /\ opOf[p[i].owner] = p[i].owner
       /\ p[i].owner # o.owner
       /\ \A j \in 1..Len(p) : p[j].owner = p[i].owner => i = j

LEMMA QueueTaken ==
  ASSUME NEW q, NEW e, NEW b, NEW r, Queued(q, e, b, r), q # <<>>
  PROVE  \E f, c : Taken(Head(q), Tail(q), f, c, r)
<1>1. PICK X, Z, L, o, p : X = Len(out) /\ Z = accepted /\ L = Len(q) /\ o = Head(q) /\ p = Tail(q)
  OBVIOUS
<1>2. q \in Seq(Ops) /\ Layout(q, e, b, X, 0, Z, r)
  BY <1>1 DEF Queued
<1>3. PICK f \in [0..(L - 1) -> 0..MaxBytes], c \in [0..(L - 1) -> 0..BufSize] :
        /\ p \in Seq(Ops) /\ Len(p) = L - 1 /\ \A i \in 1..(L - 1) : p[i] = q[i + 1]
        /\ o \in Ops /\ o = q[1] /\ L \in Nat /\ 1 \in 1..L /\ Placed(o, X, 0, r)
        /\ Layout(p, f, c, X + o.length, 0 + InRing(o), Z, r)
        /\ \A i \in 0..(L - 1) : f[i] = e[i + 1]
  <2>1. Popped(q, L, o, p, e, X, 0, Z, r)
    BY <1>1, <1>2, LayoutPop
  <2> QED BY <2>1 DEF Popped
<1>4. 0 + InRing(o) = InRing(o)
  <2>1. InRing(o) \in Nat
    BY <1>3, BytesAssumption DEF InRing, Ops
  <2> QED BY <2>1
<1>5. \A i \in 1..(L - 1) : i + 1 \in 1..L /\ i \in 0..(L - 1) /\ p[i] = q[i + 1] /\ f[i] = e[i + 1]
  BY <1>3
<1>6. ASSUME NEW h \in Callers, pc[h] = "blocked", opOf[h] # cur.owner
      PROVE  /\ opOf[h] \in Callers
             /\ \/ o.owner = opOf[h] /\ Covers(due[h], o, f[0])
                \/ \E i \in 1..(L - 1) : p[i].owner = opOf[h] /\ Covers(due[h], p[i], f[i])
  <2>1. opOf[h] \in Callers
    BY <1>6 DEF Queued
  <2>2. PICK j \in 1..L : q[j].owner = opOf[h] /\ Covers(due[h], q[j], e[j])
    BY <1>1, <1>6 DEF Queued
  <2>3. CASE j = 1
    <3>1. 0 \in 0..(L - 1) /\ 0 + 1 = 1
      BY <1>3
    <3>2. f[0] = e[1]
      BY <1>3, <3>1
    <3> QED BY <1>3, <2>1, <2>2, <2>3, <3>2
  <2>4. CASE j # 1
    <3>1. PICK i \in 1..(L - 1) : j = i + 1
      <4>1. L \in Nat
        BY <1>3
      <4>2. j - 1 \in 1..(L - 1) /\ j = (j - 1) + 1
        BY <2>4, <4>1
      <4> QED BY <4>2
    <3> QED BY <1>5, <2>1, <2>2, <3>1
  <2> QED BY <2>3, <2>4
<1>7. \A i \in 1..L : q[i].owner \in Callers =>
        /\ q[i].owner # cur.owner /\ pc[q[i].owner] = "blocked" /\ opOf[q[i].owner] = q[i].owner
        /\ \A j \in 1..L : q[j].owner = q[i].owner => i = j
  BY <1>1 DEF Queued
<1>8. o.owner \in Callers => o.owner # cur.owner /\ pc[o.owner] = "blocked" /\ opOf[o.owner] = o.owner
  BY <1>3, <1>7
<1>9. ASSUME NEW i \in 1..(L - 1), p[i].owner \in Callers
      PROVE  /\ p[i].owner # cur.owner /\ pc[p[i].owner] = "blocked" /\ opOf[p[i].owner] = p[i].owner
             /\ p[i].owner # o.owner
             /\ \A j \in 1..(L - 1) : p[j].owner = p[i].owner => i = j
  <2>1. PICK k \in 1..L : k = i + 1
    BY <1>5
  <2>2. p[i] = q[k] /\ k # 1
    BY <1>5, <2>1
  <2>3. p[i].owner # cur.owner /\ pc[p[i].owner] = "blocked" /\ opOf[p[i].owner] = p[i].owner
    BY <1>7, <1>9, <2>2
  <2>4. p[i].owner # o.owner
    BY <1>3, <1>7, <1>9, <2>2
  <2>5. ASSUME NEW j \in 1..(L - 1), p[j].owner = p[i].owner PROVE i = j
    <3>1. j + 1 \in 1..L /\ p[j] = q[j + 1]
      BY <1>5
    <3>2. k = j + 1
      BY <1>7, <1>9, <2>2, <2>5, <3>1
    <3> QED BY <2>1, <3>2
  <2> QED BY <2>3, <2>4, <2>5
<1>10. Taken(o, p, f, c, r)
  <2>1. Placed(o, Len(out), 0, r) /\ Layout(p, f, c, Len(out) + o.length, InRing(o), accepted, r) /\ o \in Ops /\ p \in Seq(Ops)
    BY <1>1, <1>3, <1>4
  <2>2. Len(p) = L - 1
    BY <1>3
  <2> QED BY <1>6, <1>8, <1>9, <2>1, <2>2 DEF Taken
<1> QED BY <1>1, <1>10

\* An empty bufferedOp is skipped.
LEMMA EmptySkipped ==
  ASSUME TypeOK, NEW o, NEW p, NEW e, NEW b, NEW r, Taken(o, p, e, b, r), o.kind = "buffered", o.length = 0
  PROVE  Queued(p, e, b, r)
<1>1. o.owner \notin Callers /\ InRing(o) = 0
  BY CallersAssumption DEF Taken, Placed, InRing
<1>2. Len(out) + o.length = Len(out)
  BY DEF TypeOK
<1>3. Layout(p, e, b, Len(out), 0, accepted, r) /\ p \in Seq(Ops)
  BY <1>1, <1>2 DEF Taken
<1> QED BY <1>1, <1>3 DEF Taken, Queued

\* The list is empty: the flusher waits.
LEMMA WaitKeeps ==
  ASSUME IInv, NEW r, NEW x, Done(r, x), x = "nil", ~closed, NEW e, NEW b, Queued(<<>>, e, b, r),
         fpc' = "wait", ops' = <<>>, cur' = NoOp, Window(r, NoOp, 0)
  PROVE  IInv'
<1>1. /\ TypeOK /\ Woken(x) /\ err' = x /\ rb' = r /\ closed' = closed
      /\ OutInOrder' /\ AckCovers' /\ Owed'
  BY WakeDoes, DoneRest DEF IInv
<1>2. NoOp.kind = "flush" /\ NoOp.owner = NoCaller /\ NoOp \in Ops /\ NoCaller \notin Callers /\ MaxBytes \in Nat
  BY BytesAssumption, CallersAssumption DEF NoOp, FlushOp, Ops
<1>3. win' = 0 /\ size' = 0 /\ left' = 0 /\ emitted' = 0 /\ out' = out /\ accepted' = accepted
  BY <1>2 DEF Window, Done
<1>4. TypeOK'
  <2>1. /\ ops' \in Seq(Ops) /\ cur' \in Ops /\ fpc' \in FlusherPCs /\ cur'.kind # "buffered"
    BY <1>2 DEF FlusherPCs
  <2>2. left' \in 0..MaxBytes /\ size' \in 0..left' /\ emitted' = 0 /\ win' \in Nat
    BY <1>2, <1>3
  <2> QED BY <2>1, <2>2, DoneType
<1>5. \A h \in Callers : pc'[h] # "blocked"
  <2>1. \A h \in Callers : ~(pc[h] = "blocked" /\ opOf[h] # cur.owner)
    BY DEF Queued
  <2> QED BY <1>1, <2>1 DEF Woken
<1>6. Account'
  <2>1. Len(out') + left' - emitted' = Len(out) /\ OfCur' = 0
    BY <1>1, <1>2, <1>3 DEF OfCur, TypeOK
  <2>2. Layout(ops', e, b, Len(out') + left' - emitted', OfCur', accepted', rb')
    BY <1>1, <1>3, <2>1 DEF Queued
  <2>3. e \in [0..Len(ops') -> 0..MaxBytes] /\ b \in [0..Len(ops') -> 0..BufSize]
    BY <2>2 DEF Layout
  <2>4. Waits(e)'
    BY <1>5 DEF Waits
  <2> QED BY <2>2, <2>3, <2>4 DEF Account
<1>7. Owning'
  BY <1>2 DEF Owning, OwnerBlocked
<1>8. AtWork'
  BY <1>2, <1>3 DEF AtWork
<1>9. Gone'
  BY <1>1 DEF Gone
<1> QED BY <1>1, <1>4, <1>6, <1>7, <1>8, <1>9 DEF IInv

\* What one underlying Write is given of the ring lies before the wrap around.
LEMMA PartFits ==
  ASSUME NEW r, r \in Rings, r.length <= BufSize, BufSize > 0, r.start \in Slots, NEW l \in Nat
  PROVE  /\ PeekStart(r, 0) = r.start /\ r.start \in Nat
         /\ Part(r, l) \in 0..l /\ r.start + Part(r, l) <= BufSize
<1>1. RingOK(r)
  BY BufSizeAssumption DEF RingOK, Rings
<1>2. PICK s, L, B : s = r.start /\ L = r.length /\ B = BufSize
  OBVIOUS
<1>3. s \in 0..(B - 1) /\ L \in 0..B /\ B \in Nat /\ B > 0
  BY <1>1, <1>2, BufSizeAssumption DEF RingOK, Slots
<1>4. PeekStart(r, 0) = s
  <2>1. s + 0 = s /\ s \in 0..(2 * B - 1)
    BY <1>3
  <2>2. WrapsOnce(s)
    BY <1>1, <1>2, <2>1, Wrap
  <2> QED BY <1>2, <1>3, <2>1, <2>2 DEF PeekStart, WrapsOnce
<1>5. Part(r, l) = Smaller(l, Smaller(L - 0, B - s))
  BY <1>2, <1>4 DEF Part, PeekLen
<1>6. PICK m : m = Part(r, l)
  OBVIOUS
<1>7. m \in 0..l /\ s + m <= B
  BY <1>3, <1>5, <1>6 DEF Smaller
<1> QED BY <1>2, <1>3, <1>4, <1>6, <1>7

\* The flusher takes o and unlocks for the underlying call.
LEMMA TakeKeeps ==
  ASSUME IInv, NEW r, NEW x, Done(r, x), x = "nil", ~closed,
         NEW o, NEW p, NEW e, NEW b, Taken(o, p, e, b, r),
         fpc' = IF o.kind = "flush" THEN "flush" ELSE "write", ops' = p, cur' = o, Window(r, o, o.length)
  PROVE  IInv'
<1>1. /\ TypeOK /\ Woken(x) /\ err' = x /\ rb' = r /\ closed' = closed
      /\ OutInOrder' /\ AckCovers' /\ Owed'
  BY WakeDoes, DoneRest DEF IInv
<1>2. PICK l, n : l = o.length /\ n = Len(out)
  OBVIOUS
<1>3. /\ MaxBytes \in Nat /\ l \in 0..MaxBytes /\ l \in Nat /\ n \in Nat
      /\ o.kind \in {"buffered", "flush", "buf"} /\ o.first \in Nat
  <2>1. MaxBytes \in Nat /\ n \in Nat /\ o \in Ops
    BY <1>1, <1>2, BytesAssumption DEF TypeOK, Taken
  <2> QED BY <1>2, <2>1 DEF Ops
<1>4. /\ win' = (IF o.kind = "buffered" THEN PeekStart(r, 0) ELSE 0)
      /\ size' = (IF o.kind = "buffered" THEN Part(r, l) ELSE l)
      /\ left' = l /\ emitted' = 0 /\ out' = out /\ accepted' = accepted
  BY <1>2 DEF Window, Done
<1>5. Placed(o, n, 0, r)
  BY <1>2 DEF Taken
<1>6. ASSUME o.kind = "buffered"
      PROVE  BufSize > 0 /\ win' = r.start /\ win' \in Nat /\ size' \in 0..l /\ win' + size' <= BufSize
  <2>1. BufSize > 0
    BY <1>5, <1>6 DEF Placed
  <2>2. r \in Rings /\ r.length <= BufSize /\ r.start \in Slots
    BY <2>1 DEF Done
  <2>3. PeekStart(r, 0) = r.start /\ r.start \in Nat /\ Part(r, l) \in 0..l /\ r.start + Part(r, l) <= BufSize
    BY <1>3, <2>1, <2>2, PartFits
  <2> QED BY <1>4, <1>6, <2>1, <2>3
<1>7. ASSUME o.kind # "buffered" PROVE win' = 0 /\ size' = l
  BY <1>4, <1>7
<1>8. TypeOK'
  <2>1. ops' \in Seq(Ops) /\ cur' \in Ops /\ fpc' \in FlusherPCs
    BY DEF Taken, FlusherPCs
  <2>2. left' \in 0..MaxBytes /\ emitted' = 0
    BY <1>3, <1>4
  <2>3. size' \in 0..left' /\ win' \in Nat
    BY <1>3, <1>4, <1>6, <1>7
  <2>4. size' > 0 /\ cur'.kind = "buffered" => win' + size' <= BufSize
    BY <1>6
  <2> QED BY <2>1, <2>2, <2>3, <2>4, DoneType
<1>9. Waits(e)'
  <2>1. ASSUME NEW h \in Callers, pc'[h] = "blocked"
        PROVE  /\ opOf[h] \in Callers
               /\ \/ o.owner = opOf[h] /\ Covers(due[h], o, e[0])
                  \/ \E i \in 1..Len(p) : p[i].owner = opOf[h] /\ Covers(due[h], p[i], e[i])
    <3>1. pc[h] = "blocked" /\ opOf[h] # cur.owner
      BY <1>1, <2>1 DEF Woken
    <3> QED BY <3>1 DEF Taken
  <2>2. opOf' = opOf /\ due' = due
    BY <1>1 DEF Woken
  <2> QED BY <2>1, <2>2 DEF Waits
<1>10. Account'
  <2>1. Len(out') + left' - emitted' = Len(out) + o.length
    BY <1>2, <1>3, <1>4
  <2>2. OfCur' = InRing(o)
    BY <1>2, <1>4 DEF OfCur, InRing
  <2>3. Layout(ops', e, b, Len(out') + left' - emitted', OfCur', accepted', rb')
    BY <1>1, <1>4, <2>1, <2>2 DEF Taken
  <2>4. e \in [0..Len(ops') -> 0..MaxBytes] /\ b \in [0..Len(ops') -> 0..BufSize]
    BY <2>3 DEF Layout
  <2> QED BY <1>9, <2>3, <2>4 DEF Account
<1>11. ASSUME NEW h \in Callers, h # cur.owner, pc[h] = "blocked", opOf[h] = h
       PROVE  pc'[h] = "blocked" /\ opOf'[h] = h
  <2>1. opOf[h] # cur.owner
    BY <1>11
  <2> QED BY <1>1, <1>11, <2>1 DEF Woken
<1>12. Owning'
  <2>1. OwnerBlocked(pc', opOf', o.owner)
    BY <1>11 DEF OwnerBlocked, Taken
  <2>2. \A i \in 1..Len(p) : OwnerBlocked(pc', opOf', p[i].owner)
    BY <1>11 DEF OwnerBlocked, Taken
  <2>3. \A i \in 1..Len(p) : p[i].owner \in Callers =>
          p[i].owner # o.owner /\ \A j \in 1..Len(p) : p[j].owner = p[i].owner => i = j
    BY DEF Taken
  <2> QED BY <2>1, <2>2, <2>3 DEF Owning
<1>13. AtWork'
  <2>1. fpc' \notin {"ready", "wait", "exited"} /\ (fpc' = "flush" => o.kind = "flush") /\ (fpc' = "write" => o.kind # "flush")
    OBVIOUS
  <2>2. o.kind = "flush" => l = 0
    BY <1>2, <1>5 DEF Placed
  <2>3. o.kind = "buf" => size' = l /\ o.first + 0 = n + 1
    <3>1. o.kind = "buf" => o.first = n + 1
      BY <1>5 DEF Placed
    <3> QED BY <1>3, <1>7, <3>1
  <2>4. ASSUME o.kind = "buffered"
        PROVE  o.owner = NoCaller /\ \A k \in 1..l : At(r, k) = (n - 0) + k
    <3>1. o.owner = NoCaller /\ \A k \in 1..l : At(r, 0 + k) = n + k
      BY <1>2, <1>5, <2>4 DEF Placed
    <3>2. n - 0 = n /\ \A k \in 1..l : 0 + k = k
      BY <1>3
    <3> QED BY <3>1, <3>2
  <2>5. cur'.kind = "buffered" =>
          /\ BufSize > 0 /\ cur'.owner = NoCaller /\ win' = rb'.start /\ win' + size' <= BufSize
          /\ \A k \in 1..left' : At(rb', k) = (Len(out') - emitted') + k
    BY <1>1, <1>2, <1>4, <1>6, <2>4
  <2>6. cur'.kind = "buf" => size' = left' /\ cur'.first + emitted' = Len(out') + 1
    BY <1>2, <1>4, <2>3
  <2> QED BY <1>3, <1>4, <2>1, <2>2, <2>5, <2>6 DEF AtWork
<1>14. Gone'
  BY <1>1 DEF Gone
<1> QED BY <1>1, <1>8, <1>10, <1>12, <1>13, <1>14 DEF IInv

\* When the current operation is over, the invariant is kept whatever comes next.
LEMMA OpDoneKeeps ==
  ASSUME IInv, NEW r, NEW x, Done(r, x)
  PROVE  IInv'
<1>1. CASE x # "nil" \/ closed
  BY <1>1, ExitKeeps
<1>2. CASE x = "nil" /\ ~closed
  <2>1. TypeOK /\ Owning /\ Begin(r)
    BY <1>2, WakeDoes DEF IInv
  <2>2. PICK e, b : Queued(ops, e, b, r)
    <3>1. PICK e \in [0..Len(ops) -> 0..MaxBytes], b \in [0..Len(ops) -> 0..BufSize] :
            Layout(ops, e, b, Len(out), 0, accepted, r) /\ Waits(e)
      BY <1>2 DEF Done
    <3>2. ops \in Seq(Ops)
      BY <2>1 DEF TypeOK
    <3>3. \A h \in Callers : pc[h] = "blocked" /\ opOf[h] # cur.owner =>
            /\ opOf[h] \in Callers
            /\ \E i \in 1..Len(ops) : ops[i].owner = opOf[h] /\ Covers(due[h], ops[i], e[i])
      BY <3>1 DEF Waits
    <3>4. \A i \in 1..Len(ops) : ops[i].owner \in Callers =>
            /\ ops[i].owner # cur.owner /\ pc[ops[i].owner] = "blocked" /\ opOf[ops[i].owner] = ops[i].owner
            /\ \A j \in 1..Len(ops) : ops[j].owner = ops[i].owner => i = j
      BY <2>1 DEF Owning, OwnerBlocked
    <3> QED BY <3>1, <3>2, <3>3, <3>4 DEF Queued
  <2>3. PICK empty \in BOOLEAN : empty = (ops # <<>> /\ Head(ops).kind = "buffered" /\ Head(ops).length = 0)
    OBVIOUS
  <2>4. PICK q : q = IF empty THEN Tail(ops) ELSE ops
    OBVIOUS
  <2>5. \/ q = <<>> /\ fpc' = "wait" /\ ops' = q /\ cur' = NoOp /\ Window(r, NoOp, 0)
        \/ /\ q # <<>> /\ fpc' = (IF Head(q).kind = "flush" THEN "flush" ELSE "write")
           /\ ops' = Tail(q) /\ cur' = Head(q) /\ Window(r, cur', cur'.length)
    BY <2>1, <2>3, <2>4 DEF Begin
  <2>6. PICK f, c : Queued(q, f, c, r)
    <3>1. CASE empty
      <4>1. ops # <<>> /\ Head(ops).kind = "buffered" /\ Head(ops).length = 0
        BY <2>3, <3>1
      <4>2. PICK f, c : Taken(Head(ops), Tail(ops), f, c, r)
        BY <2>2, <4>1, QueueTaken
      <4>3. Queued(Tail(ops), f, c, r)
        BY <2>1, <4>1, <4>2, EmptySkipped
      <4> QED BY <2>4, <3>1, <4>3
    <3>2. CASE ~empty
      BY <2>2, <2>4, <3>2
    <3> QED BY <3>1, <3>2
  <2>7. CASE q = <<>>
    <3>1. fpc' = "wait" /\ ops' = <<>> /\ cur' = NoOp /\ Window(r, NoOp, 0)
      BY <2>5, <2>7
    <3> QED BY <1>2, <2>6, <2>7, <3>1, WaitKeeps
  <2>8. CASE q # <<>>
    <3>1. PICK o, p : o = Head(q) /\ p = Tail(q)
      OBVIOUS
    <3>2. fpc' = (IF o.kind = "flush" THEN "flush" ELSE "write") /\ ops' = p /\ cur' = o /\ Window(r, o, o.length)
      BY <2>5, <2>8, <3>1
    <3>3. PICK u, v : Taken(o, p, u, v, r)
      BY <2>6, <2>8, <3>1, QueueTaken
    <3> QED BY <1>2, <3>2, <3>3, TakeKeeps
  <2> QED BY <2>7, <2>8
<1>3. (x = "nil" /\ ~closed) \/ (x # "nil" \/ closed)
  OBVIOUS
<1> QED BY <1>1, <1>2, <1>3

\* The flusher starts or is signalled: nothing was under way.
LEMMA ResumeKeeps ==
  ASSUME IInv, Resume
  PROVE  IInv'
<1>1. TypeOK /\ Account /\ AtWork /\ fpc = "ready" /\ OpDone(rb, "nil") /\ UNCHANGED <<accepted, out, durable>>
  BY DEF IInv, Resume, hvars
<1>2. left = 0 /\ emitted = 0 /\ cur = NoOp
  <2>1. left = 0 /\ cur = NoOp
    BY <1>1 DEF AtWork
  <2> QED BY <1>1, <2>1 DEF TypeOK
<1>3. NoOp.kind = "flush" /\ NoOp.owner \notin Callers
  BY CallersAssumption DEF NoOp, FlushOp
<1>4. Len(out) + left - emitted = Len(out) /\ OfCur = 0
  BY <1>1, <1>2, <1>3 DEF OfCur, TypeOK
<1>5. PICK e \in [0..Len(ops) -> 0..MaxBytes], b \in [0..Len(ops) -> 0..BufSize] :
        Layout(ops, e, b, Len(out), 0, accepted, rb) /\ Waits(e)
  BY <1>1, <1>4 DEF Account
<1>6. durable' \in 0..Len(out) /\ durable <= durable'
  BY <1>1 DEF TypeOK
<1>7. Done(rb, "nil")
  BY <1>1, <1>2, <1>3, <1>5, <1>6 DEF Done, TypeOK
<1> QED BY <1>7, OpDoneKeeps

\* The underlying Flush returns: on success, all that was written is durable.
LEMMA FlushReturnKeeps ==
  ASSUME IInv, NEW x \in {"nil", "fail"}, FlushReturn(x)
  PROVE  IInv'
<1>1. TypeOK /\ Account /\ AtWork /\ fpc = "flush" /\ OpDone(rb, x) /\ UNCHANGED <<accepted, out>>
  BY DEF IInv, FlushReturn
<1>2. left = 0 /\ emitted = 0 /\ cur.kind = "flush"
  <2>1. left = 0 /\ cur.kind = "flush"
    BY <1>1 DEF AtWork
  <2> QED BY <1>1, <2>1 DEF TypeOK
<1>3. Len(out) + left - emitted = Len(out) /\ OfCur = 0
  BY <1>1, <1>2 DEF OfCur, TypeOK
<1>4. PICK e \in [0..Len(ops) -> 0..MaxBytes], b \in [0..Len(ops) -> 0..BufSize] :
        Layout(ops, e, b, Len(out), 0, accepted, rb) /\ Waits(e)
  BY <1>1, <1>3 DEF Account
<1>5. durable' \in 0..Len(out) /\ durable <= durable' /\ (x = "nil" => durable' = Len(out))
  BY <1>1 DEF TypeOK, FlushReturn
<1>6. Done(rb, x)
  BY <1>1, <1>4, <1>5 DEF Done, TypeOK
<1> QED BY <1>6, OpDoneKeeps

\* What the ring and the layout are once the bytes that Write took are consumed.
AfterWrite(r, Y) ==
  /\ r \in Rings /\ r.length <= BufSize /\ (BufSize > 0 => r.start \in Slots)
  /\ cur.kind = "buffered" => \A k \in 1..(left - emitted) : At(r, k) = At(rb, emitted + k)
  /\ \E e \in [0..Len(ops) -> 0..MaxBytes], b \in [0..Len(ops) -> 0..BufSize] :
       Layout(ops, e, b, Len(out) + left - emitted, Y, accepted, r) /\ Waits(e)

LEMMA ConsumedFits ==
  ASSUME IInv, fpc = "write"
  PROVE  AfterWrite(Consumed, IF cur.kind = "buffered" THEN left - emitted ELSE 0)
<1>1. TypeOK /\ Account /\ AtWork
  BY DEF IInv
<1>2. PICK X : X = Len(out) + left - emitted
  OBVIOUS
<1>3. PICK e \in [0..Len(ops) -> 0..MaxBytes], b \in [0..Len(ops) -> 0..BufSize] :
        Layout(ops, e, b, X, OfCur, accepted, rb) /\ Waits(e)
  BY <1>1, <1>2 DEF Account
<1>4. ops \in Seq(Ops) /\ emitted \in Nat /\ left \in Nat /\ emitted <= left /\ BufSize \in Nat
  <2>1. left \in 0..MaxBytes /\ size \in 0..left /\ emitted \in 0..size /\ ops \in Seq(Ops)
    BY <1>1 DEF TypeOK
  <2> QED BY <2>1, BytesAssumption, BufSizeAssumption
<1>5. CASE cur.kind # "buffered"
  <2>1. Consumed = rb /\ OfCur = 0
    BY <1>5 DEF Consumed, OfCur
  <2>2. rb \in Rings /\ rb.length <= BufSize /\ (BufSize > 0 => rb.start \in Slots)
    BY <1>1 DEF TypeOK
  <2> QED BY <1>2, <1>3, <1>5, <2>1, <2>2 DEF AfterWrite
<1>6. CASE cur.kind = "buffered"
  <2>1. Consumed = Consume(rb, emitted) /\ OfCur = left
    BY <1>6 DEF Consumed, OfCur
  <2>2. RingOK(rb)
    BY <1>1, <1>4, <1>6 DEF RingOK, TypeOK, Rings, AtWork
  <2>3. PICK R \in Nat : R = rb.length
    BY <2>2 DEF RingOK
  <2>4. left <= R
    BY <1>3, <1>4, <2>1, <2>3, LayoutParts
  <2>5. emitted <= R
    BY <1>4, <2>3, <2>4
  <2>6. PICK r : r = Consume(rb, emitted)
    OBVIOUS
  <2>7. RingOK(r) /\ r.length = R - emitted /\ \A i \in 1..(R - emitted) : At(r, i) = At(rb, emitted + i)
    BY <1>4, <2>2, <2>3, <2>5, <2>6, ConsumeDrops
  <2>8. \A k \in 1..(left - emitted) : At(r, k) = At(rb, emitted + k)
    <3>1. \A k \in 1..(left - emitted) : k \in 1..(R - emitted)
      BY <1>4, <2>3, <2>4
    <3> QED BY <2>7, <3>1
  <2>9. PICK c \in [0..Len(ops) -> 0..BufSize] : Layout(ops, e, c, X, left - emitted, accepted, r)
    <3>1. PICK Z, L, z : Z = accepted /\ L = Len(ops) /\ z = rb
      OBVIOUS
    <3>2. Layout(ops, e, b, X, left, Z, z) /\ r.length = z.length - emitted
          /\ \A i \in 1..(z.length - emitted) : At(r, i) = At(z, emitted + i)
      BY <1>3, <2>1, <2>3, <2>7, <3>1
    <3>3. \E c \in [0..L -> 0..BufSize] : Layout(ops, e, c, X, left - emitted, Z, r)
      BY <1>4, <3>1, <3>2, LayoutConsume
    <3> QED BY <3>1, <3>3
  <2>10. r \in Rings /\ r.length <= BufSize /\ r.start \in Slots
    BY <1>4, <2>7 DEF RingOK
  <2> QED BY <1>2, <1>3, <1>6, <2>1, <2>6, <2>8, <2>9, <2>10 DEF AfterWrite
<1> QED BY <1>5, <1>6

\* The underlying Write returned and there is more of the bufferedOp, after the wrap
\* around: the next slice is where the ring now starts.
LEMMA MoreKeeps ==
  ASSUME IInv, fpc = "write", cur.kind = "buffered", left > emitted, rb' = Consumed,
         Window(Consumed, cur, left - emitted), UNCHANGED <<closed, err, ops, fpc, cur, cvars, hvars>>
  PROVE  IInv'
<1>1. TypeOK /\ OutInOrder /\ AckCovers /\ Account /\ Owning /\ AtWork /\ Gone /\ Owed
  BY DEF IInv
<1>2. PICK r, l, n : r = Consumed /\ l = left - emitted /\ n = Len(out)
  OBVIOUS
<1>3. AfterWrite(r, l)
  BY <1>2, ConsumedFits
<1>4. /\ MaxBytes \in Nat /\ BufSize \in Nat /\ BufSize > 0 /\ l \in 0..MaxBytes /\ l \in Nat /\ n \in Nat
      /\ emitted \in Nat /\ left \in Nat
  <2>1. left \in 0..MaxBytes /\ size \in 0..left /\ emitted \in 0..size /\ n \in Nat /\ BufSize > 0
    BY <1>1, <1>2 DEF TypeOK, AtWork
  <2> QED BY <1>2, <2>1, BytesAssumption, BufSizeAssumption
<1>5. /\ r \in Rings /\ r.length <= BufSize /\ r.start \in Slots
      /\ \A k \in 1..l : At(r, k) = At(rb, emitted + k)
  BY <1>2, <1>3, <1>4 DEF AfterWrite
<1>6. /\ PeekStart(r, 0) = r.start /\ r.start \in Nat /\ Part(r, l) \in 0..l /\ r.start + Part(r, l) <= BufSize
  BY <1>4, <1>5, PartFits
<1>7. /\ win' = r.start /\ size' = Part(r, l) /\ left' = l /\ emitted' = 0 /\ rb' = r
      /\ closed' = closed /\ err' = err /\ ops' = ops /\ fpc' = fpc /\ cur' = cur
      /\ pc' = pc /\ opOf' = opOf /\ res' = res /\ due' = due /\ accepted' = accepted /\ out' = out /\ durable' = durable
  BY <1>2, <1>6 DEF Window, cvars, hvars
<1>8. TypeOK'
  <2>1. size' \in 0..left' /\ emitted' \in 0..size' /\ left' \in 0..MaxBytes /\ win' \in Nat /\ win' + size' <= BufSize
    BY <1>4, <1>6, <1>7
  <2>2. rb' \in Rings /\ rb'.length <= BufSize /\ (BufSize > 0 => rb'.start \in Slots)
    BY <1>5, <1>7
  <2> QED BY <1>1, <1>7, <2>1, <2>2 DEF TypeOK
<1>9. Account'
  <2>1. Len(out') + left' - emitted' = Len(out) + left - emitted /\ OfCur' = l
    BY <1>2, <1>4, <1>7 DEF OfCur
  <2>2. PICK e \in [0..Len(ops) -> 0..MaxBytes], b \in [0..Len(ops) -> 0..BufSize] :
          Layout(ops, e, b, Len(out) + left - emitted, l, accepted, r) /\ Waits(e)
    BY <1>3 DEF AfterWrite
  <2>3. Waits(e)'
    BY <1>7, <2>2 DEF Waits
  <2> QED BY <1>7, <2>1, <2>2, <2>3 DEF Account
<1>10. AtWork'
  <2>1. ASSUME NEW k \in 1..l PROVE At(r, k) = (n - 0) + k
    <3>1. emitted + k \in 1..left
      BY <1>2, <1>4
    <3>2. At(rb, emitted + k) = (n - emitted) + (emitted + k)
      BY <1>1, <1>2, <3>1 DEF AtWork
    <3>3. (n - emitted) + (emitted + k) = (n - 0) + k
      BY <1>4
    <3> QED BY <1>5, <3>2, <3>3
  <2>2. BufSize > 0 /\ cur.owner = NoCaller
    BY <1>1 DEF AtWork
  <2> QED BY <1>2, <1>6, <1>7, <2>1, <2>2 DEF AtWork
<1>11. OutInOrder' /\ AckCovers' /\ Owning' /\ Gone' /\ Owed'
  BY <1>1, <1>7 DEF OutInOrder, AckCovers, Owning, Gone, Owed
<1> QED BY <1>8, <1>9, <1>10, <1>11 DEF IInv

\* The underlying Write returns: more of the same operation, or it is over.
LEMMA WriteReturnKeeps ==
  ASSUME IInv, NEW x \in {"nil", "fail"}, WriteReturn(x)
  PROVE  IInv'
<1>1. TypeOK /\ AtWork /\ fpc = "write" /\ (x = "nil" => emitted = size) /\ UNCHANGED hvars
  BY DEF IInv, WriteReturn
<1>2. PICK more \in BOOLEAN : more = (cur.kind = "buffered" /\ x = "nil" /\ left > emitted)
  OBVIOUS
<1>3. CASE more
  <2>1. cur.kind = "buffered" /\ left > emitted
    BY <1>2, <1>3
  <2>2. rb' = Consumed /\ Window(Consumed, cur, left - emitted) /\ UNCHANGED <<closed, err, ops, fpc, cur, cvars>>
    BY <1>2, <1>3 DEF WriteReturn
  <2> QED BY <1>1, <2>1, <2>2, MoreKeeps
<1>4. CASE ~more
  <2>1. PICK r, Y : r = Consumed /\ Y = IF cur.kind = "buffered" THEN left - emitted ELSE 0
    OBVIOUS
  <2>2. AfterWrite(r, Y)
    BY <1>1, <2>1, ConsumedFits
  <2>3. OpDone(r, x)
    BY <1>2, <1>4, <2>1 DEF WriteReturn
  <2>4. left \in Nat /\ emitted \in Nat /\ emitted <= left /\ Len(out) \in Nat
    <3>1. left \in 0..MaxBytes /\ size \in 0..left /\ emitted \in 0..size /\ Len(out) \in Nat /\ MaxBytes \in Nat
      BY <1>1, BytesAssumption DEF TypeOK
    <3> QED BY <3>1
  <2>5. ASSUME x = "nil" PROVE left = emitted /\ Y = 0 /\ Len(out) + left - emitted = Len(out)
    <3>1. CASE cur.kind = "buffered"
      <4>1. ~(left > emitted)
        BY <1>2, <1>4, <2>5, <3>1
      <4>2. left = emitted
        BY <2>4, <4>1
      <4> QED BY <2>1, <2>4, <3>1, <4>2
    <3>2. CASE cur.kind = "buf"
      <4>1. left = emitted
        BY <1>1, <2>5, <3>2 DEF AtWork
      <4> QED BY <2>1, <2>4, <3>2, <4>1
    <3> QED BY <1>1, <3>1, <3>2 DEF AtWork
  <2>6. x = "nil" =>
          \E e \in [0..Len(ops) -> 0..MaxBytes], b \in [0..Len(ops) -> 0..BufSize] :
            Layout(ops, e, b, Len(out), 0, accepted, r) /\ Waits(e)
    BY <2>2, <2>5 DEF AfterWrite
  <2>7. durable' \in 0..Len(out) /\ durable <= durable' /\ out' = out /\ accepted' = accepted
    BY <1>1 DEF TypeOK, hvars
  <2>8. cur.kind # "flush"
    BY <1>1 DEF AtWork
  <2>9. Done(r, x)
    BY <1>1, <2>2, <2>3, <2>6, <2>7, <2>8 DEF Done, AfterWrite
  <2> QED BY <2>9, OpDoneKeeps
<1> QED BY <1>3, <1>4

-----------------------------------------------------------------------------
\* Every step keeps the invariant.
LEMMA Invariance ==
  ASSUME IInv, [Next]_vars
  PROVE  IInv'
<1>1. CASE UNCHANGED vars
  <2>1. /\ UNCHANGED <<rb, closed, err, ops, fpc, cur, left, win, size, emitted>>
        /\ UNCHANGED <<pc, opOf, res, due, accepted, out, durable>>
    BY <1>1 DEF vars, bvars, xvars, cvars, hvars
  <2>2. TypeOK' /\ OutInOrder' /\ AckCovers' /\ Owning' /\ AtWork' /\ Gone' /\ Owed'
    BY <2>1 DEF IInv, TypeOK, OutInOrder, AckCovers, Owning, AtWork, Gone, Owed
  <2>3. Account'
    BY <2>1 DEF IInv, Account, OfCur, Waits
  <2> QED BY <2>2, <2>3 DEF IInv
<1>2. CASE Resume
  BY <1>2, ResumeKeeps
<1>3. CASE EmitByte
  BY <1>3, EmitByteKeeps
<1>4. ASSUME NEW x \in {"nil", "fail"}, WriteReturn(x) PROVE IInv'
  BY <1>4, WriteReturnKeeps
<1>5. ASSUME NEW x \in {"nil", "fail"}, FlushReturn(x) PROVE IInv'
  BY <1>5, FlushReturnKeeps
<1>6. ASSUME NEW g \in Callers, Call(g) PROVE IInv'
  BY <1>6, RefusedKeeps, WriteBufferedKeeps, WriteBlockingKeeps, FlushKeeps, CloseKeeps DEF Call
<1>7. ASSUME NEW g \in Callers, Return(g) PROVE IInv'
  BY <1>7, ReturnKeeps
<1> QED BY <1>1, <1>2, <1>3, <1>4, <1>5, <1>6, <1>7 DEF Next, FlusherStep

\* For a ring of any size, also none, any number of callers and any writes: the
\* underlying writer receives the stream in order although the flusher reads the
\* ring's memory without the lock, and the ring holds exactly what the bufferedOps
\* still to be performed account for, so that Append and Consume never meet their
\* panics.
THEOREM StreamIsKept == Spec => []StreamInv
<1>1. Init => IInv
  BY IInvInit
<1>2. IInv /\ [Next]_vars => IInv'
  BY Invariance
<1>3. IInv => StreamInv
  BY IInvStream
<1> QED BY <1>1, <1>2, <1>3, PTL DEF Spec

\* A blocking Write or a Flush that returns without an error has been performed, also
\* the Flush that joined the flushOp of another caller.
THEOREM AcksAreTrue == Spec => []AckCovers
<1>1. Init => IInv
  BY IInvInit
<1>2. IInv /\ [Next]_vars => IInv'
  BY Invariance
<1>3. IInv => AckCovers
  BY DEF IInv
<1> QED BY <1>1, <1>2, <1>3, PTL DEF Spec

\* After an error the flusher is gone: the underlying writer is not called again and
\* the error stays.
THEOREM FailureIsFinal == Spec => FailStop
<1>1. Init => IInv
  BY IInvInit
<1>2. IInv /\ [Next]_vars => IInv'
  BY Invariance
<1>3. IInv /\ [Next]_vars => [err # "nil" => err' = err /\ out' = out /\ durable' = durable]_vars
  <2>1. SUFFICES ASSUME IInv, Next, err # "nil" PROVE err' = err /\ out' = out /\ durable' = durable
    OBVIOUS
  <2>2. fpc = "exited"
    BY <2>1 DEF IInv, Gone
  <2>3. ~FlusherStep
    BY <2>2 DEF FlusherStep, Resume, EmitByte, WriteReturn, FlushReturn
  <2>4. PICK g \in Callers : Call(g) \/ Return(g)
    BY <2>1, <2>3 DEF Next
  <2>5. CASE Return(g)
    BY <2>5 DEF Return, bvars, hvars
  <2>6. CASE Call(g)
    BY <2>1, <2>6 DEF Call, Refused, Close, WriteBuffered, WriteBlocking, Flush, Accepting, bvars, hvars
  <2> QED BY <2>4, <2>5, <2>6
<1> QED BY <1>1, <1>2, <1>3, PTL DEF Spec, FailStop

=============================================================================
