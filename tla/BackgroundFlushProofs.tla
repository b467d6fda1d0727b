------------------------ MODULE BackgroundFlushProofs ------------------------
(***************************************************************************)
(* Proofs about BackgroundFlush for any number of callers and any capacity *)
(* of the buffers: every byte keeps its place between the buffers and the  *)
(* output, Flush covers what was buffered before it, and the writer stops  *)
(* at the first error.                                                     *)
(***************************************************************************)
EXTENDS BackgroundFlush, FiniteSetTheorems, TLAPS

-----------------------------------------------------------------------------
\* The buffer that is flushed next, the one after it, and the number of bytes
\* written out before them.
Front == bufs[flushBuf % 2]
Back == bufs[(flushBuf + 1) % 2]
Base == Len(out) - emitted

\* The goroutine works on a closed buffer, which is what it was when its Write
\* began, and it is gone after an error.
FlusherInv ==
  /\ fpc = "write" => writeBuf > flushBuf /\ size = Len(Front)
  /\ fpc # "write" => size = 0
  /\ flushErr # "nil" => fpc = "none"
  /\ Base \in Nat

\* Until an error the output, the front and the back buffer continue each other,
\* and the back buffer is empty while the front buffer is filled.
PlaceInv ==
  flushErr = "nil" =>
    /\ \A i \in 1..Len(Front) : Front[i] = Base + i
    /\ \A i \in 1..Len(Back) : Back[i] = Base + Len(Front) + i
    /\ accepted = Base + Len(Front) + Len(Back)
    /\ writeBuf = flushBuf => Back = <<>>

\* The bytes due to a Flush are in the buffers before its target.
Covered(g) ==
  /\ target[g] <= writeBuf
  /\ target[g] <= flushBuf => due[g] <= Base
  /\ target[g] = flushBuf + 1 => due[g] <= Base + Len(Front)
  /\ target[g] = flushBuf + 2 => due[g] <= accepted

DueInv ==
  \A g \in Callers :
    /\ pc[g] \in {"idle", "write", "writewait", "writewoken"} => due[g] = 0
    /\ pc[g] \in {"flush", "flushwait", "flushwoken"} /\ flushErr = "nil" => Covered(g)

\* The bytes that callers have still to buffer, as pairs, so that they can be
\* counted over all callers.
Pending == {x \in Callers \X (1..MaxBytes) : x[2] <= rest[x[1]]}
PendingInv == Cardinality(Pending) <= asked - accepted

IInv ==
  /\ TypeOK /\ FlusherInv /\ OutInOrder /\ PlaceInv
  /\ DueInv /\ FlushCovers /\ PendingInv

-----------------------------------------------------------------------------
\* Two consecutive buffers have different slots.
LEMMA Slots ==
  ASSUME NEW n \in Nat
  PROVE  /\ n % 2 \in {0, 1} /\ (n + 1) % 2 \in {0, 1}
         /\ (n + 1) % 2 # n % 2 /\ (n + 2) % 2 = n % 2
  OBVIOUS

\* What WriteSome appends to a buffer.
Run(a, n) == [i \in 1..n |-> a + i]

\* It is a sequence of n bytes of the stream.
LEMMA RunSeq ==
  ASSUME NEW a \in Nat, NEW n \in Nat, a + n <= MaxBytes
  PROVE  /\ Run(a, n) \in Seq(1..MaxBytes) /\ Len(Run(a, n)) = n
         /\ \A i \in 1..n : Run(a, n)[i] = a + i
  BY BytesAssumption DEF Run

\* The buffer after that.
LEMMA Appended ==
  ASSUME NEW s \in Seq(1..MaxBytes), NEW r \in Seq(1..MaxBytes), NEW c, c = s \o r
  PROVE  /\ c \in Seq(1..MaxBytes) /\ Len(c) = Len(s) + Len(r)
         /\ \A i \in 1..Len(s) : c[i] = s[i]
         /\ \A i \in (Len(s) + 1)..(Len(s) + Len(r)) : c[i] = r[i - Len(s)]
<1>1. \A S : s \in Seq(S) /\ r \in Seq(S) => s \o r \in Seq(S)
  OBVIOUS
<1>2. c \in Seq(1..MaxBytes)
  BY <1>1
<1>3. Len(c) = Len(s) + Len(r) /\ \A i \in 1..Len(s) : c[i] = s[i]
  OBVIOUS
<1>4. \A i \in (Len(s) + 1)..(Len(s) + Len(r)) : c[i] = r[i - Len(s)]
  OBVIOUS
<1> QED BY <1>2, <1>3, <1>4

\* The pending bytes can be counted.
LEMMA PendingFinite ==
  IsFiniteSet(Pending) /\ Cardinality(Pending) \in Nat
<1>1. IsFiniteSet(Callers \X (1..MaxBytes))
  <2>1. IsFiniteSet(1..MaxBytes)
    BY BytesAssumption, FS_Interval
  <2> QED BY <2>1, CallersAssumption, FS_Product
<1>2. Pending \in SUBSET (Callers \X (1..MaxBytes))
  BY DEF Pending
<1> QED BY <1>1, <1>2, FS_Subset, FS_CardinalityType

\* A row of pairs is as large as its interval.
LEMMA Row ==
  ASSUME NEW g, NEW a \in Nat, NEW b \in Nat, a <= b
  PROVE  IsFiniteSet({g} \X ((a + 1)..b)) /\ Cardinality({g} \X ((a + 1)..b)) = b - a
<1>1. IsFiniteSet((a + 1)..b) /\ Cardinality((a + 1)..b) = b - a
  <2>1. PICK lo \in Int : lo = a + 1
    OBVIOUS
  <2>2. IsFiniteSet(lo..b) /\ Cardinality(lo..b) = IF lo > b THEN 0 ELSE b - lo + 1
    BY FS_Interval
  <2> QED BY <2>1, <2>2
<1>2. IsFiniteSet({g}) /\ Cardinality({g}) = 1
  BY FS_Singleton
<1>3. /\ IsFiniteSet({g} \X ((a + 1)..b))
      /\ Cardinality({g} \X ((a + 1)..b)) = Cardinality({g}) * Cardinality((a + 1)..b)
  BY <1>1, <1>2, FS_Product, Zenon
<1>4. 1 * (b - a) = b - a
  OBVIOUS
<1> QED BY <1>1, <1>2, <1>3, <1>4, Zenon

\* Bytes that a caller buffers or gives up are no longer pending.
LEMMA PendingTaken ==
  ASSUME TypeOK, NEW g \in Callers, NEW n \in Nat, n <= rest[g],
         rest' = [rest EXCEPT ![g] = rest[g] - n]
  PROVE  n <= Cardinality(Pending) /\ Cardinality(Pending') = Cardinality(Pending) - n
<1> DEFINE row == {g} \X (((rest[g] - n) + 1)..rest[g])
<1>1. rest[g] \in 0..MaxBytes /\ rest[g] \in Nat /\ rest[g] - n \in Nat /\ MaxBytes \in Nat
  BY BytesAssumption DEF TypeOK
<1>2. IsFiniteSet(row) /\ Cardinality(row) = n
  <2>1. rest[g] - n <= rest[g]
    BY <1>1
  <2>2. Cardinality(row) = rest[g] - (rest[g] - n) /\ IsFiniteSet(row)
    BY <1>1, <2>1, Row, Zenon
  <2> QED BY <1>1, <2>2
<1>3. row \subseteq Pending
  BY <1>1 DEF Pending
<1>4. Pending' = Pending \ row
  <2>1. \A h \in Callers : rest'[h] = IF h = g THEN rest[g] - n ELSE rest[h]
    BY DEF TypeOK
  <2>2. ASSUME NEW x \in Callers \X (1..MaxBytes)
        PROVE  x[2] <= rest'[x[1]] <=> x[2] <= rest[x[1]] /\ x \notin row
    <3>1. PICK h \in Callers, i \in 1..MaxBytes : x = <<h, i>>
      OBVIOUS
    <3>2. CASE h = g
      BY <1>1, <2>1, <3>1, <3>2
    <3>3. CASE h # g
      BY <2>1, <3>1, <3>3
    <3> QED BY <3>2, <3>3
  <2> QED BY <2>2 DEF Pending
<1>5. Pending \cap row = row
  BY <1>3
<1>6. Cardinality(row) <= Cardinality(Pending)
  BY <1>3, PendingFinite, FS_Subset
<1>7. Cardinality(Pending \ row) = Cardinality(Pending) - Cardinality(row)
  <2>1. Cardinality(Pending \ row) = Cardinality(Pending) - Cardinality(Pending \cap row)
    BY PendingFinite, FS_Difference, Zenon
  <2> QED BY <1>5, <2>1, Zenon
<1> HIDE DEF row
<1> QED BY <1>2, <1>4, <1>6, <1>7

\* A new Write of n bytes makes at most n more pending.
LEMMA PendingAdded ==
  ASSUME TypeOK, NEW g \in Callers, NEW n \in 0..MaxBytes, rest' = [rest EXCEPT ![g] = n]
  PROVE  Cardinality(Pending') \in Nat /\ Cardinality(Pending') <= Cardinality(Pending) + n
<1> DEFINE row == {g} \X ((0 + 1)..n)
<1>1. n \in Nat /\ MaxBytes \in Nat
  BY BytesAssumption
<1>2. IsFiniteSet(row) /\ Cardinality(row) = n
  <2>1. 0 \in Nat /\ 0 <= n
    BY <1>1
  <2>2. IsFiniteSet(row) /\ Cardinality(row) = n - 0
    BY <1>1, <2>1, Row, Zenon
  <2> QED BY <1>1, <2>2
<1>3. Pending' \subseteq Pending \cup row
  <2>1. \A h \in Callers : rest'[h] = IF h = g THEN n ELSE rest[h]
    BY DEF TypeOK
  <2>2. ASSUME NEW x \in Callers \X (1..MaxBytes), x[2] <= rest'[x[1]]
        PROVE  x[2] <= rest[x[1]] \/ x \in row
    <3>1. PICK h \in Callers, i \in 1..MaxBytes : x = <<h, i>>
      OBVIOUS
    <3> QED BY <1>1, <2>1, <2>2, <3>1
  <2> QED BY <2>2 DEF Pending
<1> HIDE DEF row
<1>4. IsFiniteSet(Pending \cup row) /\ IsFiniteSet(Pending \cap row)
  BY <1>2, PendingFinite, FS_Union, FS_Intersection
<1>5. Cardinality(Pending \cup row) <= Cardinality(Pending) + n
  <2>1. /\ Cardinality(Pending \cap row) \in Nat
        /\ Cardinality(Pending \cup row)
             = Cardinality(Pending) + Cardinality(row) - Cardinality(Pending \cap row)
    BY <1>2, <1>4, PendingFinite, FS_Union, FS_CardinalityType, Zenon
  <2> QED BY <1>1, <1>2, <2>1, PendingFinite
<1>6. Cardinality(Pending') <= Cardinality(Pending \cup row) /\ Cardinality(Pending') \in Nat
  BY <1>3, <1>4, FS_Subset, FS_CardinalityType
<1>7. Cardinality(Pending \cup row) \in Nat
  BY <1>4, FS_CardinalityType
<1> QED BY <1>1, <1>5, <1>6, <1>7, PendingFinite

-----------------------------------------------------------------------------
\* A step that leaves the buffers, the goroutine and the output alone keeps what is
\* said of them, and what is said of a call if it does so for the caller that moved.
LEMMA QuietKeeps ==
  ASSUME IInv, NEW g \in Callers, UNCHANGED <<bvars, xvars, accepted, out>>,
         \A h \in Callers : h # g =>
           /\ pc'[h] = pc[h] /\ res'[h] = res[h]
           /\ target'[h] = target[h] /\ due'[h] = due[h],
         pc'[g] \in {"idle", "write", "writewait", "writewoken"} => due'[g] = 0,
         pc'[g] \in {"flush", "flushwait", "flushwoken"} /\ flushErr = "nil" => Covered(g)',
         pc'[g] = "done" /\ res'[g] = "nil" => due'[g] <= Len(out)
  PROVE  FlusherInv' /\ OutInOrder' /\ PlaceInv' /\ DueInv' /\ FlushCovers'
<1>1. FlusherInv' /\ PlaceInv' /\ OutInOrder'
  BY DEF IInv, bvars, xvars, FlusherInv, PlaceInv, OutInOrder, Front, Back, Base
<1>2. DueInv'
  BY DEF IInv, bvars, xvars, DueInv, Covered, Front, Base
<1>3. FlushCovers'
  BY DEF IInv, FlushCovers
<1> QED BY <1>1, <1>2, <1>3

\* The steps of callers that do not touch the buffers.
LEMMA CallerKeeps ==
  ASSUME IInv, NEW g \in Callers,
         \/ \E n \in 0..(MaxBytes - asked) : CallWrite(g, n)
         \/ WriteWait(g) \/ WriteEnd(g) \/ FlushRefused(g)
         \/ FlushWait(g) \/ FlushEnd(g) \/ Relock(g) \/ Return(g)
  PROVE  IInv'
<1>1. TypeOK /\ DueInv /\ FlusherInv /\ FlushCovers /\ PendingInv
  BY DEF IInv
<1>2. Len(out) \in Nat /\ emitted \in Nat /\ Base <= Len(out) /\ 0 <= Len(out)
  <2>1. Len(out) \in Nat /\ emitted \in Nat
    BY <1>1 DEF TypeOK
  <2> QED BY <2>1 DEF Base
<1>3. CASE \E n \in 0..(MaxBytes - asked) : CallWrite(g, n)
  <2>1. PICK n \in 0..(MaxBytes - asked) : CallWrite(g, n)
    BY <1>3
  <2>2. n \in 0..MaxBytes /\ asked + n \in 0..MaxBytes
    BY <1>1, BytesAssumption DEF TypeOK
  <2>3. TypeOK'
    BY <1>1, <2>1, <2>2 DEF CallWrite, TypeOK, bvars, xvars, CallerPCs
  <2>4. PendingInv'
    <3>1. rest' = [rest EXCEPT ![g] = n] /\ asked' = asked + n /\ accepted' = accepted
      BY <2>1 DEF CallWrite
    <3>2. Cardinality(Pending') \in Nat /\ Cardinality(Pending') <= Cardinality(Pending) + n
      BY <1>1, <2>2, <3>1, PendingAdded
    <3> QED BY <1>1, <2>2, <3>1, <3>2, PendingFinite DEF PendingInv, TypeOK
  <2>5. FlusherInv' /\ OutInOrder' /\ PlaceInv' /\ DueInv' /\ FlushCovers'
    BY <1>1, <2>1, QuietKeeps DEF CallWrite, TypeOK, DueInv
  <2> QED BY <2>3, <2>4, <2>5 DEF IInv
<1>4. CASE WriteWait(g)
  <2>1. TypeOK' /\ PendingInv'
    BY <1>1, <1>4 DEF WriteWait, TypeOK, PendingInv, Pending, bvars, xvars, hvars, CallerPCs
  <2>2. FlusherInv' /\ OutInOrder' /\ PlaceInv' /\ DueInv' /\ FlushCovers'
    BY <1>1, <1>4, QuietKeeps DEF WriteWait, InWrite, TypeOK, DueInv, hvars
  <2> QED BY <2>1, <2>2 DEF IInv
<1>5. CASE WriteEnd(g)
  <2>1. TypeOK'
    BY <1>1, <1>5, BytesAssumption DEF WriteEnd, TypeOK, bvars, xvars, hvars, CallerPCs
  <2>2. PendingInv'
    <3>1. PICK r \in Nat : r = rest[g]
      BY <1>1 DEF TypeOK
    <3>2. r - r = 0 /\ r <= rest[g]
      BY <3>1
    <3>3. rest' = [rest EXCEPT ![g] = rest[g] - r]
      BY <1>5, <3>1, <3>2 DEF WriteEnd
    <3>4. Cardinality(Pending') = Cardinality(Pending) - r
      BY <1>1, <3>2, <3>3, PendingTaken
    <3> QED BY <1>1, <1>5, <3>1, <3>4, PendingFinite DEF WriteEnd, PendingInv, TypeOK, hvars
  <2>3. FlusherInv' /\ OutInOrder' /\ PlaceInv' /\ DueInv' /\ FlushCovers'
    BY <1>1, <1>2, <1>5, QuietKeeps DEF WriteEnd, TypeOK, DueInv, hvars
  <2> QED BY <2>1, <2>2, <2>3 DEF IInv
<1>6. CASE FlushRefused(g)
  <2>1. TypeOK' /\ PendingInv'
    BY <1>1, <1>6 DEF FlushRefused, TypeOK, PendingInv, Pending, bvars, xvars, hvars, CallerPCs
  <2>2. FlusherInv' /\ OutInOrder' /\ PlaceInv' /\ DueInv' /\ FlushCovers'
    BY <1>1, <1>6, QuietKeeps DEF FlushRefused, TypeOK, DueInv, hvars
  <2> QED BY <2>1, <2>2 DEF IInv
<1>7. CASE FlushWait(g)
  <2>1. TypeOK' /\ PendingInv'
    BY <1>1, <1>7 DEF FlushWait, TypeOK, PendingInv, Pending, bvars, xvars, hvars, CallerPCs
  <2>2. Covered(g)'
    BY <1>1, <1>7 DEF FlushWait, DueInv, Covered, Base, Front, bvars, xvars, hvars
  <2>3. FlusherInv' /\ OutInOrder' /\ PlaceInv' /\ DueInv' /\ FlushCovers'
    BY <1>1, <1>7, <2>2, QuietKeeps DEF FlushWait, TypeOK, hvars
  <2> QED BY <2>1, <2>3 DEF IInv
<1>8. CASE FlushEnd(g)
  <2>1. TypeOK' /\ PendingInv'
    BY <1>1, <1>8 DEF FlushEnd, TypeOK, PendingInv, Pending, bvars, xvars, hvars, CallerPCs
  <2>2. flushErr = "nil" => due[g] <= Len(out)
    BY <1>1, <1>2, <1>8 DEF FlushEnd, DueInv, Covered, TypeOK, Base
  <2>3. FlusherInv' /\ OutInOrder' /\ PlaceInv' /\ DueInv' /\ FlushCovers'
    BY <1>1, <1>8, <2>2, QuietKeeps DEF FlushEnd, TypeOK, hvars
  <2> QED BY <2>1, <2>3 DEF IInv
<1>9. CASE Relock(g)
  <2>1. TypeOK' /\ PendingInv'
    BY <1>1, <1>9 DEF Relock, TypeOK, PendingInv, Pending, bvars, xvars, hvars, CallerPCs
  <2>2. pc[g] = "flushwoken" /\ flushErr = "nil" => Covered(g)'
    BY <1>1, <1>9 DEF Relock, DueInv, Covered, Base, Front, bvars, xvars, hvars
  <2>3. FlusherInv' /\ OutInOrder' /\ PlaceInv' /\ DueInv' /\ FlushCovers'
    BY <1>1, <1>9, <2>2, QuietKeeps DEF Relock, TypeOK, DueInv, hvars
  <2> QED BY <2>1, <2>3 DEF IInv
<1>10. CASE Return(g)
  <2>1. TypeOK' /\ PendingInv'
    BY <1>1, <1>10, BytesAssumption
       DEF Return, TypeOK, PendingInv, Pending, bvars, xvars, hvars, CallerPCs, Errors
  <2>2. FlusherInv' /\ OutInOrder' /\ PlaceInv' /\ DueInv' /\ FlushCovers'
    BY <1>1, <1>10, QuietKeeps DEF Return, TypeOK, hvars
  <2> QED BY <2>1, <2>2 DEF IInv
<1> QED BY <1>3, <1>4, <1>5, <1>6, <1>7, <1>8, <1>9, <1>10

-----------------------------------------------------------------------------
\* The types of what the proofs work with.
LEMMA Shapes ==
  ASSUME TypeOK
  PROVE  /\ Front \in Seq(1..MaxBytes) /\ Back \in Seq(1..MaxBytes)
         /\ Len(Front) \in 0..Cap /\ Len(Back) \in 0..Cap
         /\ Len(out) \in Nat /\ emitted \in Nat /\ accepted \in Nat
         /\ writeBuf \in {flushBuf, flushBuf + 1, flushBuf + 2}
         /\ bufs[writeBuf % 2] = IF writeBuf = flushBuf + 1 THEN Back ELSE Front
<1>1. flushBuf % 2 \in {0, 1} /\ (flushBuf + 1) % 2 \in {0, 1} /\ (flushBuf + 2) % 2 = flushBuf % 2
  BY Slots DEF TypeOK
<1>2. Front \in Seq(1..MaxBytes) /\ Back \in Seq(1..MaxBytes) /\ Len(Front) <= Cap /\ Len(Back) <= Cap
  BY <1>1 DEF TypeOK, Front, Back
<1>3. Len(Front) \in Nat /\ Len(Back) \in Nat
  BY <1>2
<1>4. Len(out) \in Nat /\ emitted \in Nat /\ accepted \in Nat
  BY DEF TypeOK
<1>5. writeBuf \in {flushBuf, flushBuf + 1, flushBuf + 2}
  BY DEF TypeOK
<1>6. bufs[writeBuf % 2] = IF writeBuf = flushBuf + 1 THEN Back ELSE Front
  BY <1>1, <1>5 DEF Front, Back
<1> QED BY <1>2, <1>3, <1>4, <1>5, <1>6, CapAssumption

\* Flush closes the buffer being filled, if there is something in it, and what it
\* has to cover is in the buffers before its target.
LEMMA CallFlushKeeps ==
  ASSUME IInv, NEW g \in Callers, CallFlush(g)
  PROVE  IInv'
<1>1. TypeOK /\ DueInv /\ FlusherInv /\ PlaceInv /\ OutInOrder /\ FlushCovers /\ PendingInv
  BY DEF IInv
<1>2. /\ UNCHANGED <<flushBuf, bufs, flushErr, size, emitted, rest, res, hvars>>
      /\ flushErr = "nil" /\ pc[g] = "idle"
      /\ fpc' = IF fpc = "none" THEN "spawned" ELSE fpc
      /\ writeBuf' = IF writeBuf < flushBuf + 2 /\ bufs[writeBuf % 2] # <<>> THEN writeBuf + 1 ELSE writeBuf
      /\ target' = [target EXCEPT ![g] = writeBuf'] /\ due' = [due EXCEPT ![g] = accepted]
      /\ pc' = [pc EXCEPT ![g] = "flush"] /\ lock' = g
  BY DEF CallFlush, StartFlush, MayClose, FlushTarget
<1>3. /\ writeBuf' \in Nat /\ writeBuf <= writeBuf' /\ writeBuf' - flushBuf \in 0..2
      /\ writeBuf' \in {flushBuf, flushBuf + 1, flushBuf + 2}
  BY <1>1, <1>2 DEF TypeOK
<1>4. Front' = Front /\ Back' = Back /\ Base' = Base /\ accepted' = accepted
  BY <1>2 DEF Front, Back, Base, hvars
<1>5. TypeOK'
  <2>1. accepted \in 0..MaxBytes
    BY <1>1, BytesAssumption DEF TypeOK
  <2> QED BY <1>1, <1>2, <1>3, <2>1 DEF TypeOK, hvars, FlusherPCs, CallerPCs
<1>6. FlusherInv' /\ OutInOrder' /\ FlushCovers' /\ PendingInv'
  <2>1. FlusherInv'
    BY <1>1, <1>2, <1>3, <1>4 DEF FlusherInv, TypeOK
  <2>2. OutInOrder'
    BY <1>1, <1>2 DEF OutInOrder, hvars
  <2>3. FlushCovers'
    BY <1>1, <1>2 DEF FlushCovers, hvars, TypeOK
  <2>4. PendingInv'
    BY <1>1, <1>2 DEF PendingInv, Pending, hvars
  <2> QED BY <2>1, <2>2, <2>3, <2>4
<1>7. PlaceInv'
  BY <1>1, <1>2, <1>3, <1>4 DEF PlaceInv, TypeOK
<1>8. Covered(g)'
  <2>1. target'[g] = writeBuf' /\ due'[g] = accepted
    BY <1>1, <1>2 DEF TypeOK
  <2>2. accepted = Base + Len(Front) + Len(Back) /\ (writeBuf = flushBuf => Len(Back) = 0)
    <3>1. Len(<<>>) = 0
      OBVIOUS
    <3> QED BY <1>1, <1>2, <3>1 DEF PlaceInv
  <2>3. Base \in Nat /\ Len(Front) \in Nat /\ Len(Back) \in Nat /\ flushBuf \in Nat /\ writeBuf \in Nat
    BY <1>1, Shapes DEF FlusherInv, TypeOK
  <2>4. writeBuf' = flushBuf => accepted <= Base
    <3> SUFFICES ASSUME writeBuf' = flushBuf PROVE accepted <= Base
      OBVIOUS
    <3>1. writeBuf = flushBuf /\ Front = <<>>
      BY <1>1, <1>2, <1>3, <2>3, Shapes
    <3> QED BY <2>2, <2>3, <3>1
  <2>5. writeBuf' = flushBuf + 1 => accepted <= Base + Len(Front)
    <3> SUFFICES ASSUME writeBuf' = flushBuf + 1 PROVE accepted <= Base + Len(Front)
      OBVIOUS
    <3>1. writeBuf = flushBuf \/ (writeBuf = flushBuf + 1 /\ Back = <<>>)
      BY <1>1, <1>2, <1>3, <2>3, Shapes
    <3> QED BY <2>2, <2>3, <3>1
  <2> QED BY <1>2, <1>3, <1>4, <2>1, <2>2, <2>3, <2>4, <2>5 DEF Covered
<1>9. DueInv'
  <2>1. \A h \in Callers : h # g => pc'[h] = pc[h] /\ due'[h] = due[h] /\ target'[h] = target[h]
    BY <1>1, <1>2 DEF TypeOK
  <2>2. \A h \in Callers : h # g /\ Covered(h) => Covered(h)'
    BY <1>1, <1>2, <1>3, <1>4, <2>1 DEF Covered, TypeOK
  <2>3. pc'[g] = "flush"
    BY <1>1, <1>2 DEF TypeOK
  <2> QED BY <1>1, <1>2, <1>8, <2>1, <2>2, <2>3 DEF DueInv
<1> QED BY <1>5, <1>6, <1>7, <1>9 DEF IInv

\* Write appends to a buffer that is not being written out, in the place that
\* follows what was buffered last.
LEMMA WriteSomeKeeps ==
  ASSUME IInv, NEW g \in Callers, WriteSome(g)
  PROVE  IInv'
<1>1. TypeOK /\ DueInv /\ FlusherInv /\ PlaceInv /\ OutInOrder /\ FlushCovers /\ PendingInv
  BY DEF IInv
<1> DEFINE slot == writeBuf % 2
           room == Cap - Len(bufs[slot])
           m == Smaller(rest[g], room)
           added == bufs[slot] \o Run(accepted, m)
<1>2. /\ UNCHANGED <<flushBuf, flushErr, size, emitted, lock, pc, target, res, due, asked, out>>
      /\ flushErr = "nil" /\ writeBuf <= flushBuf + 1
      /\ bufs' = [bufs EXCEPT ![slot] = added] /\ rest' = [rest EXCEPT ![g] = rest[g] - m]
      /\ accepted' = accepted + m
      /\ writeBuf' \in {writeBuf, writeBuf + 1}
      /\ fpc' = fpc \/ (fpc = "none" /\ fpc' = "spawned")
  BY <1>1 DEF WriteSome, Run, InWrite, BothWaiting, StartFlush, TypeOK
<1>3. slot \in {0, 1} /\ bufs[slot] \in Seq(1..MaxBytes) /\ Len(bufs[slot]) \in 0..Cap
  BY <1>1, Slots, CapAssumption DEF TypeOK
<1>4. m \in Nat /\ m <= rest[g] /\ m <= room
  <2>1. room \in Nat /\ rest[g] \in Nat
    BY <1>1, <1>3, CapAssumption DEF TypeOK
  <2> HIDE DEF room
  <2> QED BY <2>1 DEF Smaller
<1>5. PICK n \in Nat : n = m /\ n <= rest[g] /\ n <= Cap - Len(bufs[slot])
  BY <1>4
<1>6. PICK s \in Seq(1..MaxBytes) : s = bufs[slot] /\ Len(s) \in 0..Cap /\ n <= Cap - Len(s)
  BY <1>3, <1>5
<1>7. added = s \o Run(accepted, n)
  BY <1>5, <1>6
<1> HIDE DEF m, room, added
<1>8. n <= Cardinality(Pending) /\ Cardinality(Pending') = Cardinality(Pending) - n
  BY <1>1, <1>2, <1>5, PendingTaken
<1>9. accepted \in Nat /\ accepted + n <= asked /\ asked <= MaxBytes /\ asked \in Nat
  BY <1>1, <1>8, PendingFinite DEF PendingInv, TypeOK
<1>10. PICK c \in Seq(1..MaxBytes) :
         /\ c = added /\ Len(c) = Len(s) + n
         /\ \A i \in 1..Len(s) : c[i] = s[i]
         /\ \A i \in (Len(s) + 1)..(Len(s) + n) : c[i] = accepted + (i - Len(s))
  <2>1. accepted + n <= MaxBytes
    BY <1>9, BytesAssumption
  <2>2. PICK r \in Seq(1..MaxBytes) :
          r = Run(accepted, n) /\ Len(r) = n /\ \A i \in 1..n : r[i] = accepted + i
    BY <1>9, <2>1, RunSeq
  <2>3. PICK d : d = s \o r
    OBVIOUS
  <2>4. /\ d \in Seq(1..MaxBytes) /\ Len(d) = Len(s) + Len(r)
        /\ \A i \in 1..Len(s) : d[i] = s[i]
        /\ \A i \in (Len(s) + 1)..(Len(s) + Len(r)) : d[i] = r[i - Len(s)]
    BY <2>3, Appended
  <2>5. d = added
    BY <1>7, <2>2, <2>3
  <2>6. \A i \in (Len(s) + 1)..(Len(s) + n) : d[i] = accepted + (i - Len(s))
    <3> SUFFICES ASSUME NEW i \in (Len(s) + 1)..(Len(s) + n) PROVE d[i] = accepted + (i - Len(s))
      OBVIOUS
    <3>1. i - Len(s) \in 1..n
      BY <1>6
    <3> QED BY <2>2, <2>4, <3>1
  <2> QED BY <2>2, <2>4, <2>5, <2>6
<1>11. PendingInv'
  BY <1>1, <1>2, <1>5, <1>8, <1>9, PendingFinite DEF PendingInv
<1>12. TypeOK'
  <2>1. writeBuf' \in Nat /\ writeBuf' - flushBuf \in 0..2
    <3>1. writeBuf \in Nat /\ flushBuf \in Nat /\ writeBuf \in {flushBuf, flushBuf + 1, flushBuf + 2}
      BY <1>1 DEF TypeOK
    <3>2. CASE writeBuf' = writeBuf
      BY <1>2, <3>1, <3>2
    <3>3. CASE writeBuf' = writeBuf + 1
      BY <1>2, <3>1, <3>3
    <3> QED BY <1>2, <3>2, <3>3
  <2>2. bufs' \in [{0, 1} -> Seq(1..MaxBytes)] /\ \A x \in {0, 1} : Len(bufs'[x]) <= Cap
    <3>1. bufs' = [bufs EXCEPT ![slot] = c] /\ Len(c) <= Cap
      BY <1>2, <1>6, <1>10, CapAssumption
    <3> HIDE DEF slot
    <3> QED BY <1>1, <1>3, <1>10, <3>1 DEF TypeOK
  <2>3. rest' \in [Callers -> 0..MaxBytes]
    BY <1>1, <1>2, <1>5, BytesAssumption DEF TypeOK
  <2>4. accepted' \in 0..asked
    BY <1>2, <1>5, <1>9
  <2> QED BY <1>1, <1>2, <2>1, <2>2, <2>3, <2>4 DEF TypeOK, FlusherPCs
<1>13. /\ writeBuf = flushBuf => s = Front /\ Front' = c /\ Back' = Back
       /\ writeBuf # flushBuf => s = Back /\ Back' = c /\ Front' = Front
  <2>1. PICK x \in {0, 1}, y \in {0, 1} : x = flushBuf % 2 /\ y = (flushBuf + 1) % 2 /\ x # y
    BY <1>1, Slots DEF TypeOK
  <2>2. slot = (IF writeBuf = flushBuf THEN x ELSE y)
    <3>1. writeBuf = flushBuf \/ writeBuf = flushBuf + 1
      BY <1>1, <1>2 DEF TypeOK
    <3> QED BY <2>1, <3>1
  <2>3. Front = bufs[x] /\ Back = bufs[y] /\ Front' = bufs'[x] /\ Back' = bufs'[y]
    BY <1>2, <2>1 DEF Front, Back
  <2>4. bufs' = [bufs EXCEPT ![slot] = c] /\ DOMAIN bufs = {0, 1}
    BY <1>1, <1>2, <1>10 DEF TypeOK
  <2> HIDE DEF slot
  <2> QED BY <1>6, <2>1, <2>2, <2>3, <2>4
<1>14. /\ Base' = Base /\ Base \in Nat /\ accepted' = accepted + n
       /\ Len(Front) \in Nat /\ Len(Back) \in Nat
       /\ flushBuf' = flushBuf /\ flushBuf \in Nat /\ writeBuf \in Nat
  BY <1>1, <1>2, <1>5, Shapes DEF Base, FlusherInv, TypeOK
<1>15. /\ accepted = Base + Len(Front) + Len(Back) /\ (writeBuf = flushBuf => Len(Back) = 0)
       /\ \A i \in 1..Len(Front) : Front[i] = Base + i
       /\ \A i \in 1..Len(Back) : Back[i] = Base + Len(Front) + i
       /\ writeBuf = flushBuf => Back = <<>>
  <2>1. Len(<<>>) = 0
    OBVIOUS
  <2> QED BY <1>1, <1>2, <2>1 DEF PlaceInv
<1>16. PlaceInv' /\ Len(Front) <= Len(Front')
  <2>1. CASE writeBuf = flushBuf
    <3>1. \A i \in 1..Len(Front') : Front'[i] = Base + i
      <4>1. s = Front /\ Front' = c /\ accepted = Base + Len(s)
        BY <1>13, <1>14, <1>15, <2>1
      <4>2. \A i \in 1..(Len(s) + n) : c[i] = Base + i
        <5> SUFFICES ASSUME NEW i \in 1..(Len(s) + n) PROVE c[i] = Base + i
          OBVIOUS
        <5>1. CASE i <= Len(s)
          BY <1>6, <1>10, <1>15, <4>1, <5>1
        <5>2. CASE i > Len(s)
          <6>1. Len(s) \in Nat /\ i \in (Len(s) + 1)..(Len(s) + n)
            BY <1>6, <5>2
          <6>2. c[i] = accepted + (i - Len(s))
            BY <1>10, <6>1
          <6> QED BY <1>14, <4>1, <6>1, <6>2
        <5> QED BY <1>6, <5>1, <5>2
      <4> QED BY <1>10, <4>1, <4>2
    <3>2. Len(Front') = Len(Front) + n
      BY <1>10, <1>13, <2>1
    <3> QED BY <1>2, <1>13, <1>14, <1>15, <2>1, <3>1, <3>2 DEF PlaceInv
  <2>2. CASE writeBuf # flushBuf
    <3>1. \A i \in 1..Len(Back') : Back'[i] = Base + Len(Front) + i
      <4>1. s = Back /\ Back' = c /\ accepted = Base + Len(Front) + Len(s)
        BY <1>13, <1>14, <1>15, <2>2
      <4>2. \A i \in 1..(Len(s) + n) : c[i] = Base + Len(Front) + i
        <5> SUFFICES ASSUME NEW i \in 1..(Len(s) + n) PROVE c[i] = Base + Len(Front) + i
          OBVIOUS
        <5>1. CASE i <= Len(s)
          BY <1>6, <1>10, <1>15, <4>1, <5>1
        <5>2. CASE i > Len(s)
          <6>1. Len(s) \in Nat /\ i \in (Len(s) + 1)..(Len(s) + n)
            BY <1>6, <5>2
          <6>2. c[i] = accepted + (i - Len(s))
            BY <1>10, <6>1
          <6> QED BY <1>14, <4>1, <6>1, <6>2
        <5> QED BY <1>6, <5>1, <5>2
      <4> QED BY <1>10, <4>1, <4>2
    <3>2. Len(Back') = Len(Back) + n
      BY <1>10, <1>13, <2>2
    <3>3. writeBuf' # flushBuf
      BY <1>1, <1>2, <2>2 DEF TypeOK
    <3> QED BY <1>2, <1>13, <1>14, <1>15, <2>2, <3>1, <3>2, <3>3 DEF PlaceInv
  <2> QED BY <2>1, <2>2
<1>17. FlusherInv'
  <2>1. fpc' = "write" => writeBuf > flushBuf /\ Front' = Front
    BY <1>1, <1>2, <1>13, <1>14 DEF FlusherInv
  <2> QED BY <1>1, <1>2, <1>14, <2>1 DEF FlusherInv
<1>18. OutInOrder' /\ FlushCovers'
  BY <1>1, <1>2 DEF OutInOrder, FlushCovers
<1>19. DueInv'
  <2>1. \A h \in Callers : Covered(h) => Covered(h)'
    <3> SUFFICES ASSUME NEW h \in Callers, Covered(h) PROVE Covered(h)'
      OBVIOUS
    <3>1. due[h] \in Nat /\ target[h] \in Nat
      BY <1>1, BytesAssumption DEF TypeOK
    <3>2. Len(Front') \in Nat
      BY <1>12, <1>10, <1>13, <1>14
    <3>3. target'[h] = target[h] /\ due'[h] = due[h] /\ (writeBuf' = writeBuf \/ writeBuf' = writeBuf + 1)
      BY <1>2
    <3> QED BY <1>9, <1>14, <1>16, <3>1, <3>2, <3>3 DEF Covered
  <2> QED BY <1>1, <1>2, <2>1 DEF DueInv
<1> QED BY <1>11, <1>12, <1>16, <1>17, <1>18, <1>19 DEF IInv

-----------------------------------------------------------------------------
\* doFlush, when it starts, takes the front buffer if it is closed.
LEMMA FlusherStartKeeps ==
  ASSUME IInv, FlusherStart
  PROVE  IInv'
<1>1. TypeOK /\ DueInv /\ FlusherInv /\ PlaceInv /\ OutInOrder /\ FlushCovers /\ PendingInv
  BY DEF IInv
<1>2. /\ UNCHANGED <<writeBuf, flushBuf, bufs, flushErr, lock, pc, rest, target, res, due, hvars>>
      /\ fpc = "spawned" /\ emitted' = 0 /\ flushErr = "nil" /\ emitted = 0
      /\ \/ writeBuf > flushBuf /\ fpc' = "write" /\ size' = Len(Front)
         \/ fpc' = "none" /\ size' = 0
  <2>1. flushErr = "nil" /\ size = 0
    BY <1>1 DEF FlusherStart, FlusherInv
  <2>2. emitted = 0
    BY <1>1, <2>1 DEF TypeOK
  <2> QED BY <2>1, <2>2 DEF FlusherStart, DoFlush, GoesOn, Front
<1>3. Front' = Front /\ Back' = Back /\ Base' = Base
  BY <1>2 DEF Front, Back, Base, hvars
<1>4. TypeOK'
  <2>1. size' \in 0..Cap /\ emitted' \in 0..size'
    BY <1>1, <1>2, Shapes, CapAssumption
  <2> QED BY <1>1, <1>2, <2>1 DEF TypeOK, hvars, FlusherPCs
<1>5. FlusherInv'
  BY <1>1, <1>2, <1>3 DEF FlusherInv
<1>6. PlaceInv'
  BY <1>1, <1>2, <1>3 DEF PlaceInv, hvars
<1>7. OutInOrder' /\ FlushCovers'
  BY <1>1, <1>2 DEF OutInOrder, FlushCovers, hvars
<1>8. PendingInv'
  BY <1>1, <1>2 DEF PendingInv, Pending, hvars
<1>9. DueInv'
  BY <1>1, <1>2, <1>3 DEF DueInv, Covered, hvars
<1> QED BY <1>4, <1>5, <1>6, <1>7, <1>8, <1>9 DEF IInv

\* The underlying writer receives the next byte of the stream.
LEMMA EmitByteKeeps ==
  ASSUME IInv, EmitByte
  PROVE  IInv'
<1>1. TypeOK /\ DueInv /\ FlusherInv /\ PlaceInv /\ OutInOrder /\ FlushCovers /\ PendingInv
  BY DEF IInv
<1>2. /\ UNCHANGED <<writeBuf, flushBuf, bufs, flushErr, fpc, size, lock, cvars, asked, accepted>>
      /\ fpc = "write" /\ flushErr = "nil" /\ size = Len(Front) /\ emitted < size
      /\ emitted' = emitted + 1 /\ out' = Append(out, Front[emitted + 1])
  BY <1>1 DEF EmitByte, FlusherInv, Front, bvars
<1>3. emitted \in Nat /\ size \in Nat /\ Len(out) \in Nat /\ out \in Seq(1..MaxBytes)
  BY <1>1, CapAssumption DEF TypeOK
<1>4. PICK b \in 1..MaxBytes : b = Front[emitted + 1] /\ b = Len(out) + 1
  <2>1. emitted + 1 \in 1..Len(Front)
    BY <1>2, <1>3
  <2>2. Front[emitted + 1] \in 1..MaxBytes
    <3>1. Front \in Seq(1..MaxBytes)
      BY <1>1, Shapes
    <3>2. \A S : \A f \in Seq(S) : \A j \in 1..Len(f) : f[j] \in S
      OBVIOUS
    <3> QED BY <2>1, <3>1, <3>2, Zenon
  <2>3. Front[emitted + 1] = Base + (emitted + 1)
    BY <1>1, <1>2, <2>1 DEF PlaceInv
  <2> QED BY <1>3, <2>2, <2>3 DEF Base
<1>5. /\ out' \in Seq(1..MaxBytes) /\ Len(out') = Len(out) + 1
      /\ out'[Len(out) + 1] = b /\ \A i \in 1..Len(out) : out'[i] = out[i]
  BY <1>2, <1>3, <1>4
<1>6. Front' = Front /\ Back' = Back /\ Base' = Base
  BY <1>2, <1>3, <1>5 DEF Front, Back, Base
<1>7. TypeOK'
  BY <1>1, <1>2, <1>3, <1>5 DEF TypeOK, cvars
<1>8. FlusherInv'
  BY <1>1, <1>2, <1>6 DEF FlusherInv
<1>9. PlaceInv'
  BY <1>1, <1>2, <1>6 DEF PlaceInv
<1>10. OutInOrder'
  <2> SUFFICES ASSUME NEW i \in 1..(Len(out) + 1) PROVE out'[i] = i
    BY <1>5 DEF OutInOrder
  <2>1. CASE i = Len(out) + 1
    BY <1>4, <1>5, <2>1
  <2>2. CASE i # Len(out) + 1
    BY <1>1, <1>3, <1>5, <2>2 DEF OutInOrder
  <2> QED BY <2>1, <2>2
<1>11. FlushCovers'
  <2>1. \A g \in Callers : due[g] \in Nat
    BY <1>1, BytesAssumption DEF TypeOK
  <2> QED BY <1>1, <1>2, <1>3, <1>5, <2>1 DEF FlushCovers, cvars
<1>12. PendingInv'
  BY <1>1, <1>2 DEF PendingInv, Pending, cvars
<1>13. DueInv'
  BY <1>1, <1>2, <1>6 DEF DueInv, Covered, cvars
<1> QED BY <1>7, <1>8, <1>9, <1>10, <1>11, <1>12, <1>13 DEF IInv

\* When its Write returns, the back buffer moves to the front.
LEMMA FlusherWroteKeeps ==
  ASSUME IInv, NEW e \in Errors, FlusherWrote(e)
  PROVE  IInv'
<1>1. TypeOK /\ DueInv /\ FlusherInv /\ PlaceInv /\ OutInOrder /\ FlushCovers /\ PendingInv
  BY DEF IInv
<1>2. /\ UNCHANGED <<writeBuf, lock, rest, target, res, due, hvars>>
      /\ fpc = "write" /\ flushErr = "nil" /\ size = Len(Front) /\ writeBuf > flushBuf
      /\ flushBuf' = flushBuf + 1 /\ bufs' = [bufs EXCEPT ![flushBuf % 2] = <<>>]
      /\ flushErr' = e /\ emitted' = 0 /\ (e = "nil" => emitted = size)
  BY <1>1 DEF FlusherWrote, DoFlush, Emptied, FlusherInv
<1>3. Front' = Back /\ Back' = <<>>
  <2>1. PICK x \in {0, 1}, y \in {0, 1} :
          x = flushBuf % 2 /\ y = (flushBuf + 1) % 2 /\ x # y /\ x = (flushBuf + 2) % 2
    BY <1>1, Slots DEF TypeOK
  <2>2. (flushBuf + 1) + 1 = flushBuf + 2
    BY <1>1 DEF TypeOK
  <2>3. Back = bufs[y] /\ Front' = bufs'[y] /\ Back' = bufs'[x]
    BY <1>2, <2>1, <2>2 DEF Front, Back
  <2>4. bufs' = [bufs EXCEPT ![x] = <<>>] /\ DOMAIN bufs = {0, 1}
    BY <1>1, <1>2, <2>1 DEF TypeOK
  <2> QED BY <2>1, <2>3, <2>4
<1>4. /\ Base \in Nat /\ Len(Front) \in 0..Cap /\ Len(Back) \in 0..Cap /\ Len(out) \in Nat /\ emitted \in Nat
      /\ flushBuf \in Nat /\ writeBuf \in Nat /\ accepted \in Nat
      /\ writeBuf \in {flushBuf + 1, flushBuf + 2} /\ Len(<<>>) = 0
  BY <1>1, <1>2, Shapes DEF FlusherInv, TypeOK
<1>5. Base' = Len(out) /\ (e = "nil" => Base' = Base + Len(Front))
  BY <1>2, <1>4 DEF Base, hvars
<1>6. \/ e = "nil" /\ writeBuf > flushBuf' /\ fpc' = "write" /\ size' = Len(Front')
      \/ fpc' = "none" /\ size' = 0
  <2>1. Front' = Emptied[(flushBuf + 1) % 2]
    BY <1>2 DEF Emptied, Front
  <2> QED BY <1>2, <2>1 DEF FlusherWrote, DoFlush, GoesOn
<1>7. \A g \in Callers :
        \/ pc'[g] = pc[g]
        \/ pc[g] = "writewait" /\ pc'[g] = "writewoken"
        \/ pc[g] = "flushwait" /\ pc'[g] = "flushwoken"
  BY DEF FlusherWrote, Broadcast
<1>8. TypeOK'
  <2>1. bufs' \in [{0, 1} -> Seq(1..MaxBytes)] /\ \A s \in {0, 1} : Len(bufs'[s]) <= Cap
    <3>1. <<>> \in Seq(1..MaxBytes) /\ Len(<<>>) <= Cap
      BY CapAssumption
    <3>2. PICK x \in {0, 1} : x = flushBuf % 2
      BY <1>1, Slots DEF TypeOK
    <3> QED BY <1>1, <1>2, <3>1, <3>2 DEF TypeOK
  <2>2. writeBuf - flushBuf' \in 0..2 /\ flushBuf' \in Nat
    BY <1>2, <1>4
  <2>3. size' \in 0..Cap /\ emitted' \in 0..size'
    BY <1>2, <1>3, <1>4, <1>6, CapAssumption
  <2>4. pc' \in [Callers -> CallerPCs]
    BY <1>1 DEF FlusherWrote, Broadcast, TypeOK, CallerPCs
  <2> QED BY <1>1, <1>2, <1>6, <2>1, <2>2, <2>3, <2>4 DEF TypeOK, hvars, FlusherPCs
<1>9. FlusherInv'
  BY <1>2, <1>4, <1>5, <1>6 DEF FlusherInv
<1>10. PlaceInv'
  <2> SUFFICES ASSUME e = "nil"
               PROVE  /\ \A i \in 1..Len(Front') : Front'[i] = Base' + i
                      /\ accepted = Base' + Len(Front') + Len(Back')
                      /\ \A i \in 1..Len(Back') : Back'[i] = Base' + Len(Front') + i
    BY <1>2, <1>3 DEF PlaceInv, hvars
  <2>1. /\ accepted = Base + Len(Front) + Len(Back)
        /\ \A i \in 1..Len(Back) : Back[i] = Base + Len(Front) + i
    BY <1>1, <1>2 DEF PlaceInv
  <2> QED BY <1>3, <1>4, <1>5, <2>1
<1>11. OutInOrder' /\ PendingInv'
  BY <1>1, <1>2 DEF OutInOrder, PendingInv, Pending, hvars
<1>12. FlushCovers'
  BY <1>1, <1>2, <1>7 DEF FlushCovers, hvars
<1>13. DueInv'
  <2>1. ASSUME NEW g \in Callers, e = "nil", Covered(g) PROVE Covered(g)'
    <3>1. due[g] \in Nat /\ target[g] \in Nat
      BY <1>1, BytesAssumption DEF TypeOK
    <3>2. accepted = Base + Len(Front) + Len(Back)
      BY <1>1, <1>2 DEF PlaceInv
    <3>3. Covered(g)' <=>
            /\ target[g] <= writeBuf
            /\ target[g] <= flushBuf + 1 => due[g] <= Base + Len(Front)
            /\ target[g] = (flushBuf + 1) + 1 => due[g] <= (Base + Len(Front)) + Len(Back)
            /\ target[g] = (flushBuf + 1) + 2 => due[g] <= accepted
      BY <1>2, <1>3, <1>5, <2>1 DEF Covered, hvars
    <3>4. /\ target[g] <= writeBuf
          /\ target[g] <= flushBuf => due[g] <= Base
          /\ target[g] = flushBuf + 1 => due[g] <= Base + Len(Front)
          /\ target[g] = flushBuf + 2 => due[g] <= accepted
      BY <2>1 DEF Covered
    <3>5. target[g] <= flushBuf + 1 => due[g] <= Base + Len(Front)
      BY <1>4, <3>1, <3>4
    <3>6. target[g] = (flushBuf + 1) + 1 => due[g] <= (Base + Len(Front)) + Len(Back)
      BY <1>4, <3>2, <3>4
    <3>7. target[g] # (flushBuf + 1) + 2
      BY <1>4, <3>1, <3>4
    <3> QED BY <3>3, <3>4, <3>5, <3>6, <3>7
  <2> QED BY <1>1, <1>2, <1>7, <2>1 DEF DueInv
<1> QED BY <1>8, <1>9, <1>10, <1>11, <1>12, <1>13 DEF IInv

-----------------------------------------------------------------------------
\* The invariant holds in every reachable state.
LEMMA Invariance == Spec => []IInv
<1>1. Init => IInv
  <2> SUFFICES ASSUME Init PROVE IInv
    OBVIOUS
  <2>1. TypeOK
    BY CapAssumption, BytesAssumption DEF Init, TypeOK, Errors, FlusherPCs, CallerPCs
  <2>2. Front = <<>> /\ Back = <<>> /\ Base = 0
    BY Slots DEF Init, Front, Back, Base
  <2>3. FlusherInv /\ PlaceInv /\ OutInOrder
    BY <2>2 DEF Init, FlusherInv, PlaceInv, OutInOrder
  <2>4. DueInv /\ FlushCovers
    BY DEF Init, DueInv, FlushCovers
  <2>5. Pending = {}
    BY DEF Init, Pending
  <2>6. PendingInv
    BY <2>5, FS_EmptySet DEF Init, PendingInv
  <2> QED BY <2>1, <2>3, <2>4, <2>6 DEF IInv
<1>2. IInv /\ [Next]_vars => IInv'
  <2> SUFFICES ASSUME IInv, [Next]_vars PROVE IInv'
    OBVIOUS
  <2>1. CASE UNCHANGED vars
    BY <2>1 DEF vars, bvars, xvars, cvars, hvars, IInv, TypeOK, FlusherInv, PlaceInv, OutInOrder,
       DueInv, Covered, FlushCovers, PendingInv, Pending, Front, Back, Base
  <2>2. CASE FlusherStep
    BY <2>2, FlusherStartKeeps, EmitByteKeeps, FlusherWroteKeeps DEF FlusherStep
  <2>3. ASSUME NEW g \in Callers, Call(g) \/ CallStep(g) \/ Relock(g) PROVE IInv'
    BY <2>3, CallerKeeps, CallFlushKeeps, WriteSomeKeeps DEF Call, CallStep
  <2> QED BY <2>1, <2>2, <2>3 DEF Next
<1> QED BY <1>1, <1>2, PTL DEF Spec

\* The underlying writer receives the stream in order although it reads a buffer
\* without the lock, and until it fails every byte that Write has buffered is in
\* the output or in a buffer.
THEOREM BytesInPlace == Spec => []BufferInv
<1>1. IInv => BufferInv
  <2> SUFFICES ASSUME IInv PROVE NothingLost
    BY DEF IInv, BufferInv
  <2>1. PICK x \in {0, 1}, y \in {0, 1} : x = flushBuf % 2 /\ y = (flushBuf + 1) % 2 /\ x # y
    BY Slots DEF IInv, TypeOK
  <2>2. Front = bufs[x] /\ Back = bufs[y]
    BY <2>1 DEF Front, Back
  <2>3. /\ Len(Front) \in Nat /\ Len(Back) \in Nat /\ Len(out) \in Nat /\ emitted \in Nat
        /\ flushErr = "nil" => accepted = (Len(out) - emitted) + Len(Front) + Len(Back)
    BY Shapes DEF IInv, PlaceInv, Base
  <2>4. PICK a \in Nat, b \in Nat :
          /\ a = Len(bufs[0]) /\ b = Len(bufs[1])
          /\ (Len(Front) = a /\ Len(Back) = b) \/ (Len(Front) = b /\ Len(Back) = a)
    BY <2>1, <2>2, <2>3
  <2>5. PICK n \in Nat, m \in Nat : n = Len(out) /\ m = emitted
    BY <2>3
  <2>6. (n - m) + b + a = (n - m) + a + b
    OBVIOUS
  <2>7. flushErr = "nil" => accepted = (n - m) + a + b
    <3>1. CASE Len(Front) = a /\ Len(Back) = b
      BY <2>3, <2>5, <3>1, Zenon
    <3>2. CASE Len(Front) = b /\ Len(Back) = a
      BY <2>3, <2>5, <2>6, <3>2, Zenon
    <3> QED BY <2>4, <3>1, <3>2
  <2> QED BY <2>4, <2>5, <2>7 DEF NothingLost
<1> QED BY <1>1, Invariance, PTL

\* A Flush that returns no error has written out what was buffered before it.
THEOREM FlushCoversAll == Spec => []FlushCovers
<1>1. IInv => FlushCovers
  BY DEF IInv
<1> QED BY <1>1, Invariance, PTL

\* After an error of the underlying writer it is not called again.
THEOREM StopsAtError == Spec => FailStop
<1>1. IInv /\ [Next]_vars => [flushErr # "nil" => flushErr' = flushErr /\ out' = out]_vars
  <2> SUFFICES ASSUME IInv, Next, flushErr # "nil" PROVE flushErr' = flushErr /\ out' = out
    BY DEF vars
  <2>1. fpc = "none"
    BY DEF IInv, FlusherInv
  <2>2. ~FlusherStep
    BY <2>1 DEF FlusherStep, FlusherStart, EmitByte, FlusherWrote
  <2>3. PICK g \in Callers : Call(g) \/ CallStep(g) \/ Relock(g)
    BY <2>2 DEF Next
  <2>4. CASE Call(g)
    BY <2>4 DEF Call, CallWrite, FlushRefused, CallFlush, bvars, hvars
  <2>5. CASE CallStep(g)
    BY <2>5 DEF CallStep, WriteWait, WriteSome, InWrite, WriteEnd, FlushWait, FlushEnd, Return, bvars, hvars
  <2>6. CASE Relock(g)
    BY <2>6 DEF Relock, bvars, hvars
  <2> QED BY <2>3, <2>4, <2>5, <2>6
<1> QED BY <1>1, Invariance, PTL DEF Spec, FailStop

=============================================================================
