------------------------------- MODULE Bitmap256 -------------------------------
(***************************************************************************)
(* bitmap.Bitmap256, an array of Words machine words of WordBits bits (4   *)
(* and 64 in the code).  A word is the set of its one bits, so a mask is   *)
(* an intersection, OnesCount64 a cardinality and TrailingZeros64 a        *)
(* minimum.  The bitmap is a value, its methods operators on it; one       *)
(* client sets and clears bits.                                            *)
(***************************************************************************)
EXTENDS Integers, SequencesExt

CONSTANTS Words, WordBits

WordIndices == 0..(Words - 1)
BitIndices == 0..(WordBits - 1)
BitmapSize == Words * WordBits
Positions == 0..(BitmapSize - 1)

ASSUME WordAssumption == Words \in Nat \ {0} /\ WordBits \in 1..64

Bitmaps == [WordIndices -> SUBSET BitIndices]
NoBits == [w \in WordIndices |-> {}]

WordOf(pos) == pos \div WordBits
BitOf(pos) == pos % WordBits

SetBit(v, pos) == [v EXCEPT ![WordOf(pos)] = @ \union {BitOf(pos)}]
ClearBit(v, pos) == [v EXCEPT ![WordOf(pos)] = @ \ {BitOf(pos)}]
GetBit(v, pos) == BitOf(pos) \in v[WordOf(pos)]

NoneSet(v) == \A w \in WordIndices : v[w] = {}
AllSet(v) == \A w \in WordIndices : v[w] = BitIndices

\* The one bits of the words before w.
CountBefore(v, w) == Cardinality(UNION {{i} \X v[i] : i \in 0..(w - 1)})
CountBits(v) == CountBefore(v, Words)

CountLess(v, pos) ==
  Cardinality({b \in v[WordOf(pos)] : b < BitOf(pos)}) + CountBefore(v, WordOf(pos))

\* The first word is masked below pos, the others are searched whole.
FindNextSet(v, pos) ==
  LET i == WordOf(pos)
      masked == {b \in v[i] : b >= BitOf(pos)}
      later == {w \in WordIndices : w > i /\ v[w] # {}}
  IN  IF masked # {} THEN i * WordBits + Min(masked)
      ELSE IF later # {} THEN Min(later) * WordBits + Min(v[Min(later)])
      ELSE BitmapSize

FindNextClear(v, pos) == FindNextSet([w \in WordIndices |-> BitIndices \ v[w]], pos)

\* Mutant: the bit is sought in the lower half when it has n bits.
HalveEarly(s, width) ==
  LET low == {b \in s.temp : b < width}
  IN  IF Cardinality(low) < s.n
      THEN [pos |-> s.pos + width, n |-> s.n - Cardinality(low),
            temp |-> {b - width : b \in s.temp \ low}]
      ELSE s

\* One halving: skip the lower half unless the n-th bit is in it.
Halve(s, width) ==
  LET low == {b \in s.temp : b < width}
  IN  IF Cardinality(low) <= s.n
      THEN [pos |-> s.pos + width, n |-> s.n - Cardinality(low),
            temp |-> {b - width : b \in s.temp \ low}]
      ELSE s

\* The six halvings of a word.
Search(s) == Halve(Halve(Halve(Halve(Halve(Halve(s, 32), 16), 8), 4), 2), 1)

\* Skip the words that end before the n-th bit, then search the next by halves; in
\* a shorter word than the code's a half that is no shorter than it is not skipped.
FindNthSet(v, n) ==
  LET ends == {w \in WordIndices : CountBefore(v, w + 1) > n}
      w == Min(ends)
  IN  IF ends = {} THEN BitmapSize
      ELSE Search([pos |-> w * WordBits, n |-> n - CountBefore(v, w), temp |-> v[w]]).pos

-----------------------------------------------------------------------------
VARIABLES
  bm,    \* the bitmap
  ones   \* history: the positions set and not cleared since

bitmapVars == <<bm, ones>>

BitmapInit == bm = NoBits /\ ones = {}

Set(pos) == bm' = SetBit(bm, pos) /\ ones' = ones \union {pos}
Clear(pos) == bm' = ClearBit(bm, pos) /\ ones' = ones \ {pos}

BitmapNext == \E pos \in Positions : Set(pos) \/ Clear(pos)

BitmapSpec == BitmapInit /\ [][BitmapNext]_bitmapVars

-----------------------------------------------------------------------------
\* Every query answers for the set of positions that are set: the searches across
\* word boundaries with the end of the bitmap as "none", and the n-th set bit by
\* skipping words and halving the one that holds it.
FirstOr(S) == IF S = {} THEN BitmapSize ELSE Min(S)
BitmapAgrees ==
  /\ bm \in Bitmaps
  /\ CountBits(bm) = Cardinality(ones)
  /\ NoneSet(bm) <=> ones = {}
  /\ AllSet(bm) <=> ones = Positions
  /\ \A pos \in Positions :
       /\ GetBit(bm, pos) <=> pos \in ones
       /\ CountLess(bm, pos) = Cardinality({p \in ones : p < pos})
       /\ FindNextSet(bm, pos) = FirstOr({p \in ones : p >= pos})
       /\ FindNextClear(bm, pos) = FirstOr({p \in Positions \ ones : p >= pos})
       /\ FindNthSet(bm, pos) =
            FirstOr({p \in ones : Cardinality({q \in ones : q < p}) = pos})

=============================================================================
