------------------------------- MODULE RadixTree -------------------------------
(***************************************************************************)
(* radix.Tree: a radix tree over keys of KeyDigits digits in base          *)
(* BitmapSize (8 bytes in the code).  A node holds the keys that share the *)
(* first len digits of its prefix, in a compact list of children that its  *)
(* bitmap indexes by the next digit.  A child is an item or a node.        *)
(*                                                                         *)
(* The tree is a value and its methods operators on it: a node has one     *)
(* parent and nothing else holds it, so updating it in place is replacing  *)
(* it in its parent.  The capacity of the list is left out.                *)
(***************************************************************************)
EXTENDS Bitmap256

CONSTANTS
  KeyDigits,   \* digits of a key
  TreeItems,   \* the items used by the client: records with a key and a val
  Nil          \* no item

TreeKeys == {item.key : item \in TreeItems}

ASSUME KeyAssumption ==
  /\ KeyDigits \in Nat \ {0}
  /\ TreeKeys \subseteq 0..(BitmapSize^KeyDigits - 1)

\* Key & prefixMask(len): all but the first len digits are zero.
Prefix(key, len) == key - (key % BitmapSize^(KeyDigits - len))

CommonPrefixLen(a, b) == Max({l \in 0..KeyDigits : Prefix(a, l) = Prefix(b, l)})

\* An item and a node both have a key; the key of a node is its prefix.
MakeNewNode(prefix, len) ==
  [key |-> Prefix(prefix, len), len |-> len, bits |-> NoBits, items |-> <<>>]
IsNode(child) == child # Nil /\ "items" \in DOMAIN child

MatchesPrefix(n, key) == Prefix(key, n.len) = n.key
DigitAt(n, key) == (key \div BitmapSize^(KeyDigits - 1 - n.len)) % BitmapSize

\* getChild: the slot is counted from 0, a sequence from 1.
Slot(n, index) == CountLess(n.bits, index)
GetChild(n, index) ==
  IF Slot(n, index) < Len(n.items) /\ GetBit(n.bits, index)
  THEN n.items[Slot(n, index) + 1] ELSE Nil

DeleteChildFrom(n, index, slot) ==
  IF GetBit(n.bits, index)
  THEN [n EXCEPT !.bits = ClearBit(@, index), !.items = RemoveAt(@, slot + 1)]
  ELSE n

InsertChildInto(n, index, child, slot) ==
  IF GetBit(n.bits, index)
  THEN [n EXCEPT !.items = ReplaceAt(@, slot + 1, child)]
  ELSE [n EXCEPT !.bits = SetBit(@, index), !.items = InsertAt(@, slot + 1, child)]

\* The element of a singleton.  A variable bound over {e} is e evaluated once.
The(S) == CHOOSE x \in S : TRUE

RECURSIVE FetchItem(_, _)
FetchItem(n, key) ==
  The({ IF ~MatchesPrefix(n, key) \/ next = Nil THEN Nil
        ELSE IF IsNode(next) THEN FetchItem(next, key)
        ELSE IF next.key = key THEN next ELSE Nil : next \in {GetChild(n, DigitAt(n, key))} })

\* The smaller key goes to slot 0.
MakeNodeFromItems(a, b) ==
  LET n == MakeNewNode(a.key, CommonPrefixLen(a.key, b.key))
      lo == IF a.key < b.key THEN a ELSE b
      hi == IF a.key < b.key THEN b ELSE a
  IN  InsertChildInto(InsertChildInto(n, DigitAt(n, lo.key), lo, 0), DigitAt(n, hi.key), hi, 1)

\* What an update leaves in place of the node, and the item it returns.
Result(n, old) == [node |-> n, old |-> old]

\* Only called on a node whose prefix matches: the panic of insert needs a root
\* with a prefix.
RECURSIVE InsertItem(_, _)
InsertItem(n, item) ==
  LET index == DigitAt(n, item.key)
      With(child) == InsertChildInto(n, index, child, Slot(n, index))
      Into(next) ==
        IF next = Nil THEN Result(With(item), Nil)
        ELSE IF IsNode(next) /\ MatchesPrefix(next, item.key)
          THEN The({Result(With(r.node), r.old) : r \in {InsertItem(next, item)}})
        ELSE IF ~IsNode(next) /\ next.key = item.key THEN Result(With(item), next)
        ELSE Result(With(MakeNodeFromItems(item, next)), Nil)
  IN  The({Into(next) : next \in {GetChild(n, index)}})

\* Mutant: a node left with a single child is not collapsed.
SettleNever(n, index, child) ==
  IF child.items = <<>> THEN DeleteChildFrom(n, index, Slot(n, index))
  ELSE InsertChildInto(n, index, child, Slot(n, index))

\* Mutant: a node with a single child is taken for an empty one.
SettleEarly(n, index, child) ==
  IF Len(child.items) <= 1 THEN DeleteChildFrom(n, index, Slot(n, index))
  ELSE InsertChildInto(n, index, child, Slot(n, index))

\* The parent n after a deletion below the node child: an empty node is removed,
\* one with a single child is replaced by it.
Settle(n, index, child) ==
  IF child.items = <<>> THEN DeleteChildFrom(n, index, Slot(n, index))
  ELSE InsertChildInto(n, index, IF Len(child.items) = 1 THEN child.items[1] ELSE child,
                       Slot(n, index))

RECURSIVE DeleteItem(_, _)
DeleteItem(n, key) ==
  LET index == DigitAt(n, key)
      From(next) ==
        IF ~MatchesPrefix(n, key) \/ next = Nil THEN Result(n, Nil)
        ELSE IF IsNode(next)
          THEN The({Result(Settle(n, index, r.node), r.old) : r \in {DeleteItem(next, key)}})
        ELSE IF next.key = key THEN Result(DeleteChildFrom(n, index, Slot(n, index)), next)
        ELSE Result(n, Nil)
  IN  The({From(next) : next \in {GetChild(n, index)}})

RECURSIVE MinItem(_)
MinItem(n) ==
  IF n.items = <<>> THEN Nil
  ELSE IF IsNode(Head(n.items)) THEN MinItem(Head(n.items)) ELSE Head(n.items)

RECURSIVE MaxItem(_)
MaxItem(n) ==
  IF n.items = <<>> THEN Nil
  ELSE IF IsNode(Last(n.items)) THEN MaxItem(Last(n.items)) ELSE Last(n.items)

\* Iteration.  seen holds the items passed to an iterator that returns false at
\* the limit-th, so a full seen is the result false.  The start is the child under
\* the digit of the key in a node that the key belongs to.
AscendStart(n, key) ==
  IF MatchesPrefix(n, key) THEN CountLess(n.bits, DigitAt(n, key)) + 1 ELSE 1

RECURSIVE AscendFrom(_, _, _, _, _)
AscendFrom(n, i, key, limit, seen) ==
  LET Visit(child) ==
        IF IsNode(child) THEN AscendFrom(child, AscendStart(child, key), key, limit, seen)
        ELSE IF child.key >= key THEN Append(seen, child) ELSE seen
  IN  IF i > Len(n.items) \/ Len(seen) = limit THEN seen
      ELSE The({AscendFrom(n, i + 1, key, limit, s) : s \in {Visit(c) : c \in {n.items[i]}}})

AscendGreaterOrEqual(n, key, limit) == AscendFrom(n, AscendStart(n, key), key, limit, <<>>)

DescendStart(n, key) ==
  LET index == DigitAt(n, key)
  IN  IF ~MatchesPrefix(n, key) THEN Len(n.items)
      ELSE CountLess(n.bits, index) + (IF GetBit(n.bits, index) THEN 1 ELSE 0)

RECURSIVE DescendFrom(_, _, _, _, _)
DescendFrom(n, i, key, limit, seen) ==
  LET Visit(child) ==
        IF IsNode(child) THEN DescendFrom(child, DescendStart(child, key), key, limit, seen)
        ELSE IF child.key <= key THEN Append(seen, child) ELSE seen
  IN  IF i < 1 \/ Len(seen) = limit THEN seen
      ELSE The({DescendFrom(n, i - 1, key, limit, s) : s \in {Visit(c) : c \in {n.items[i]}}})

DescendLessOrEqual(n, key, limit) == DescendFrom(n, DescendStart(n, key), key, limit, <<>>)

-----------------------------------------------------------------------------
VARIABLES
  root,      \* Tree.root
  treeLen,   \* Tree.len
  asked,     \* the key that the last operation was called with, or Nil
  returned   \* the item that it returned

treeVars == <<root, treeLen, asked, returned>>

EmptyRoot == MakeNewNode(0, 0)

TreeInit == root = EmptyRoot /\ treeLen = 0 /\ asked = Nil /\ returned = Nil

ReplaceOrInsert(item) ==
  \E r \in {InsertItem(root, item)} :
    /\ root' = r.node
    /\ asked' = item.key
    /\ returned' = r.old
    /\ treeLen' = IF r.old = Nil THEN treeLen + 1 ELSE treeLen

DeleteI(key) ==
  \E r \in {DeleteItem(root, key)} :
    /\ root' = r.node
    /\ asked' = key
    /\ returned' = r.old
    /\ treeLen' = IF r.old # Nil THEN treeLen - 1 ELSE treeLen

ClearTree == root' = EmptyRoot /\ treeLen' = 0 /\ asked' = Nil /\ returned' = Nil

TreeNext ==
  \/ ClearTree
  \/ \E k \in TreeKeys : DeleteI(k)
  \/ \E item \in TreeItems : ReplaceOrInsert(item)

-----------------------------------------------------------------------------
\* The keys that Get finds, and the items of some of them in the order of the keys.
Found == {k \in TreeKeys : FetchItem(root, k) # Nil}
Sorted(S) ==
  [i \in 1..Cardinality(S) |->
     FetchItem(root, CHOOSE k \in S : Cardinality({j \in S : j < k}) = i - 1)]

\* The tree is a map: each operation changes the key it is called with, and only
\* that, and returns the item it replaces or removes.
TreeMap ==
  INSTANCE OrderedMap
    WITH MapKeys <- TreeKeys, MapItems <- TreeItems, None <- Nil,
         map <- [k \in TreeKeys |-> FetchItem(root, k)], key <- asked, old <- returned
ImplementsMap == TreeMap!MapSpec

\* Every node below the root has at least two children, a list as long as its
\* bitmap has bits, and every child under the digit and the prefix of the node.
RECURSIVE WellFormed(_)
WellFormed(n) ==
  /\ n.bits \in Bitmaps
  /\ CountBits(n.bits) = Len(n.items)
  /\ \A i \in DOMAIN n.items :
       LET child == n.items[i]
       IN  /\ MatchesPrefix(n, child.key)
           /\ GetBit(n.bits, DigitAt(n, child.key))
           /\ Slot(n, DigitAt(n, child.key)) = i - 1
           /\ IsNode(child) =>
                Len(child.items) >= 2 /\ child.len > n.len /\ WellFormed(child)

\* Iteration from any key in either direction, stopped after any number of items,
\* passes the items that Get finds, in order and without gaps.
IterationAgrees(found) ==
  \A key \in TreeKeys :
    \E up \in {Sorted({k \in found : k >= key})},
       down \in {Reverse(Sorted({k \in found : k <= key}))} :
      \A limit \in 1..Cardinality(TreeKeys) :
        LET Some(s) == SubSeq(s, 1, Min({limit, Len(s)}))
        IN  /\ AscendGreaterOrEqual(root, key, limit) = Some(up)
            /\ DescendLessOrEqual(root, key, limit) = Some(down)

\* The tree stays compact and sorted whatever nodes were split, collapsed and
\* removed, and Len, Min, Max and the iterations agree with Get.
RadixInv ==
  /\ WellFormed(root)
  /\ \E found \in {Found} :
       /\ treeLen = Cardinality(found)
       /\ MinItem(root) = IF found = {} THEN Nil ELSE FetchItem(root, Min(found))
       /\ MaxItem(root) = IF found = {} THEN Nil ELSE FetchItem(root, Max(found))
       /\ IterationAgrees(found)

=============================================================================
