------------------------------- MODULE MCObjects -------------------------------
(***************************************************************************)
(* The components whose operations are atomic (they have one user, or a    *)
(* lock or a transaction around each operation).  They do not interact:    *)
(* every behaviour exercises one of them, the subject, so that the states  *)
(* of the run are the sum and not the product of theirs.                   *)
(***************************************************************************)
EXTENDS RingBufferClient, RadixTree, CompressedBuffer, BufferPool, MovingCounter,
        HijackedConn, BadgerStore

VARIABLE subject

vars == <<subject, ringVars, bitmapVars, treeVars, logVars, poolVars, counterVars, connVars, storeVars>>

Init ==
  /\ subject \in {"ring", "bitmap", "tree", "log", "pool", "counter", "conn", "store"}
  /\ RingInit /\ BitmapInit /\ TreeInit /\ CompressedInit
  /\ PoolInit /\ CounterInit /\ ConnInit /\ BadgerInit

\* Only the subject changes.
Still(s, v) == subject # s => UNCHANGED v

Next ==
  /\ \/ subject = "ring" /\ RingNext
     \/ subject = "bitmap" /\ BitmapNext
     \/ subject = "tree" /\ TreeNext
     \/ subject = "log" /\ CompressedNext
     \/ subject = "pool" /\ PoolNext
     \/ subject = "counter" /\ CounterNext
     \/ subject = "conn" /\ ConnNext
     \/ subject = "store" /\ BadgerNext
  /\ Still("ring", ringVars) /\ Still("bitmap", bitmapVars) /\ Still("tree", treeVars)
  /\ Still("log", logVars) /\ Still("pool", poolVars) /\ Still("counter", counterVars)
  /\ Still("conn", connVars) /\ Still("store", storeVars)
  /\ UNCHANGED subject

Spec == Init /\ [][Next]_vars

\* Keys of three digits in base 12.  They share two digits, one or none, so that
\* nodes of every depth are made, split, collapsed and removed.
MCTreeItems ==
  [key : {0, 144}, val : {1, 2}] \union [key : {1, 12, 145, 1727}, val : {1}]

MCValues == {-1, 2}

\* Every operation on one key, and a range of two keys with a third behind it.
Call(op, key, end, prev, val) == [op |-> op, key |-> key, end |-> end, prev |-> prev, val |-> val]
MCRequests ==
  UNION {{Call("put", k, 0, 0, 1) : k \in KVKeys},
         {Call("delete", 2, 0, 0, 0), Call("deleteRange", 1, 3, 0, 0)},
         {Call("atomicPut", 2, 0, p, 2) : p \in {0, 1, 2}},
         {Call("atomicDelete", 2, 0, p, 0) : p \in {0, 1}},
         {Call("get", 2, 0, 0, 0), Call("exists", 2, 0, 0, 0), Call("listKeys", 1, 0, 0, 0)}}

\* Regions, handles and clients are interchangeable.
Symmetry == Permutations(Regions) \union Permutations(Handles) \union Permutations(Clients)

=============================================================================
