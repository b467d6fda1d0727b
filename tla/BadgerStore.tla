----------------------------- MODULE BadgerStore -----------------------------
(***************************************************************************)
(* badgerkv.Store: the operations of a key-value store as transactions of  *)
(* an external Badger database.                                            *)
(*                                                                         *)
(* As the store uses it, a Badger transaction reads the database as it was *)
(* when it began, buffers its writes, and fails to commit if another one   *)
(* has since written a key that it read.  One that wrote nothing commits   *)
(* at once.  Other errors of the database are left out.  Keys are integers *)
(* in the order of the code's byte strings.                                *)
(***************************************************************************)
EXTENDS Integers, FiniteSets, Sequences

CONSTANTS
  Clients,    \* goroutines that call the store
  KVKeys,
  Absent,     \* no value, and the previous pair nil
  Requests,   \* records with op, key, end, prev and val
  MaxDeleteTransactionSize,
  MaxListedKeys

ASSUME KeysAssumption == KVKeys \subseteq Int /\ IsFiniteSet(KVKeys)
\* Any key of a request is a key; Delete and AtomicDelete have no value.
ASSUME RequestsAssumption ==
  \A r \in Requests :
    /\ r.op \in {"get", "exists", "listKeys", "put", "delete", "atomicPut", "atomicDelete", "deleteRange"}
    /\ r.key \in KVKeys /\ r.end \in Int
    /\ r.op \in {"delete", "atomicDelete"} => r.val = Absent
ASSUME MaxAssumption == MaxDeleteTransactionSize \in Nat \ {0} /\ MaxListedKeys \in Nat \ {0}

VARIABLES
  kv,    \* the committed value of each key, or Absent
  call,  \* per client: the request under way, or the reply to the last one
  txn    \* per client: the transaction that has begun and is to be committed

storeVars == <<kv, call, txn>>

Reply(err, data) == [op |-> "done", err |-> err, data |-> data]
NoTxn == [open |-> FALSE, reads |-> {}, writes |-> {}, val |-> Absent, stale |-> FALSE]
Txn(reads, writes, val) ==
  [open |-> TRUE, reads |-> reads, writes |-> writes, val |-> val, stale |-> FALSE]

Present == {k \in KVKeys : kv[k] # Absent}
From(start) == {k \in Present : k >= start}

\* The sets of the first keys of S, in the order of an iterator.
Initials(S) == {T \in SUBSET S : \A k \in T, j \in S \ T : k < j}
InOrderOf(S) ==
  [i \in 1..Cardinality(S) |-> CHOOSE k \in S : Cardinality({j \in S : j < k}) = i - 1]

BadgerInit ==
  /\ kv = [k \in KVKeys |-> Absent]
  /\ call = [c \in Clients |-> Reply("nil", <<>>)]
  /\ txn = [c \in Clients |-> NoTxn]

Return(c, err, data) == call' = [call EXCEPT ![c] = Reply(err, data)]

Invoke(c, r) ==
  /\ call[c].op = "done"
  /\ call' = [call EXCEPT ![c] = r]
  /\ UNCHANGED <<kv, txn>>

-----------------------------------------------------------------------------
\* GetInto, Exists and ListKeys, each one read-only transaction.
GetInto(c) ==
  /\ call[c].op = "get"
  /\ IF kv[call[c].key] = Absent THEN Return(c, "KeyNotFound", <<>>)
     ELSE Return(c, "nil", <<kv[call[c].key]>>)
  /\ UNCHANGED <<kv, txn>>

Exists(c) ==
  /\ call[c].op = "exists"
  /\ Return(c, "nil", IF kv[call[c].key] = Absent THEN <<>> ELSE <<call[c].key>>)
  /\ UNCHANGED <<kv, txn>>

ListKeys(c) ==
  /\ call[c].op = "listKeys"
  /\ \E S \in Initials(From(call[c].key)) :
       /\ Cardinality(S) = MaxListedKeys \/ (S = From(call[c].key) /\ Cardinality(S) < MaxListedKeys)
       /\ Return(c, "nil", InOrderOf(S))
  /\ UNCHANGED <<kv, txn>>

-----------------------------------------------------------------------------
\* The functions that Put, Delete, AtomicPut and AtomicDelete give to Update: the
\* error they return, or nil once the write is buffered.
AtomicPutError(r) ==
  LET old == kv[r.key]
  IN  IF old = Absent /\ r.prev # Absent THEN "KeyNotFound"
      ELSE IF old # Absent /\ r.prev = Absent THEN "KeyExists"
      ELSE IF r.prev # Absent /\ r.prev # old THEN "KeyModified"
      ELSE "nil"

AtomicDeleteError(r) ==
  LET old == kv[r.key]
  IN  IF r.prev = Absent THEN "PreviousNotSpecified"
      ELSE IF old = Absent THEN "KeyNotFound"
      ELSE IF r.prev # old THEN "KeyModified"
      ELSE "nil"

UpdateError(r) ==
  IF r.op = "atomicPut" THEN AtomicPutError(r)
  ELSE IF r.op = "atomicDelete" THEN AtomicDeleteError(r)
  ELSE "nil"

\* Get inside the transaction: only the atomic operations read what they write.
KeysRead(r) == IF r.op \in {"atomicPut", "atomicDelete"} THEN {r.key} ELSE {}

BeginUpdate(c) ==
  LET r == call[c]
      err == UpdateError(r)
  IN  /\ r.op \in {"put", "delete", "atomicPut", "atomicDelete"}
      /\ ~txn[c].open
      /\ IF err # "nil" THEN Return(c, err, <<>>) /\ UNCHANGED txn
         ELSE txn' = [txn EXCEPT ![c] = Txn(KeysRead(r), {r.key}, r.val)] /\ UNCHANGED call
      /\ UNCHANGED kv

\* DeleteRange.  The first keys of the range that one transaction deletes: at most
\* MaxDeleteTransactionSize, fewer when Badger reports ErrTxnTooBig, which it does
\* not at the first.
Chunks(r) ==
  LET range == {k \in From(r.key) : k < r.end}
  IN  {S \in Initials(range) :
         Cardinality(S) <= MaxDeleteTransactionSize /\ (S = {} => range = {})}

\* The iterator also reads the key that it stops at, unless the count stops it.
KeysSeen(r, S) ==
  LET rest == From(r.key) \ S
  IN  IF Cardinality(S) = MaxDeleteTransactionSize THEN S
      ELSE S \union {k \in rest : \A j \in rest : k <= j}

\* Mutant: a chunk that is not full is taken for the last.
MoreIfFull(S) == Cardinality(S) = MaxDeleteTransactionSize
\* Whether the loop goes on.
More(S) == S # {}

BeginChunk(c) ==
  LET r == call[c]
  IN  /\ r.op = "deleteRange" /\ ~txn[c].open
      /\ \E S \in Chunks(r) :
           IF S = {} THEN Return(c, "nil", <<>>) /\ UNCHANGED txn
           ELSE txn' = [txn EXCEPT ![c] = Txn(KeysSeen(r, S), S, Absent)] /\ UNCHANGED call
      /\ UNCHANGED kv

\* Txn.Commit, and the return of Update.
Conflict(c) ==
  /\ txn[c].open /\ txn[c].stale
  /\ txn' = [txn EXCEPT ![c] = NoTxn]
  /\ Return(c, "Conflict", <<>>)
  /\ UNCHANGED kv

Commit(c) ==
  /\ txn[c].open /\ ~txn[c].stale
  /\ kv' = [k \in KVKeys |-> IF k \in txn[c].writes THEN txn[c].val ELSE kv[k]]
  /\ txn' = [d \in Clients |->
       IF d = c THEN NoTxn
       ELSE [txn[d] EXCEPT !.stale = @ \/ txn[d].reads \intersect txn[c].writes # {}]]
  /\ IF call[c].op = "deleteRange" /\ More(txn[c].writes) THEN UNCHANGED call
     ELSE Return(c, "nil", <<>>)

BadgerNext ==
  \E c \in Clients :
    \/ \E r \in Requests : Invoke(c, r)
    \/ GetInto(c) \/ Exists(c) \/ ListKeys(c)
    \/ BeginUpdate(c) \/ BeginChunk(c) \/ Conflict(c) \/ Commit(c)

BadgerSpec == BadgerInit /\ [][BadgerNext]_storeVars

-----------------------------------------------------------------------------
\* Every operation of the store is atomic, although a transaction that compares
\* and sets may be overtaken between its reads and its commit and DeleteRange
\* runs several: what a client is told is true of the store at one instant of
\* its call.
Atomic == INSTANCE AtomicStore
ImplementsStore == Atomic!StoreSpec

=============================================================================
