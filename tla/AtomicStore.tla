----------------------------- MODULE AtomicStore -----------------------------
(***************************************************************************)
(* What the key-value store promises to its clients: every call takes      *)
(* effect at one instant between its start and its return, except that     *)
(* DeleteRange removes keys in several steps and returns nil at an instant *)
(* when none of the range is left.  A call that fails changes nothing,     *)
(* except DeleteRange.  Reads and blind writes do not fail.                *)
(***************************************************************************)
EXTENDS Integers, FiniteSets, Sequences

CONSTANTS Clients, KVKeys, Absent, Requests

VARIABLES
  kv,    \* the value of each key, or Absent
  call   \* per client: the request under way, or the reply to the last one

Reply(err, data) == [op |-> "done", err |-> err, data |-> data]
Present == {k \in KVKeys : kv[k] # Absent}
From(start) == {k \in Present : k >= start}
InRange(r) == {k \in Present : r.key <= k /\ k < r.end}

\* The keys of S, lowest first.
InOrderOf(S) ==
  [i \in 1..Cardinality(S) |-> CHOOSE k \in S : Cardinality({j \in S : j < k}) = i - 1]

StoreInit ==
  /\ kv = [k \in KVKeys |-> Absent]
  /\ call = [c \in Clients |-> Reply("nil", <<>>)]

Returns(c, err, data) == call' = [call EXCEPT ![c] = Reply(err, data)]

Calls(c) ==
  /\ call[c].op = "done"
  /\ \E r \in Requests : call' = [call EXCEPT ![c] = r]
  /\ UNCHANGED kv

Reads(c) ==
  /\ UNCHANGED kv
  /\ LET r == call[c]
     IN  \/ /\ r.op = "get"
            /\ IF kv[r.key] = Absent THEN Returns(c, "KeyNotFound", <<>>)
               ELSE Returns(c, "nil", <<kv[r.key]>>)
         \/ /\ r.op = "exists"
            /\ Returns(c, "nil", IF kv[r.key] = Absent THEN <<>> ELSE <<r.key>>)
         \* Some consecutive keys from the start on, at least one if there is one.
         \/ /\ r.op = "listKeys"
            /\ \E S \in SUBSET From(r.key) :
                 /\ \A k \in S, j \in From(r.key) \ S : k < j
                 /\ S = {} => From(r.key) = {}
                 /\ Returns(c, "nil", InOrderOf(S))

Writes(c) ==
  LET r == call[c]
  IN  /\ r.op \in {"put", "delete"}
      /\ kv' = [kv EXCEPT ![r.key] = IF r.op = "put" THEN r.val ELSE Absent]
      /\ Returns(c, "nil", <<>>)

\* Compare and set, and compare and delete: val is Absent for the latter.  The
\* comparison with an absent key succeeds only for the former.
Swaps(c) ==
  LET r == call[c]
      refusal == IF r.op = "atomicDelete" /\ r.prev = Absent THEN "PreviousNotSpecified"
                 ELSE IF kv[r.key] = r.prev THEN "nil"
                 ELSE IF kv[r.key] = Absent THEN "KeyNotFound"
                 ELSE IF r.prev = Absent THEN "KeyExists"
                 ELSE "KeyModified"
  IN  /\ r.op \in {"atomicPut", "atomicDelete"}
      /\ Returns(c, refusal, <<>>)
      /\ kv' = IF refusal = "nil" THEN [kv EXCEPT ![r.key] = r.val] ELSE kv

Removes(c) ==
  /\ call[c].op = "deleteRange"
  /\ \/ /\ \E S \in SUBSET InRange(call[c]) :
             kv' = [k \in KVKeys |-> IF k \in S THEN Absent ELSE kv[k]]
        /\ UNCHANGED call
     \/ InRange(call[c]) = {} /\ Returns(c, "nil", <<>>) /\ UNCHANGED kv

\* A conflict with another client.
Conflicts(c) ==
  /\ call[c].op \in {"atomicPut", "atomicDelete", "deleteRange"}
  /\ Returns(c, "Conflict", <<>>)
  /\ UNCHANGED kv

StoreNext ==
  \E c \in Clients : Calls(c) \/ Reads(c) \/ Writes(c) \/ Swaps(c) \/ Removes(c) \/ Conflicts(c)

StoreSpec == StoreInit /\ [][StoreNext]_<<kv, call>>

=============================================================================
