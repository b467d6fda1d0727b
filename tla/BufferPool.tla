------------------------------ MODULE BufferPool ------------------------------
(***************************************************************************)
(* bufferpool: byte slices and bytes.Buffers in pools by power-of-two      *)
(* size, and Buffer, a growing buffer that starts on memory donated by its *)
(* caller.                                                                 *)
(*                                                                         *)
(* Memory is a set of named regions, so that two holders of one region are *)
(* seen.  sync.Pool is external: Get returns any pooled value or a new     *)
(* one, and pooled values may be dropped.  A byte is 0, the poison 1 or    *)
(* user data 2.                                                            *)
(***************************************************************************)
EXTENDS Integers, Sequences, FiniteSets

CONSTANTS
  Handles,      \* the variables of the users that hold a slice or a buffer
  Regions,      \* bound: names of memory
  MinSizeBits,
  MaxSizeBits,
  Sizes,        \* the sizes that are asked for
  MaxLen        \* bound: bytes in a buffer

ASSUME HandlesAssumption == IsFiniteSet(Handles)
ASSUME BitsAssumption == MinSizeBits \in Nat /\ MaxSizeBits \in Nat /\ MinSizeBits <= MaxSizeBits
\* Get(0) indexes an empty slice.
ASSUME SizesAssumption == Sizes \subseteq 1..MaxLen /\ MaxLen \in Nat

Classes == MinSizeBits..MaxSizeBits
Kinds == {"slice", "bytes"}   \* pool and byteBufferPool

\* Powers of two, which the provers know nothing of: facts of arithmetic and no
\* restriction of the constants.
ASSUME PowersAssumption ==
  /\ \A bits \in Classes : 2^bits \in Nat \ {0}
  /\ \A size \in 1..MaxLen : \E k \in 0..size : 2^k >= size /\ \A j \in 0..(k - 1) : 2^j < size

CeilLog2(size) == CHOOSE k \in 0..size : 2^k >= size /\ \A j \in 0..(k - 1) : 2^j < size
IsPow2(size) == size > 0 /\ 2^CeilLog2(size) = size

VARIABLES
  heap,  \* mem: the bytes of each region (none when free), fill: how many a
         \* pooled bytes.Buffer holds, pools: the pooled regions by kind and class
  held   \* what each handle holds: want is what its user relies on finding

poolVars == <<heap, held>>

Zeros(n) == [i \in 1..n |-> 0]
Overwritten(s, from, n) == [i \in DOMAIN s |-> IF i \in from..(from + n - 1) THEN 2 ELSE s[i]]
Capacity(r) == Len(heap.mem[r])

Nothing == [kind |-> "none"]
Holding(kind, r, len, donated, want) ==
  [kind |-> kind, region |-> r, len |-> len, donated |-> donated, want |-> want]
Holders(r) == {h \in Handles : held[h].kind # "none" /\ held[h].region = r}

\* make, in any free region.
Make(s, size) ==
  {[heap |-> [s EXCEPT !.mem[r] = Zeros(size)], region |-> r] : r \in {r \in Regions : s.mem[r] = <<>>}}

\* sync.Pool.Get with its New.
PoolGet(s, kind, bits) ==
  Make(s, 2^bits) \union
  {[heap |-> [s EXCEPT !.pools[kind][bits] = @ \ {r}], region |-> r] : r \in s.pools[kind][bits]}

GetUninit(s, size) ==
  IF CeilLog2(size) \in Classes THEN PoolGet(s, "slice", CeilLog2(size)) ELSE Make(s, size)

\* A first byte that is not zero marks memory that was used before.
Zeroed(g) ==
  IF g.heap.mem[g.region][1] = 0 THEN g
  ELSE [g EXCEPT !.heap.mem[g.region] = Zeros(Len(@))]

Get(s, size) == {Zeroed(g) : g \in GetUninit(s, size)}

GetBuffer(s, size) ==
  LET bits == IF CeilLog2(size) < MinSizeBits THEN MinSizeBits ELSE CeilLog2(size)
  IN  IF bits > MaxSizeBits THEN Make(s, size) ELSE PoolGet(s, "bytes", bits)

Poolable(cap) == IsPow2(cap) /\ CeilLog2(cap) \in Classes

\* Mutant: the first byte is left as the user wrote it.
PoisonedNot(mem) == mem
Poisoned(mem) == [mem EXCEPT ![1] = 1]

\* Put and PutBuffer: a capacity that is not a class is left to the collector.
Put(s, r) ==
  IF Poolable(Len(s.mem[r]))
  THEN [s EXCEPT !.mem[r] = Poisoned(@),
                 !.pools["slice"][CeilLog2(Len(s.mem[r]))] = @ \union {r}]
  ELSE [s EXCEPT !.mem[r] = <<>>]

PutBuffer(s, r) ==
  IF Poolable(Len(s.mem[r]))
  THEN [s EXCEPT !.fill[r] = 0, !.pools["bytes"][CeilLog2(Len(s.mem[r]))] = @ \union {r}]
  ELSE [s EXCEPT !.mem[r] = <<>>, !.fill[r] = 0]

-----------------------------------------------------------------------------
PoolInit ==
  /\ heap = [mem |-> [r \in Regions |-> <<>>], fill |-> [r \in Regions |-> 0],
             pools |-> [k \in Kinds |-> [c \in Classes |-> {}]]]
  /\ held = [h \in Handles |-> Nothing]

\* The collector drops a pooled value.
Drop ==
  /\ \E k \in Kinds, c \in Classes : \E r \in heap.pools[k][c] :
       heap' = [heap EXCEPT !.mem[r] = <<>>, !.pools[k][c] = @ \ {r}]
  /\ UNCHANGED held

\* Slices.  The user of an uninitialised one finds any bytes.
TakeSlice(h, size) ==
  /\ held[h] = Nothing
  /\ \/ \E g \in Get(heap, size) :
          /\ heap' = g.heap
          /\ held' = [held EXCEPT ![h] = Holding("slice", g.region, size, FALSE, Zeros(size))]
     \/ \E g \in GetUninit(heap, size) :
          /\ heap' = g.heap
          /\ held' = [held EXCEPT ![h] =
               Holding("slice", g.region, size, FALSE, SubSeq(g.heap.mem[g.region], 1, size))]

\* A slice is its user's alone to write or return: not while a Buffer has it.
Mine(h) == held[h].kind = "slice" /\ Holders(held[h].region) = {h}

Scribble(h, from) ==
  /\ Mine(h)
  /\ from <= held[h].len
  /\ LET n == held[h].len - from + 1
     IN  /\ heap' = [heap EXCEPT !.mem[held[h].region] = Overwritten(@, from, n)]
         /\ held' = [held EXCEPT ![h].want = Overwritten(@, from, n)]

PutSlice(h) ==
  /\ Mine(h)
  /\ heap' = Put(heap, held[h].region)
  /\ held' = [held EXCEPT ![h] = Nothing]

\* bytes.Buffers.  Their growth is external: to what is needed or to the double.
TakeBytes(h, size) ==
  /\ held[h] = Nothing
  /\ \E g \in GetBuffer(heap, size) :
       /\ heap' = g.heap
       /\ held' = [held EXCEPT ![h] = Holding("bytes", g.region, heap.fill[g.region], FALSE, <<>>)]

WriteBytes(h) ==
  /\ held[h].kind = "bytes" /\ held[h].len < MaxLen
  /\ LET r == held[h].region
         n == held[h].len + 1
         Stored(s, q) == [s EXCEPT !.mem[q] = Overwritten(@, 1, n), !.fill[q] = n]
         Hold(q) == held' = [held EXCEPT ![h].region = q, ![h].len = n,
                                         ![h].want = Append(@, 2)]
     IN  \/ n <= Capacity(r) /\ heap' = Stored(heap, r) /\ Hold(r)
         \/ /\ n > Capacity(r)
            /\ \E g \in Make(heap, n) \union Make(heap, 2 * Capacity(r)) :
                 /\ heap' = [Stored(g.heap, g.region) EXCEPT !.mem[r] = <<>>, !.fill[r] = 0]
                 /\ Hold(g.region)

PutBytes(h) ==
  /\ held[h].kind = "bytes"
  /\ heap' = PutBuffer(heap, held[h].region)
  /\ held' = [held EXCEPT ![h] = Nothing]

\* NewBuffer on the slice of handle d.
NewBuffer(h, d) ==
  /\ held[h] = Nothing
  /\ Mine(d)
  /\ held' = [held EXCEPT ![h] = Holding("buffer", held[d].region, held[d].len, TRUE, held[d].want)]
  /\ UNCHANGED heap

\* The old memory of a Buffer, which goes to the pool when it is the Buffer's own.
Released(s, b) == IF b.donated THEN s ELSE Put(s, b.region)

\* Buffer.Write of n bytes: growIfNecessary gets new memory, copies into it and
\* puts the old one.
WriteBuffer(h, n) ==
  LET b == held[h]
      Hold(r) == held' = [held EXCEPT ![h] =
                            Holding("buffer", r, b.len + n, FALSE, b.want \o [i \in 1..n |-> 2])]
      Stored(s, r) == [s EXCEPT !.mem[r] = Overwritten(@, b.len + 1, n)]
  IN  /\ b.kind = "buffer" /\ b.len + n <= MaxLen
      /\ \/ /\ ~b.donated /\ b.len + n <= Capacity(b.region)
            /\ heap' = Stored(heap, b.region)
            /\ Hold(b.region)
         \/ /\ b.donated \/ b.len + n > Capacity(b.region)
            /\ \E g \in Get(heap, b.len + n) :
                 LET copied == [g.heap EXCEPT !.mem[g.region] =
                       [i \in DOMAIN @ |-> IF i <= b.len THEN heap.mem[b.region][i] ELSE @[i]]]
                 IN  heap' = Stored(Released(copied, b), g.region) /\ Hold(g.region)

\* Buffer.Reset, after which a Write would dereference nil.
Reset(h) ==
  /\ held[h].kind = "buffer"
  /\ heap' = Released(heap, held[h])
  /\ held' = [held EXCEPT ![h] = Nothing]

PoolNext ==
  \/ Drop
  \/ \E h \in Handles :
       \/ \E size \in Sizes : TakeSlice(h, size) \/ TakeBytes(h, size)
       \/ Scribble(h, 2)
       \/ PutSlice(h) \/ WriteBytes(h) \/ PutBytes(h) \/ Reset(h)
       \/ \E d \in Handles : NewBuffer(h, d)
       \/ \E n \in {1, 2} : WriteBuffer(h, n)

PoolSpec == PoolInit /\ [][PoolNext]_poolVars

-----------------------------------------------------------------------------
Pooled == UNION {heap.pools[k][c] : k \in Kinds, c \in Classes}
Owners(r) == {h \in Holders(r) : ~held[h].donated}

\* Memory has one owner: it is in one pool, in the class of its capacity, or it
\* belongs to one handle.  Memory lent to a Buffer still belongs to the donor.
OwnedOnce ==
  /\ \A k \in Kinds, c \in Classes : \A r \in heap.pools[k][c] :
       /\ Capacity(r) = 2^c
       /\ \A j \in Kinds, d \in Classes : r \in heap.pools[j][d] => j = k /\ d = c
  /\ \A r \in Regions : Cardinality(Owners(r)) <= (IF r \in Pooled THEN 0 ELSE 1)
  /\ \A h \in Handles : held[h].kind # "none" => Capacity(held[h].region) >= held[h].len

\* The user of a slice or a buffer finds what it wrote, and after Get zeros, over
\* any reuse of memory, growth and donation; a bytes.Buffer is taken empty.
ContentsKept ==
  \A h \in Handles :
    held[h].kind # "none" =>
      SubSeq(heap.mem[held[h].region], 1, held[h].len) = held[h].want

\* Pooled memory is never shared and never leaks its old contents to a caller of
\* Get or into a Buffer.
PoolInv == OwnedOnce /\ ContentsKept

=============================================================================
