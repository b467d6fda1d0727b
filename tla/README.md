# A TLA+ model of go-util

go-util is a collection of small Go packages. Most of them are concurrent: they
batch writers, double-buffer, share locks by key, watch contexts or race attempts
against each other. This directory holds TLA+ models of those packages, the TLC
configurations that check them on small instances, and TLAPS proofs of the safety
properties for instances of any size; those of the radix tree are only
model-checked. `PROJECT.json` lists the runs, the correspondence
between definitions and source lines, and the hazards that the properties are about.

Check a run with `tlc -config MCLockMap.cfg MCLockMap`, the proofs of a component
with `tlapm LockMapProofs.tla`.

## Inventory

| package | state | operations | what is hard |
|---|---|---|---|
| `parallelwriter.Writer` | open batch and its done channel, error, two mutexes | `Write` | leaders and followers; an error that followers read later; order of batches |
| `parallelwriter.PipelinedFlushWriter` | a `Writer`, flush lock, latest flush channel, flush error | `Write`, flush goroutines | the flush of one batch overlaps the write of the next; shared channel and error |
| `parallelwriter.BufferedWriter` | ring buffer, list of operations, error, closed | `Write`, `Flush`, `Close`, flusher goroutine | ring memory read outside the lock; lost signals; joined flushes; callers stranded by an error |
| `ringbuffer` | array, start, length | `Append`, `Peek`, `Fetch`, `Consume` | wrap around, full, empty |
| `syncmap.LockMap` | map of counted mutexes | `Lock`, `Unlock`, `tryDelete` | counting outside the map's lock; deleting by key |
| `syncmap.SemaphoreMap` | map of counted weighted semaphores | `Acquire`, `AcquireContext`, `TryAcquire`, `Release`, `tryDelete` | the same, with failure and cancellation paths |
| `movingcounter` | ring of time buckets, running total and count | `Add`, `Total`, `Min`, `Max` | boundaries of the window, uneven buckets, a clock that steps back |
| `backgroundflush` | two buffers and their numbers, error | `Write`, `Flush`, `doFlush` goroutine | lost wakeups, target of a flush, memory read outside the lock |
| `refcontext` | list of contexts | `New`, `Ref`, watcher goroutine | clean-up against the watched context; `Ref` against the last end |
| `failover` | channels between four kinds of goroutines, two contexts | `DoSlice`, `Do` | results that nobody takes, closing of channels, propagation of a cancellation |
| `bitmap` | four words | `Set`, `Clear`, counts, searches | word boundaries; the n-th set bit by halving a word |
| `radix-tree` | tree of nodes, each with a bitmap and a compact list of children | insert, delete, get, min, max, iteration from a key | long sequences of operations that split, collapse and remove nodes |
| `compressedbuffer`, `io` | compressed blocks, write buffer, one cached block; offset of a reader | `Write`, `ReadAt`, `WriteMany`, `Read` | block boundaries, a stale cache, a flush that fails |
| `bufferpool` | pools by size class | `Get`, `GetUninit`, `Put`, `GetBuffer`, `PutBuffer`, `Buffer` | who owns memory; what reused memory contains |
| `badgerkv` | an external database | `Get`, `Exists`, `Put`, `Delete`, `DeleteRange`, `AtomicPut`, `AtomicDelete`, `ListKeys` | optimistic transactions that are overtaken, chunked deletion |
| `grpc`, `listeners` | done channel, connection channel, context, limiter; bytes buffered by the HTTP reader | `ServeHTTP`, `Accept`, `Close`, `Read`, the dialer | hand-over of a connection and of its bytes against `Close` |
| `crypto`, `cert`, `tempfile` | none | calls of the standard library | nothing of their own |

`PipelinedFlushWriter` calls `Writer`, whose underlying writer is an adapter that
calls back into it. `BufferedWriter` owns a `RingBuffer`. `Writer` takes its batches
from `bufferpool`. `radix-tree` is built on `bitmap`, `Buffer` of `bufferpool` on
its pools. The listeners of `listeners` wrap any listener, here the one of `grpc`,
and `io` wraps any reader or writer, here `compressedbuffer`. Otherwise packages
meet only in user code, through `io.Writer`, `context.Context` and callbacks.

## Modules

Four abstract specifications say what a component promises: `BoundedQueue` for
`RingBufferClient`, `OrderedMap` for `RadixTree`, `AppendLog` for `CompressedBuffer`
and `AtomicStore` for `BadgerStore`. `PipelinedFlushWriter` EXTENDS
`ParallelWriter`, reuses its actions, and is shown to implement it
(`ImplementsWriter`): for the inner `Writer`, the adapter's wait for the flush lock
is part of the underlying `Write`, and a caller that waits for a flush has returned.
`ParallelWriter` is the model of `Writer` itself; it is checked inside this
composition, and its theorems are about it alone. `BufferedWriter` EXTENDS
`RingBuffer`, `RadixTree` EXTENDS `Bitmap256`. `HijackListener` composes the rate
limited listener, the filtered one and the hijack handler; `CompressedBuffer`
composes the buffer with `WriteMany` and the sequential reader. `MCObjects` puts the
components together whose operations are atomic. They do not interact and every
behaviour of it exercises one of them, so it says nothing about their combination.
Each other `MCx` module instantiates a component for TLC and says why its bounds
reach the interesting cases.

What counts as a step: a critical section of a mutex is one action, since the fields
it protects are touched nowhere else; where a function waits on a condition variable
or loops while others can observe it (`BackgroundFlush`, `RefContext`) the lock is a
variable and an iteration is a step. Atomic accesses, channel operations and mutex
operations outside a critical section are steps of their own. `compressedbuffer`
holds its lock, and the ring buffer, the bitmap, the tree, the pools and the counter
have one user or a lock around them, so that a call is one step; a transaction of
`BadgerStore` begins in one step and commits in another. Pure operations are
operators, and in `MCObjects` a queried value is compared in every state. Where an
operator would be evaluated again and again, `The({...})` or `\E x \in {e}` binds
its value once; it has no other meaning. A loop inside an atomic call is a function
of the number of its turns (`turn` in `Write` and `ReadAt` of `CompressedBuffer`),
long enough for every call to end: a turn after the last changes nothing. The six
halvings of `FindNthSet` are written out, as in the code. The underlying `io.Writer` is external: it
emits its input piece by piece, so that overlapping calls would show as interleaved
output, and it may fail at any point. History variables (`acked`, `confirmed`,
`durable`, `due`, `accepted`, `order`, `kept`, `refd`, `ones`, `got`, `want`,
`sent`, `received`) record what properties compare; no guard reads them, except that
the bounds on the number of bytes or calls do. `given` of the ring buffer and `asked`
of the radix tree are the arguments of the last call: they are what the abstract
specification (`offered`, `key`) is held to, so that a call cannot pass for another.

| module | variables and the fields they stand for |
|---|---|
| `ParallelWriter` | `buf` is `Writer.buf` with `Writer.done`, named by its leader; `batch[g]`, `lead[g]`, `res[g]` are locals of the call; `out` is what the underlying writer received. A buffer is named by its caller and call number. |
| `PipelinedFlushWriter` | `flushLock`, `flushDone`, `flushErr`; flush `k` has goroutine `flusher[k]` and covers `snap[k]`. |
| `RingBuffer` | operators on a record of `buf`, `start`, `length`. |
| `BufferedWriter` | `rb`, `ops` (oldest first), `err`, `closed`; `fpc`, `cur`, `left`, `win`, `size`, `emitted` are the flusher's position, operation and the slice it passed on. A byte is its position in the stream. `BufSize = 0` stands for `rb == nil`. |
| `LockMap`, `SemaphoreMap` | the map, and one entry per object in `key`, `refCount`, `holder` / `cur`, `waiters`. In `SemaphoreMap` a goroutine is counted with `n[t]` and has `has[t]` tokens; between a release and the subtraction the two differ. Names of unreachable objects are reused, so that the number of calls is not bounded. |
| `MovingCounter` | the struct as a record `mc`; `now` is the clock; `kept` are the values that ought to count, with their times, told without buckets. |
| `BackgroundFlush` | `writeBuf`, `flushBuf`, `bufs`, `flushErr`; `flushActive` is `fpc # "none"`. |
| `RefContext` | `ctxs`, the watcher's position and watched context, the set of contexts that ended. |
| `Failover` | positions of the caller, producer, dispatcher and attempts; `token` is the content of `failoverCh`; `sliceCtx` and `doCtx` are the derived contexts. |
| `Bitmap256` | `bm`, a word being the set of its one bits; `ones` is the set it stands for. |
| `RadixTree` | `root` (a record for `node`; the length of its prefix is a field of its own), `treeLen`, and what the last call returned. A key has `KeyDigits` digits in base `BitmapSize`. |
| `CompressedBuffer` | `cb` is the struct, `many` a call of `WriteMany` under way, `off` the reader's offset. A byte is its position. |
| `BufferPool` | `heap` is memory and the pools, `held` what each user has. A byte is zero, poison or data. |
| `HijackedConn` | `bufr`, the bytes on the wire, and the progress of the dialer. |
| `HijackListener` | positions of handlers, acceptors and closers; `closedDone`, `done`; `ch` is the local of `Close`; `taken` the connection a filter looks at; `limitDone` and `tokens` are the context and the bucket of the limiter. |
| `BadgerStore` | `kv` is the committed state, `txn` the read and write sets of a transaction to be committed, `call` what a client is doing. |

## Runs

Invariants named `...Inv` are conjunctions of a module's type invariant and the
parts named in the table.

| run | what it shows |
|---|---|
| `pipelined_flush` | Of the inner `Writer`: `AckedIsWritten`, a `Write` that returned no error is written; `InOrder`, buffers come out once, whole and in the order they were taken in; `FailStop`, a failure is final. Of the pipeline: `ConfirmedIsDurable`, a `Write` that returned no error is covered by a `Flush` that succeeded; `FlushInv` (`FlushesSerialised`, and nobody waits on a nil channel); `ImplementsWriter` (refinement); `CallReturns`, with both locks and both channels. |
| `buffered_writer` | `StreamInv` (`OutInOrder`; `RingMatchesOps`, the ring's panics are out of reach), `AckCovers` (blocking writes and flushes, joined ones too), `FailStop`, `CallReturns`, `AcceptedIsWritten`: no signal is lost and no caller stranded. |
| `lock_map` | `CountsInv` (`RefCountExact`, `NoLeak`), `LockGranted`. |
| `lock_map_exclusion` | **violated**: `MutualExclusion`. |
| `semaphore_map` | `CountsInv` (`RefCountExact`, `NoLeak`), `AcquireGranted`; tokens are released all at once or in parts, and `TryAcquire` and `AcquireContext` may ask for more than there are. |
| `moving_counter_uneven` | **violated**: `NoPanic` when the buckets do not divide the period. |
| `background_flush` | `BufferInv` (`OutInOrder`, `NothingLost`), `FlushCovers`, `FailStop`, `CallReturns`. |
| `ref_context` | `ListInv` (`NoWatchPanic`), `AliveWhileReferenced`, `EndsAfterAll`, `WatcherExits`. |
| `failover` | `FailoverInv` (`TypeOK` with no send on a closed channel, `NothingLeaks`), `NoResultIsHonest`, `DoReturns`. |
| `failover_cancel` | **violated**: `NoResultAfterAllTries`. |
| `objects` | See the next table. |
| `hijack_listener` | `ListenerInv`: a connection taken over from net/http is in exactly one place (handler, acceptor, server, closed) while `Close` races the hand-over, and two `Close` calls close the channel once. `CloseUnblocks`: after `Close` every `Accept` fails in the end, the ones that wait for the limiter too, and every waiting handler returns. |

The properties of `objects`, by component:

| component | property |
|---|---|
| ring buffer | `ImplementsQueue` (refinement of `BoundedQueue`): the bytes given to `Append` that fit are what the queue takes in. `ReadsAgree` (`PeekIsPrefix`, `FetchIsExact`). |
| bitmap | `BitmapAgrees`: every count and search answers for the set of positions. |
| radix tree | `ImplementsMap` (refinement of `OrderedMap`): insertions and deletions change the key they were given, and no other, and return what it had. `RadixInv`: nodes stay compact and in order; `Len`, `Min`, `Max` and iterations from any key, in both directions and stopped after any number of items, agree with `Get`. |
| compressed buffer, io | `ImplementsLog` (refinement of `AppendLog`): nothing written changes and a sequential reader gets it in order. `CompressedInv`: exactly the bytes that were reported as written are held, each in its place, with compressions and decompressions that fail; the cached block is the block at its index; `ReadAt` reads any range. |
| buffer pool | `PoolInv`: memory has one owner (`OwnedOnce`), and a user finds what it wrote, or zeros after `Get`, never old contents (`ContentsKept`). |
| moving counter | `Accurate`: no panic, ordered buckets and a balanced total (`NoPanic`, `BucketsApart`, `Balanced`), and `Total`, `Min`, `Max` and the count are exactly those of the values that count (`QueriesRight`), whatever the clock does. A value counts until the start of its stretch is one period old; after a step back of the clock, one that is added before the start of the newest stretch does not count at all, as `getBucket` drops it, and what was expired stays so. While the clock does not step back no value is dropped (`NoneLate`). |
| hijacked connection | `StreamIntact`: the bytes after the HTTP message arrive once and in order, however many of them the HTTP reader had taken. |
| key-value store | `ImplementsStore` (refinement of `AtomicStore`): every call is atomic, except `DeleteRange`, which returns nil at an instant when the range is empty; a call that fails has no effect, except `DeleteRange`. |

### What the violated properties mean

* `LockMap.tryDelete` and `SemaphoreMap.tryDelete` delete by key. A goroutine that
  dropped the last reference may be delayed before `tryDelete`; meanwhile the same
  object is taken and dropped by another goroutine, deleted, and a new object is
  made for the key. The delayed call then deletes the new object while it is in use,
  and the next caller gets a third one: two holders of one key, or more than `n`
  tokens. `RefCountExact` and `NoLeak` hold all the same; what is missing is a check
  that the map still has this very object. One run shows it, on `LockMap`;
  `KeyLimit` of `SemaphoreMap`, added to `MCSemaphoreMap.cfg` as an invariant, is
  violated by the same steps.
* `NewMovingCounter` truncates `period / numBuckets`. If the division is not exact
  the buckets cover less than the period and `Add` reaches `panic("c.active >=
  len(c.buckets)")`. With an exact division it does not, even with a clock that
  steps back.
* In `failover`, the context that `DoSlice` derives is done before the one `Do`
  derives from it. If the producer closes its channel in between, `Do` can see all
  its attempts ended and its own context alive, and return `ErrNoResult` although
  options were not tried. The callers see the wrong error only.

### Bounds

Three goroutines are used where a scenario needs two that interact and one that is
delayed (a leader, its follower and the next leader; a delayed `tryDelete`, the
owner of the new object and a newcomer). One call each gives `pipelined_flush` up to
three batches, so that a flush overlaps the next write while a third batch collects.
The ring has three slots by itself, so that every start, fill level and split occurs,
and appends of up to one byte more than it holds; inside `BufferedWriter` it has two,
where no append is split (the theorem about `StreamInv` is for any ring). The
counter has two buckets of two units, three values that count at a time and a clock of
six units: the ring of buckets fills up, wraps, and a second bucket expires after the
first. A semaphore has two tokens and requests ask for up to three. Four references over three contexts let
one context be in the list twice. Three options give attempts that overlap and fail
over twice. `LockMap` and `SemaphoreMap` need no bound on the number of calls: names
of objects that nothing can reach are used again.

In `objects`, the bitmap has three words of four bits, so that there is a first, a
middle and a last word and two halvings; the tree has keys of three digits that
share two, one or none, so that nodes of every depth are made, split, collapsed and
removed; blocks have two bytes and seven bytes give three blocks and a part of one,
with writes that stage, complete and skip the staging; two users and three regions
of memory let a buffer grow while a donor keeps its slice, with a size below the
smallest class, one inside and one above the largest; two clients with three keys
let a transaction be overtaken between its begin and its commit, and a range be
deleted in several chunks. Two connections, two acceptors and two closers let a
hand-over race a `Close` and a `Close` another one.

Symmetry is used in `objects` only, for users, memory and clients: its properties
are invariants and refinements without liveness. No deadlock is checked in the runs
that say so in their configuration, because there all calls may be over.

### Fairness

Weak fairness of every goroutine's own steps: the Go scheduler does not starve a
runnable goroutine, and the underlying `Write` and `Flush`, the user's `f` and the
timers return. In `HijackListener` the handlers, the acceptors and a `Close` that
has begun go on; the limiter need not gain a token and connections need not come.
Nobody has to call an operation, cancel a context or end one. Strong fairness is
used for taking a `sync.Mutex` that others take again and again (`LockMap`,
`BackgroundFlush`, `RefContext`): its starvation mode hands the mutex to a goroutine
that has waited for a millisecond. `semaphore.Weighted` is FIFO and needs no strong
fairness.

## Proofs

Eight modules prove safety properties for every value of the constants. Each proof
has the same shape: an invariant `IInv` (or `...IInv`, `...Inv`) stronger than the
property, one lemma or step per action that shows that the action keeps it, and a
theorem that concludes with temporal logic.

| module | theorem | states |
|---|---|---|
| `ParallelWriterProofs` | `TypeCorrect`, `AckedWritten`, `WrittenInOrder`, `FailStops` | `WriterTypeOK`, `AckedIsWritten`, `InOrder`, `FailStop` of `WriterSpec` |
| `PipelinedFlushProofs` | `InnerImplements` | `ImplementsWriter`: the pipeline refines `WriterSpec` |
| | `PipelinedGuarantees` | `InOrder`, `AckedIsWritten`, `FailStop` of the pipeline |
| | `FlushesCorrect`, `ConfirmedDurable` | `FlushInv`, `ConfirmedIsDurable` |
| `BufferedWriterProofs` | `RingIsQueue`, `RingReadsAgree` | `ImplementsQueue`: `RingSpec` refines `BoundedQueue`; `ReadsAgree` |
| | `StreamIsKept`, `AcksAreTrue`, `FailureIsFinal` | `StreamInv`, `AckCovers`, `FailStop` |
| `LockMapProofs` | `CountsExact`, `ObjectsExclusive` | `CountsInv`, and that a single lock object has one holder |
| `SemaphoreMapProofs` | `WeightsExact`, `ObjectsLimited` | `CountsInv`, and that a single semaphore object gives out at most `n` tokens |
| `BackgroundFlushProofs` | `BytesInPlace`, `FlushCoversAll`, `StopsAtError` | `BufferInv`, `FlushCovers`, `FailStop` |
| `ObjectsProofs` | `StreamHandedOn` | `StreamIntact` of `ConnSpec` |
| | `StoreIsAtomic` | `ImplementsStore`: `BadgerSpec` refines `AtomicStore` |
| | `ConnectionsInOnePlace` | `ListenerInv` |
| | `WatcherFindsItsContext`, `OutlivesReferences` | `ListInv`, `AliveWhileReferenced` |
| | `PoolsAreSafe` | `PoolInv` |
| | `FailoverCorrect`, `NoResultHonest` | `FailoverInv`, `NoResultIsHonest` |
| `ContainersProofs` | `CounterIsAccurate` | `Accurate`, if `Period = NumBuckets * BucketPeriod` |
| | `BufferReadsBack`, `BufferIsLog` | `CompressedInv`; `ImplementsLog`: `CompressedSpec` refines `AppendLog` |
| | `BitmapIsSet` | `BitmapAgrees` |

The last two modules hold the proofs about components that share no state with
another. A component that is checked inside `MCObjects` has a specification of its
own for them (`RingSpec`, `PoolSpec`, `CounterSpec`, `CompressedSpec`, `BitmapSpec`,
`ConnSpec`, `BadgerSpec`): the steps that the run takes when it is the subject.

The assumptions are the named `ASSUME`s of the component modules, which TLC
evaluates in the runs. They say that nil is not the name of an object
(`WritersAssumption`, `NoneAssumption`, `CallersAssumption`), that bounds are natural
numbers, that sets of goroutines or handles which are counted are finite, that
blocks, capacities, periods and words are not empty, that a word has at most the 64
bits the halvings are made for, and of the requests to the store that their keys are
keys and that a deletion carries no value (`RequestsAssumption`). The prover knows
nothing of powers, so `PowersAssumption` of `BufferPool` gives it the two facts about
powers of two that the classes need: they are positive, and every size has a least
one that is not smaller. `LocksAssumption` and `SemasAssumption`, enough names for
the objects alive, are there for progress; no theorem uses them. Two theorems have a
hypothesis beyond these. A ring that is not nil has at least one slot, since the code
panics otherwise: `RingInit` says so. `CounterIsAccurate` assumes that the buckets
divide the period; without it the theorem is false, as the run
`moving_counter_uneven` shows.

Why the properties are not inductive, and what the invariants add:

* `ParallelWriter`. Nothing in `AckedIsWritten` says why the error a follower reads
  is about its own batch. `IInv` adds the locking discipline (`OpenBatch`, `Locked`,
  `NoErrorWhileWriting`: whoever is inside the underlying call holds `writeLock` and
  has seen no error), what batches contain (`OwnInBatch`, `FollowerInBatch`), how
  far the underlying call got (`SentIsWritten`, `BatchIsWritten`), and the same
  claim for calls about to return. The key case is the end of a leader
  (`FinishKeeps`): it wakes its followers with `err` set to its own outcome, and an
  `err` that is not nil never becomes nil again. For `InOrder` a second invariant
  says that the output, the batch being written and the open batch continue each
  other in the order of arrival.
* `PipelinedFlushWriter`. The refinement needs one fact (`AdapterInv`): a batch does
  not grow once its leader is inside the adapter. The theorems about
  `ParallelWriter` are then used through an instance of its proofs (`InnerProofs`),
  not proved again. `SerialInv` follows the flush lock from the adapter to the
  goroutine that unlocks it. `CoverInv` says that the latest flush covers every
  buffer whose `Write` is about to return nil, and that the flush a caller waits for
  covers that caller's buffer: a caller reads the channel after its batch is
  written, possibly after the next flush has replaced it.
* Ring buffer. The indices stay inside the array (`RingOK`), and no index goes
  around it more than once (`WrapsOnce`), which removes the modulo. `BlockAppends` says
  what one `writeBlock` does; `AppendFits`, that two of them take all that fits.
* `BufferedWriter`. `StreamInv` compares the ring with the sum of the operations,
  and says nothing of where a byte of one lies. `Account` does: as long as the
  flusher runs there is a `Layout`, two functions that give for each operation in
  the list the place in the stream and the place in the ring where it ends, so that
  output, rest of the current operation and list continue each other, and every
  blocked caller waits for an operation that ends at or behind what it is owed
  (`Waits`). A `Write` lengthens the newest operation or adds one, the flusher takes
  the oldest, and a `Flush` that joins another finds it behind its own bytes. The
  slice that is read outside the lock stays the next part of the stream, since
  writers only add behind it (`AtWork`). After an error the flusher is gone and
  nobody is left waiting (`Gone`). That the sum of the model, the cardinality of a
  set of pairs, is the length of the layout is proved separately (`IInvStream`).
* `LockMap`. Counting needs that an object in the map has the key it is found under
  (`OwnKey`), so that a deletion by key removes what it means to, or an object whose
  count is exact all the same. `ObjectsExclusive` says where the violation of
  `MutualExclusion` comes from: not from a lock, but from two locks for a key.
* `SemaphoreMap`. The same, and of the external `Weighted`: its count is the number
  of tokens its users have (`TokensExact`), its list holds those who wait, each
  once (`QueueExact`). Nobody has more tokens than it is counted with, and who has
  none left has released or never got any (`Holding`). The hard steps are a release,
  which serves a prefix of the list as long as the next request fits, and the
  subtraction after a partial one: if it leaves no reference, the goroutine has no
  token left either. `ObjectsLimited` is the counterpart of
  `ObjectsExclusive`.
* `BackgroundFlush`. Until an error the output, the front and the back buffer
  continue each other (`PlaceInv`) while the buffers swap roles by parity, and the
  bytes due to a `Flush` lie before its target (`DueInv`). That the bound on bytes
  holds with several writers in progress is a sum over callers; it is stated as the
  cardinality of a set of pairs (`PendingInv`), which the library's theorems about
  finite sets can count.
* `RefContext`. While the watcher waits, its context is the first of the list
  whatever the clean-up removed (`WatchInv`), and a live context that was added is in
  the list (`KeptInv`).
* `Failover`. Which context ends before which (`CtxInv`), why producer and
  dispatcher stop (`StopInv`), and where the value of each attempt is (`ValueInv`).
* `HijackListener`. A connection is in at most one place and in some place
  (`OnePlace`, `SomePlace`), and the channel to close is in `closedDone` or with one
  closer (`OneCloser`).
* `HijackedConn`. While the response is awaited, what is in flight is nothing, a
  refusal, or the message with the whole stream behind it (`AwaitInv`).
* `BadgerStore`. Between begin and commit, a transaction holds what its call asked
  for, and as long as it is not stale the comparison it made still holds of the
  committed state (`UpdateInv`); a commit makes stale whoever has read what it
  writes. So a commit is the instant at which the call takes effect.
* `BufferPool`. Memory in a pool is in the pool of its capacity and in no other, and
  nobody holds it (`HeapOK`, `HeldOK`); two handles with the same memory are a
  `Buffer` and the donor of the slice it was made from (`Exclusive`, `Lent`), which
  is why a `Buffer` gives back only what it has grown into. A slice in the pool has
  its first byte poisoned and memory in use has the contents its user knows, so that
  `Get` has to zero and `GetUninit` need not.
* `MovingCounter`. Whatever the clock does, active buckets are aligned, at least one
  bucket period apart for each place between them, not empty, and add up to the
  running total (`GoodCounter`): so after `expireOld` fewer than `NumBuckets` are
  active, if `NumBuckets` bucket periods fill the period, and there is room for
  another. Each active bucket sums up the values that count of its stretch, and the
  stretch of a value that counts has an active bucket (`Tracked`); so an `Add` finds
  its bucket, or none, or is late, exactly when the values that count say so
  (`SameCases`), and expiry drops the values of the buckets it drops.
  `SumFirst`, a recursive function, is handled by lemmas about its table
  (`SumExists`, `SumUnique`, `SumIs`) from which its laws follow.
* `CompressedBuffer`. The blocks are the stream cut at multiples of the block size,
  the staged bytes follow, and the cached block is the one at its index
  (`HoldsStream`). `WriteTurnIs` and `ReadTurnIs` say what a turn of the loops does;
  `WriteIs` and `ReadIs` follow it over the turns, and that they are enough: a turn
  that is not the last takes a byte, except one, the flush of a full staging buffer
  that a failed call left behind.
* `Bitmap256`. The invariant is small, the history is the set of one bits
  (`BitmapIInv`); the work is in the queries. A position is a word and a bit
  (`Joins`, `Splits`), which turns counts over words into counts over positions
  (`RankIs`, by bijections). The state of the halving search is `LocatedAt`: the bit
  sought lies within the next `span` bits, and `temp` is the word shifted to where
  they begin. Each halving halves the span (`HalveIs`), and in a span of one the bit
  is found (`Found`).

`SetInduction` derives the induction that these proofs need, over the turns of a
loop or the places of a list, from the well-foundedness of the naturals: the
property is a set, not an operator.

Model-checked only:

* Liveness, and whatever needs `ENABLED`: out of reach of the prover.
* `RadixInv` and `ImplementsMap`: the operations of the tree are recursive operators
  on nested nodes. Their laws need an induction over trees, and the prover handles
  no module that declares such operators.
* `MutualExclusion` and `KeyLimit` across the objects of a key, `NoPanic` with an
  uneven period and `NoResultAfterAllTries`: they do not hold; see above.

## Abstractions and omissions

* Payloads: a buffer is a name, a byte a position. Lengths that `Write` returns are
  not modelled, errors are.
* `bufferpool` inside `Writer` is not modelled; a batch is a sequence of names.
* Integers of `Int64Value` are unbounded, `count` too.
* `SemaphoreMap`: an `Acquire` of more than `n` tokens is left out, since it waits
  for a context that never ends; a `TryAcquire` of as many fails at once and an
  `AcquireContext` waits for its context outside the queue, as in
  `golang.org/x/sync` v0.1.0, and both are modelled. Calls with 0 tokens are left
  out. The parts that one goroutine acquired are released by it one after the other;
  releases of them by several goroutines at once are those of several holders. A
  release of more than is held, which `Weighted` answers with a panic, is left out.
* `BackgroundFlush`: sizes below 2, for which `Write` loops for ever, are
  excluded by `CapAssumption`. `MovingCounter`: `period < numBuckets`, for which the
  first `Add` divides by zero, is excluded by `BucketPeriodAssumption`.
* `BufferedWriter.Close` drops what is buffered; the comment on `Close` announces
  this for pending writes, and `AcceptedIsWritten` allows it.
* `BufferedWriter` with `BufSize = 0` (no ring, every `Write` blocks) is covered by
  the definitions; the run uses a ring of two bytes.
* `failover`: durations are abstracted, a timeout may expire at any time; `Do` is
  modelled as `DoSlice` calls it.
* `Bitmap256`: `countless_array.go` is excluded from the build by its tag; it
  computes the same count.
* `RadixTree`: capacities of child lists, and an iterator that changes the tree. The
  panic of `insert` needs a root with a prefix, which no tree has.
* `CompressedBuffer`: a compressed block is opaque, so `CompressedSize` is not
  modelled; the pools of compressors are not either.
* `BufferPool`: `Get(0)`, which panics, is excluded by `SizesAssumption`; a `Buffer`
  is not written after `Reset` and its zero value is not used, since
  `growIfNecessary` would dereference nil. A donor leaves its slice alone while a
  `Buffer` has it. How a `bytes.Buffer` grows is external: to what it needs or to
  the double.
* `HijackedConn`: one status stands for every response that is not 200 OK or cannot
  be read. Parsing the URL, dialling and writing the request are one step that
  succeeds or fails (`Connect`); a URL that is not https panics and is not dialled. On
  an error after `tls.Dial` the dialer returns without closing the connection, which has no effect
  on the stream.
* `HijackListener`: the three listeners are stacked in one order. A limiter with a
  rate of zero is one that never refills; one without burst fails at once, as `Wait`
  of `rate.Limiter` does for more than the burst.
* `BadgerStore`: the database is external. A transaction reads the state at its
  begin and fails if a key it read has been written since. Its own input and output
  errors are left out, and so is a first deletion of a chunk that is refused as too
  big, after which `DeleteRange` would return nil with keys left.

### Not modelled

* `crypto` and `cert` are sequences of calls of the standard library without state
  of their own; `tempfile` is a file system call and its fallback. A model would
  repeat the library's contract.
* `NewStore`, `DB` and `Close` of `badgerkv`, which open, return and close the
  database, and the five methods that return `ErrCallNotSupported`.
* `NewDialer` and the TLS part of `dialAndHijack`, and `Addr` of the listener: no
  state.

## History and what is left

Modelled and checked in this order: `ParallelWriter` with `PipelinedFlushWriter`,
`RingBuffer` and `BufferedWriter`, `LockMap` and `SemaphoreMap`, `BackgroundFlush`,
`MovingCounter`, `RefContext`, `Failover`; then `Bitmap256` and `RadixTree`,
`CompressedBuffer`, `BufferPool`, `HijackedConn` and `HijackListener`, `BadgerStore`,
and the abstract specifications of these. Proved: the writers first, then the
refinements of the store and of the ring buffer, then `SemaphoreMap`,
`BufferedWriter`, `BufferPool`, `MovingCounter`, `CompressedBuffer` and `Bitmap256`.

Left: a model of the radix tree on a table of nodes instead of nested ones, whose
operations are loops of turns like those of `CompressedBuffer`. Then `ImplementsMap`
would be a proof about paths in that table.
