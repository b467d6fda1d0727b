--------------------------- MODULE CompressedBuffer ---------------------------
(***************************************************************************)
(* compressedbuffer.Buffer, used through io.WriteMany and the sequential   *)
(* reader of io.NewReader.                                                 *)
(*                                                                         *)
(* Bytes are collected in writeBuf and compressed a block at a time.  The  *)
(* buffer's mutex makes each Write and each ReadAt one step.  zlib is      *)
(* external: a compressed block is opaque, its length is not modelled, and *)
(* any compression or decompression may fail: ok is how many succeed       *)
(* before one fails.  A byte is its position in the stream, since the code *)
(* never looks at its value.                                               *)
(***************************************************************************)
EXTENDS Integers, SequencesExt

CONSTANTS
  BlockSize,
  WriteLens,  \* lengths of the slices that are written
  ReadLens,   \* lengths of the slices that are read into
  MaxLog      \* bound: bytes in the buffer

ASSUME BlockAssumption == BlockSize \in Nat \ {0} /\ MaxLog \in Nat
ASSUME LensAssumption == WriteLens \subseteq Nat /\ ReadLens \subseteq Nat

Deflate(p) == [zlib |-> p]
Inflate(z) == z.zlib

\* lastDecompBlock is nil until a block was read.
NewCompressedBuffer ==
  [blocks |-> <<>>, size |-> 0, writeBuf |-> <<>>, lastDecompIndex |-> 0, lastDecompBlock |-> <<>>]

AppendBlock(b, p) == [b EXCEPT !.blocks = Append(@, Deflate(p))]

FlushWriter(b) == [AppendBlock(b, b.writeBuf) EXCEPT !.writeBuf = <<>>]

\* One turn of the loop of Write on the buffer, what is left of p, the bytes
\* written, and whether a compression failed.  A block that is complete in p is not
\* staged.  When the flush of the staged block fails its bytes count as written,
\* stay staged, and the next Write takes none of p before it flushes them.
WriteTurn(w) ==
  LET b == w.buf
      n == Min({Len(w.p), BlockSize - Len(b.writeBuf)})
      data == SubSeq(w.p, 1, n)
      direct == n = BlockSize
      full == ~direct /\ Len(b.writeBuf) + n = BlockSize
      took == [b EXCEPT !.size = @ + n]
      staged == [took EXCEPT !.writeBuf = @ \o data]
      After(c, ok, failed) ==
        [buf |-> c, p |-> SubSeq(w.p, n + 1, Len(w.p)), n |-> w.n + n, ok |-> ok, failed |-> failed]
  IN  IF w.failed \/ w.p = <<>> THEN w
      ELSE IF direct /\ w.ok = 0 THEN [w EXCEPT !.failed = TRUE]
      ELSE IF direct THEN After(AppendBlock(took, data), w.ok - 1, FALSE)
      ELSE IF ~full THEN After(staged, w.ok, FALSE)
      ELSE IF w.ok = 0 THEN After(staged, 0, TRUE)
      ELSE After(FlushWriter(staged), w.ok - 1, FALSE)

\* The first turn may only flush, every other takes a byte or is the last.
Write(b, p, ok) ==
  LET turn[k \in 0..(Len(p) + 1)] ==
        IF k = 0 THEN [buf |-> b, p |-> p, n |-> 0, ok |-> ok, failed |-> FALSE]
        ELSE WriteTurn(turn[k - 1])
  IN  turn[Len(p) + 1]

\* Mutant: any cached block will do.
CachedAny(b, i) == b.lastDecompBlock # <<>>
Cached(b, i) == b.lastDecompBlock # <<>> /\ b.lastDecompIndex = i

CacheBlock(b, i) ==
  [b EXCEPT !.lastDecompBlock = Inflate(b.blocks[i + 1]), !.lastDecompIndex = i]

\* One turn of the loop of ReadAt, with readBlock: left bytes are wanted from off
\* on.  The last, unfinished block is writeBuf.
ReadTurn(r) ==
  LET b == r.buf
      i == r.off \div BlockSize
      start == r.off % BlockSize
      Copied(c, src, ok) ==
        LET part == SubSeq(src, start + 1, Min({Len(src), start + r.left}))
        IN  [buf |-> c, left |-> r.left - Len(part), off |-> r.off + Len(part),
             data |-> r.data \o part, ok |-> ok, err |-> "nil"]
  IN  IF r.err # "nil" \/ r.left = 0 THEN r
      ELSE IF r.off >= b.size THEN [r EXCEPT !.err = "EOF"]
      ELSE IF i = Len(b.blocks) THEN Copied(b, b.writeBuf, r.ok)
      ELSE IF Cached(b, i) THEN Copied(b, b.lastDecompBlock, r.ok)
      ELSE IF r.ok = 0 THEN [r EXCEPT !.err = "zlib"]
      ELSE Copied(CacheBlock(b, i), Inflate(b.blocks[i + 1]), r.ok - 1)

\* Every turn copies a byte or is the last.
ReadAt(b, n, o, ok) ==
  LET turn[k \in 0..(n + 1)] ==
        IF k = 0 THEN [buf |-> b, left |-> n, off |-> o, data |-> <<>>, ok |-> ok, err |-> "nil"]
        ELSE ReadTurn(turn[k - 1])
  IN  turn[n + 1]

-----------------------------------------------------------------------------
VARIABLES
  cb,     \* the buffer
  many,   \* a WriteMany call: the lengths of the slices left, and written
  acked,  \* history: the bytes that calls have reported as written
  off,    \* readerAtAdapter.off
  got     \* history: the bytes the reader was given

logVars == <<cb, many, acked, off, got>>

Idle == [bufs |-> <<>>, written |-> 0]
Payload(n) == [i \in 1..n |-> cb.size + i]
Outcomes == 0..(MaxLog \div BlockSize + 1)   \* the last: more than any call compresses or decompresses

CompressedInit ==
  /\ cb = NewCompressedBuffer
  /\ many = Idle
  /\ acked = 0
  /\ off = 0
  /\ got = <<>>

\* A Write by any goroutine.
DoWrite(n, ok) ==
  /\ cb.size + n <= MaxLog
  /\ \E r \in {Write(cb, Payload(n), ok)} : cb' = r.buf /\ acked' = acked + r.n
  /\ UNCHANGED <<many, off, got>>

StartWriteMany(bufs) ==
  /\ many = Idle
  /\ many' = [many EXCEPT !.bufs = bufs]
  /\ UNCHANGED <<cb, acked, off, got>>

\* Mutant: the bytes of the slice whose Write failed are not reported.
WrittenBefore(r) == IF r.failed THEN 0 ELSE r.n
\* What the slice adds to the result of WriteMany.
Counted(r) == r.n

\* The next slice of WriteMany, which returns after the last or at an error.
WriteNext(ok) ==
  /\ many.bufs # <<>>
  /\ cb.size + Head(many.bufs) <= MaxLog
  /\ \E r \in {Write(cb, Payload(Head(many.bufs)), ok)} :
       LET written == many.written + Counted(r)
           returns == r.failed \/ Len(many.bufs) = 1
       IN  /\ cb' = r.buf
           /\ many' = IF returns THEN Idle ELSE [bufs |-> Tail(many.bufs), written |-> written]
           /\ acked' = IF returns THEN acked + written ELSE acked
  /\ UNCHANGED <<off, got>>

\* readerAtAdapter.Read
Read(n, ok) ==
  /\ \E r \in {ReadAt(cb, n, off, ok)} :
       /\ cb' = r.buf
       /\ off' = off + Len(r.data)
       /\ got' = got \o r.data
  /\ UNCHANGED <<many, acked>>

CompressedNext ==
  \/ \E n \in WriteLens, ok \in Outcomes : DoWrite(n, ok)
  \/ \E m, n \in WriteLens : StartWriteMany(<<m, n>>)
  \/ \E ok \in Outcomes : WriteNext(ok)
  \/ \E n \in ReadLens, ok \in Outcomes : Read(n, ok)

CompressedSpec == CompressedInit /\ [][CompressedNext]_logVars

-----------------------------------------------------------------------------
\* The bytes in the buffer: those of the blocks, then those staged.
Compressed(b) == Len(b.blocks) * BlockSize
Content(b) ==
  [i \in 1..(Compressed(b) + Len(b.writeBuf)) |->
     IF i <= Compressed(b)
     THEN Inflate(b.blocks[((i - 1) \div BlockSize) + 1])[((i - 1) % BlockSize) + 1]
     ELSE b.writeBuf[i - Compressed(b)]]

\* The buffer is an append-only log and the adapter a sequential reader of it.
BufferLog == INSTANCE AppendLog WITH LogBytes <- 1..MaxLog, log <- Content(cb), delivered <- got
ImplementsLog == BufferLog!LogSpec

\* ReadAt of n bytes at o: all of them, or those up to the end and EOF, or those
\* before the block that failed.
ReadAtAgrees(content) ==
  \A o \in 0..Len(content), n \in ReadLens, ok \in Outcomes :
    \E r \in {ReadAt(cb, n, o, ok)} :
      /\ r.data = SubSeq(content, o + 1, o + Len(r.data))
      /\ r.err = "nil" => Len(r.data) = n
      /\ r.err = "EOF" => Len(r.data) < n /\ o + Len(r.data) = Len(content)

\* Every byte that a Write or a WriteMany reported as written is held, in its place
\* and once, also when the call reported an error, and no other byte is; Size counts
\* them; the cached block is the block at its index; and ReadAt reads what is held,
\* over every block boundary.
CompressedInv ==
  \E content \in {Content(cb)} :
    /\ cb.size = Len(content)
    /\ content = [i \in 1..(acked + many.written) |-> i]
    /\ Len(cb.writeBuf) <= BlockSize
    /\ \A i \in DOMAIN cb.blocks : Len(Inflate(cb.blocks[i])) = BlockSize
    /\ \A i \in 0..(Len(cb.blocks) - 1) :
         Cached(cb, i) => cb.lastDecompBlock = Inflate(cb.blocks[i + 1])
    /\ ReadAtAgrees(content)

=============================================================================
