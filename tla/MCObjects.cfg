CONSTANTS
  BufSize = 3
  Bytes = {0, 1}
  Zero = 0
  Words = 3
  WordBits = 4
  KeyDigits = 3
  TreeItems <- MCTreeItems
  Nil = Nil
  BlockSize = 2
  WriteLens = {0, 1, 3}
  ReadLens = {1, 3}
  MaxLog = 7
  Handles = {h1, h2}
  Regions = {r1, r2, r3}
  MinSizeBits = 1
  MaxSizeBits = 2
  Sizes = {1, 3}
  MaxLen = 5
  Period = 4
  NumBuckets = 2
  Values <- MCValues
  MaxTime = 6
  MaxAdds = 3
  MaxStream = 6
  BufLens = {1, 2, 4}
  Clients = {c1, c2}
  KVKeys = {1, 2, 3}
  Absent = 0
  Requests <- MCRequests
  MaxDeleteTransactionSize = 2
  MaxListedKeys = 2
SYMMETRY Symmetry
SPECIFICATION Spec
INVARIANTS ReadsAgree BitmapAgrees RadixInv CompressedInv PoolInv Accurate StreamIntact
PROPERTIES ImplementsQueue ImplementsMap ImplementsLog ImplementsStore
