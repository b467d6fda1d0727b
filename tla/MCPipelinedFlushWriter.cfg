CONSTANTS
  Writers = {w1, w2, w3}
  MaxCalls = 1
  MaxFlushes = 3
  None = None
SPECIFICATION Spec
INVARIANTS FlushInv AckedIsWritten InOrder ConfirmedIsDurable
PROPERTIES FailStop ImplementsWriter CallReturns
