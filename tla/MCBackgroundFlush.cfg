CONSTANTS
  Callers = {c1, c2}
  Cap = 2
  MaxBytes = 7
  None = None
SPECIFICATION Spec
INVARIANTS BufferInv FlushCovers
PROPERTIES FailStop CallReturns
