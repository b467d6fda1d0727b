CONSTANTS
  Callers = {c1, c2}
  NoCaller = NoCaller
  BufSize = 2
  Bytes = {0, 1, 2, 3, 4}
  Zero = 0
  MaxBytes = 4
  MaxWrite = 3
SPECIFICATION Spec
INVARIANTS StreamInv AckCovers
PROPERTIES FailStop CallReturns AcceptedIsWritten
