CONSTANTS
  Threads = {t1, t2, t3}
  Keys = {a}
  Semas = {s1, s2, s3}
  N = 2
  MaxWeight = 3
  None = None
SPECIFICATION Spec
INVARIANTS CountsInv
PROPERTIES AcquireGranted
