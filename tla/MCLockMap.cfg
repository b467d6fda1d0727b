CONSTANTS
  Threads = {t1, t2, t3}
  Keys = {a, b}
  Locks = {l1, l2, l3, l4}
  None = None
SPECIFICATION Spec
INVARIANTS CountsInv
PROPERTIES LockGranted
