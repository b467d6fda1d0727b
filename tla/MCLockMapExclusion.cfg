CONSTANTS
  Threads = {t1, t2}
  Keys = {a}
  Locks = {l1, l2}
  None = None
SPECIFICATION Spec
INVARIANTS MutualExclusion
