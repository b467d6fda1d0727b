CONSTANTS
  Conns = {c1, c2}
  Acceptors = {a1, a2}
  Closers = {k1, k2}
  Burst = 1
SPECIFICATION ListenerSpec
INVARIANTS ListenerInv
PROPERTIES CloseUnblocks
CHECK_DEADLOCK FALSE
