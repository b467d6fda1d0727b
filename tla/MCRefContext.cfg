CONSTANTS
  Contexts = {x, y, z}
  MaxRefs = 4
SPECIFICATION RefSpec
INVARIANTS ListInv AliveWhileReferenced
PROPERTIES EndsAfterAll WatcherExits
