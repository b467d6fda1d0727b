CONSTANT NumOptions = 3
SPECIFICATION Spec
INVARIANTS FailoverInv NoResultIsHonest
PROPERTIES DoReturns
