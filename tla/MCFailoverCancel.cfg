CONSTANT NumOptions = 2
SPECIFICATION Spec
INVARIANTS NoResultAfterAllTries
