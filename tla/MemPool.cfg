SPECIFICATION Spec
CONSTANT NumElems = 6
INVARIANT PoolServes
CHECK_DEADLOCK FALSE
