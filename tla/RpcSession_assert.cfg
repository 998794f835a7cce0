SPECIFICATION Spec
CONSTANT MaxUnclaimed = 2
INVARIANT NoCallWhileExecuting
CHECK_DEADLOCK FALSE
