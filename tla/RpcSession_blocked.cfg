SPECIFICATION FairSpec
CONSTANT MaxUnclaimed = 2
PROPERTY BlockedCallReturns
CHECK_DEADLOCK FALSE
