SPECIFICATION FairSpec
CONSTANT MaxUnclaimed = 2
PROPERTY KilledIsReplaced
CHECK_DEADLOCK FALSE
