SPECIFICATION FairSpec
CONSTANT MaxUnclaimed = 3
CHECK_DEADLOCK FALSE
INVARIANTS
  IInv
  OwnReplyFirst
  ResultIsExpected
  RunIsOwned
  QuitLeavesNone
PROPERTIES
  ResultIsReported
  WaitEnds
  RunIsReported
