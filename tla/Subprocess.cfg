SPECIFICATION AllSpec
CONSTANTS
  CanMask = TRUE
  Toolkits = {"gtk", "qt4"}
  MaxRuns = 3
  MaxLines = 3
  OutCap = 1
  InCap = 2
  Sizes = {1, 3, 6}
  Base = 4
  Room = 7
  MaxSent = 3
CHECK_DEADLOCK FALSE
INVARIANTS
  SignalsAreRight
  ConsoleIsRight
PROPERTIES
  RunSurvivesInterrupt
  RunsEnd
  StreamIsQueue
