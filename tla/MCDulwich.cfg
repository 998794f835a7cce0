SPECIFICATION MCSpec
CONSTANTS
  Procs = {"p", "q"}
  Branches = {"m", "b"}
  Shas = {"s1", "s2"}
  InitLoose <- MCInitLoose
  InitPacked <- MCInitPacked
  Ops = {"set", "remove", "commit"}
  MaxOps = 1
  Repacks = TRUE
  AtomicRename = TRUE
  Free = "nobody"
  Left = "given up"
  Null = Null
  Objects = {"a", "b"}
  InitObjects = {{"a"}}
  MaxClock = 1
  NotLoaded = {{}}
CHECK_DEADLOCK FALSE
INVARIANTS
  RefsAreSafe
  
  TransfersAreWhole
  DiffsAreTrue
PROPERTIES
  ObjectsAreTrue
