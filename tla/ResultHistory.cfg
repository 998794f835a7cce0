SPECIFICATION Spec
CONSTANTS
  NoObject = NoObject
  Results = {r1, r2}
  UserObjects = {u}
  Sizes = {0, 1, 2}
  MaxResults = 3
CHECK_DEADLOCK FALSE
INVARIANT
  NumbersAreTrue
PROPERTY
  WindowSpec
