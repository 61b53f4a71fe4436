SPECIFICATION Spec
CONSTANTS
  None = None
  Capacity = 4
  Window = 4
  MaxReconnects = 1
  MaxRuns = 2
  MaxItems = 1
  MaxConns = 2
  MaxTurns = 2
INVARIANTS
  ShownIsTrue
PROPERTIES
  GraceIsWhole PageSettles
CHECK_DEADLOCK FALSE
