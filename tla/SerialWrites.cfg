SPECIFICATION Spec
CONSTANTS
  Paths = {p1}
  Jobs = {j1, j2}
  Requests = {q1, q2}
  None = None
  MaxMeddling = 0
CHECK_DEADLOCK FALSE
INVARIANTS
  WritesAreSerialByPath
