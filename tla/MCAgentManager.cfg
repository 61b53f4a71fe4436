SPECIFICATION Spec
CONSTANTS
  a1 = a1
  a2 = a2
  Agents <- TwoAgents
  CallIds = {c1}
  Writing = {FALSE}
  MaxConcurrent = 2
  MaxPerRun = 2
  MaxBatch = 1
  MaxStreak = 2
  MaxChildRuns = 2
  MaxRuns = 2
  MaxMains = 3
  MaxDisruptions = 1
SYMMETRY AgentSymmetry
INVARIANTS
  OneRunPerAgent
  QuietAfterStop
CHECK_DEADLOCK FALSE
PROPERTIES
  OneRunPerOperation
  DeliveredOnce
