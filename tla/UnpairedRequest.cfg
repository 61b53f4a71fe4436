SPECIFICATION Spec
CONSTANTS
  MaxChunks = 3
  MaxCalls = 2
  MaxTurns = 2
  MaxAttempts = 4
  MaxRetries = 0
  Budgets = 1
  MaxContinuations = 0
  MaxRuns = 2
  MaxSteers = 0
  MaxFaults = 0
  MaxCrashes = 1
  MaxAsks = 0
  MaxAnswers = 0
INVARIANTS
  EveryRequestIsPaired
CHECK_DEADLOCK FALSE
