SPECIFICATION FairSpec
CONSTANTS
  MaxChunks = 3
  MaxCalls = 2
  MaxTurns = 2
  MaxAttempts = 4
  MaxRetries = 1
  Budgets = 2
  MaxContinuations = 1
  MaxRuns = 1
  MaxSteers = 1
  MaxFaults = 1
  MaxCrashes = 1
  MaxAsks = 1
  MaxAnswers = 2
INVARIANTS
  DraftIsCommitted
  EffectsAreRecorded
  BatchesStayWhole
CHECK_DEADLOCK FALSE
PROPERTIES
  RunsEnd
