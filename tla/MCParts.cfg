SPECIFICATION Spec
CONSTANTS
  None = None
  Paths = {p1, p2}
  Bodies = {b1, b2}
  b2 = b2
  Bracketed = {b2}
  MemoryIds = {o1, o2}
  ToolCalls = {c1}
  Commands = {status, build, wipe}
  status = status
  wipe = wipe
  Inside = Inside
  Outside = Outside
  Tasks = {t1, t2}
  Jobs = {j1, j2, j3}
  Requests = {q1}
  McpCalls = {k1, k2}
  AgentNames = {1, 2}
  AgentBodies = {d1}
  BuiltinAgent = 0
  ServerNames = {n1}
  ServerBodies = {s2, s3}
  Off = Off
  Syncs = {y1, y2}
  Skills = {w1}
  Registries = {g1, g2}
  SkillRequests = {h1, h2}
  IndexLimit = 5
  MaxRequests = 2
  MaxWaiting = 1
  MaxFaults = 1
  MaxRestarts = 1
  MaxSettings = 2
  MaxToolFaults = 1
  TaskLimit = 1
  MaxMeddling = 1
  MaxServers = 2
  MaxCommits = 2
  MaxCuts = 2
  MaxCustom = 1
  MaxMutations = 2
  MaxAgentFaults = 1
  MaxMishaps = 1
  MaxSkillRequests = 2
  MaxCrashes = 1
  MaxConversationMessages = 4
  LatestToolResultsToKeep = 1
  LatestToolBatchChars = 5
  LargeToolResultChars = 3
  HardLimit = 8
  TargetTokens = 6
  SummaryTarget = 4
  PreviewSize = 2
  CompactMin = 2
  ForkSegments = 2
  ForkTokens = 6
  LegacyChars = 6
  ResultSizes = {2, 4}
  Ratios = {1, 2}
  MaxCalls = 2
  MaxMessages = 5
INVARIANTS
  IndexFollowsTopics
  EffectsAreAuthorised
  RunningIsInReach
  CallsReachAReadyServer
  AcknowledgedStays
  RegistryFollowsDisk
  RequestServesTheActiveRequest
  ProjectionsKeepPairs
  NothingIsLost
PROPERTIES
  CommitsAreFenced
  PatchesReplaceWhatTheyRead
CHECK_DEADLOCK FALSE
