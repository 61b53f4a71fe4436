CONSTANTS
  Items = {i1}
  Runs = {r1, r2}
  NoRun = NoRun
  NoItem = NoItem
  StopReasons = {"user_stop"}
  MaxStops = 1
  MaxChains = 1
  MaxCrashes = 1
  MaxFaults = 1
  Sessions = {s1}
SPECIFICATION Spec
CHECK_DEADLOCK FALSE
PROPERTIES
  ChainsEnd
  RunsAreReported
  ImplementsStore
  OldWorkNeverWritesBack
  WorkIsDone
