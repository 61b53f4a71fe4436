CONSTANTS
  Items = {i1}
  Runs = {r1, r2}
  NoRun = NoRun
  NoItem = NoItem
  StopReasons = {"user_stop"}
  MaxStops = 0
  MaxChains = 1
  MaxCrashes = 0
  MaxFaults = 0
SPECIFICATION CoordinatorSpec
CHECK_DEADLOCK FALSE
INVARIANTS
  NoSteerOutlivesItsRun
