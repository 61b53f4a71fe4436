CONSTANTS
  Items = {i1}
  Runs = {r1, r2, r3}
  NoRun = NoRun
  NoItem = NoItem
  StopReasons = {"user_stop"}
  MaxStops = 2
  MaxChains = 2
  MaxCrashes = 1
  MaxFaults = 1
SPECIFICATION CoordinatorSpec
SYMMETRY Symmetry
CHECK_DEADLOCK FALSE
INVARIANTS
  NoLostWakeup
  GracefulEndStrandsNoSteer
PROPERTIES
  StopPausesTheQueue
