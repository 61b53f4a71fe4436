CONSTANTS
  Items = {i1, i2, i3}
  Runs = {r1, r2}
  Ops = {o1, o2, o3}
  NoRun = NoRun
  NoItem = NoItem
SPECIFICATION Spec
SYMMETRY Symmetry
CHECK_DEADLOCK FALSE
INVARIANTS
  TypeOK
  PositionsDistinct
  ConsumedExactlyOnce
  RunsDoNotInterleave
  RunsSettleOnce
  DrivenRunsAreOpen
  OneEffectPerOperation
PROPERTIES
  OutcomesAreFinal
  RecoveryPausesTheQueue
  ImplementsQueue
