SPECIFICATION Spec
CONSTANTS
  Checks = {c1}
  Results <- ThreeResults
  Settings <- OverlapOrStop
  ServiceOf <- OwnService
  Reapable = {}
  PassingThreshold = 0
  CriticalThreshold = 0
  MaxBatchSize = 64
  TimerFlushes = {t1, t2}
  StopFlush = stopFlush
  MaxFlips = 1
  MaxFaults = 1
  MaxCatalogChanges = 0
PROPERTIES
  EventuallyConsistent
  StopReturns
CHECK_DEADLOCK FALSE
