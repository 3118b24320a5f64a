SPECIFICATION Spec
CONSTANTS
  Checks = {c1}
  Results <- TwoResults
  Settings <- OnlyPushing
  ServiceOf <- OwnService
  Reapable = {c1}
  PassingThreshold = 0
  CriticalThreshold = 0
  MaxBatchSize = 64
  TimerFlushes = {}
  StopFlush = stopFlush
  MaxFlips = 2
  MaxFaults = 1
  MaxCatalogChanges = 0
PROPERTIES
  ReapsOnlyCritical
