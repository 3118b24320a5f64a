SPECIFICATION Spec
CONSTANTS
  Checks = {c1, c2}
  Results <- TwoResults
  Settings <- TwoPlaces
  ServiceOf <- OwnService
  Reapable = {}
  PassingThreshold = 0
  CriticalThreshold = 0
  MaxBatchSize = 64
  TimerFlushes = {t1}
  StopFlush = stopFlush
  MaxFlips = 0
  MaxFaults = 1
  MaxCatalogChanges = 1
PROPERTIES
  EventuallyConsistent
  NoResurrection
