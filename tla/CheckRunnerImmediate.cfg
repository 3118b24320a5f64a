SPECIFICATION Spec
CONSTANTS
  Checks = {c1}
  Results <- ThreeResults
  Settings <- Immediate
  ServiceOf <- OwnService
  Reapable = {c1}
  PassingThreshold = 0
  CriticalThreshold = 1
  MaxBatchSize = 64
  TimerFlushes = {}
  StopFlush = stopFlush
  MaxFlips = 1
  MaxFaults = 1
  MaxCatalogChanges = 1
INVARIANTS
  TypeOK
PROPERTIES
  EventuallyConsistent
  CriticalEventuallyReaped
  NoResurrection
