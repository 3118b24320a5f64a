SPECIFICATION Spec
CONSTANTS
  MaxFaults = 2
  MaxLosses = 3
INVARIANTS
  TypeOK
  CleanExit
PROPERTIES
  EventuallyServing
  ShutdownCompletes
