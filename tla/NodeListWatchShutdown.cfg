SPECIFICATION Spec
CHECK_DEADLOCK FALSE
CONSTANTS
  c1 = c1
  c2 = c2
  n1 = n1
  n2 = n2
  Checks = {c1, c2}
  Nodes = {n1, n2}
  Lists = {{n1, n2}, {n2}, {}}
  Definitions <- AllDefs
  DefsOf <- DefsPerCheck
  NodeOf <- Placement
  Garbled = Garbled
  Namespaced = {c2}
  DefaultInterval = 3
  MinimumInterval = 2
  MaxChanges = 1
  MaxFaults = 0
PROPERTIES
  WatchNodeListReturns
