SPECIFICATION Spec
CHECK_DEADLOCK FALSE
CONSTANTS
  Agents = {a1}
  Nodes = {n1}
  Pings = {p1}
  MaxFlips = 4
  MaxFaults = 1
  MaxLists = 0
  MaxOperator = 0
PROPERTIES
  ReapedOnlyWhileCritical
