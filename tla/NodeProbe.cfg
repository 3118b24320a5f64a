SPECIFICATION Spec
CHECK_DEADLOCK FALSE
CONSTANTS
  Agents = {a1, a2}
  Nodes = {n1}
  Pings = {p1, p2}
  MaxFlips = 2
  MaxFaults = 1
  MaxLists = 1
  MaxOperator = 2
INVARIANTS
  TypeOK
PROPERTIES
  NotReapedOnOldTime
  DeadNodeReaped
  NodeStatusConverges
