SPECIFICATION Spec
CONSTANTS
  Nodes = {1, 2}
  Agents = {1, 2}
  Probes = {2}
  Followers = {2}
  TxnLimits = {2, 3}
  MaxTerms = 2
  MaxChanges = 1
  MaxFaults = 1
INVARIANTS
  TypeOK
  DividedEvenly
PROPERTIES
  EventuallyAssigned
