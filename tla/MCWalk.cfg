CONSTANTS
  a = a
  b = b
  Nodes = {a, b}
  Ports = {"main", "error"}
  Wirings <- AllWirings
  NoNode = NoNode
  HopLimit = 4
SPECIFICATION LiveSpec
INVARIANTS
  TokensConserved
  RetryBudget
  HopsAccounted
  BoundaryTotal
  FirstVerdictDelivered
PROPERTIES
  WalkEnds
