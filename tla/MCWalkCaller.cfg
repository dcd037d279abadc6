CONSTANTS
  a = a
  b = b
  Nodes = {a, b}
  Ports = {"main", "error"}
  Wirings <- AllWirings
  NoNode = NoNode
  HopLimit = 3
SPECIFICATION Spec
INVARIANTS
  CallerReleased
