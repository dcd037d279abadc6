CONSTANTS
  h1 = h1
  a = a
  b = b
  x = x
  y = y
  p1 = p1
  p2 = p2
  NoConn = NoConn
  NoCaller = NoCaller
  Hosts = {h1}
  Connections = {a, b}
  ResourceKeys = {x, y}
  KeyOf <- TwoKeys
  Callers = {p1}
  HostOf <- OneHost
  Uses <- Both
  Rivals = {x}
  Stoppable = {h1}
  Changing = {a}
  MaxChanges = 1
  MaxLosses = 1
  LockBound = 2
SPECIFICATION LiveSpec
CHECK_DEADLOCK FALSE
INVARIANTS
  SoleCall
  WorksUnderLock
  LockCounted
PROPERTIES
  ResultUnbroken
  RevokedLeaseEnds
  FreeKeyAcquired
