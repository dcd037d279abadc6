CONSTANTS
  c1 = c1
  c2 = c2
  s1 = s1
  s2 = s2
  plain = plain
  i1 = i1
  i2 = i2
  Requests = {c1, c2}
  Keys = {s1, s2, plain}
  Inputs = {i1, i2}
  Transacted = {s1, s2}
  Ageing = {plain}
  NoInput = NoInput
  NoRequest = NoRequest
  Limbo = Limbo
  Calls <- SomeCalls
SPECIFICATION ClientsLiveSpec
INVARIANTS
  WorkedOnce
  ValueIsTrue
PROPERTIES
  OutcomeStands
  CallEnds
