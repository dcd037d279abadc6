CONSTANTS
  r1 = r1
  r2 = r2
  w1 = w1
  w2 = w2
  NoVerb = NoVerb
  Replicas = {r1, r2}
  Workflows = {w1, w2}
  Versions = {1, 2}
  Authored <- TwoAndOne
  Kinds = {"row", "odd", "poison"}
  Poison = {"poison"}
  Decide <- Decisions
  Batch = 2
  MaxDeliver = 2
  MaxMessages = 2
  MaxVerbs = 1
  MaxFaults = 1
SPECIFICATION Spec
SYMMETRY Interchange
CHECK_DEADLOCK FALSE
INVARIANTS
  OneRunPerDelivery
  EnabledStarts
