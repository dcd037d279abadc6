CONSTANTS
  Logs <- OneGap
  MaxRows = 2
  MaxWal = 2
  MaxInFlight = 2
  MaxExpiries = 0
  MaxLosses = 1
SPECIFICATION Spec
INVARIANTS
  ResyncBeforeCapture
