CONSTANTS
  Logs <- Histories
  MaxRows = 2
  MaxWal = 3
  MaxInFlight = 2
  MaxExpiries = 1
  MaxLosses = 1
SPECIFICATION LiveSpec
INVARIANTS
  ConfirmedPublished
  CommitOrder
  GapRowMissesNone
PROPERTIES
  SlotFollowsWal
