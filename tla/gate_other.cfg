SPECIFICATION Spec
CONSTANTS
  MaxCaptures = 1
  MaxRows = 2
  Buttons = {}
  Sweep = Sweep
  LastDay = 0
  FaultLimit = 0
  EditLimit = 0
INVARIANT VerifiedOnOwnRecord
CHECK_DEADLOCK FALSE
