SPECIFICATION FairSpec
CONSTANTS
  MaxCaptures = 1
  MaxRows = 2
  Buttons = {b1}
  Sweep = Sweep
  LastDay = 1
  FaultLimit = 1
  EditLimit = 1
INVARIANT TypeOK
INVARIANT FreshRecord
PROPERTY FailedClears
CHECK_DEADLOCK FALSE
