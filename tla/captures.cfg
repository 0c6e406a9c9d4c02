SPECIFICATION MCSpec
CONSTANTS
  MaxFiles = 2
  Vehicles = {p1}
  Cycles = {c1}
  FolderSweep = FolderSweep
  Pushes = {h1}
  Modes = {"xml", "jpeg"}
  CallLimit = 2
  LastDate = 1
INVARIANT IngestInv
PROPERTY NewestRead
CHECK_DEADLOCK FALSE
