SPECIFICATION MCSpec
CONSTANTS
  Entities = {"Vehicle", "Line", "Job"}
  Runs = {s1, s2}
  Modes = {"pull", "full"}
  MaxRows <- MCRows
  Onboarded <- MCOnboarded
  MaxEdits = 2
  CHUNK_SIZE = 2
  Precision = 2
  Crowd = 1
  CallLimit = 2
INVARIANT SyncInv
 
PROPERTY Converges
CHECK_DEADLOCK FALSE
