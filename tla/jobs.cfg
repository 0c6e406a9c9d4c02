SPECIFICATION FairSpec
CONSTANTS
  MaxJobs = 2
  Plates = {p1}
  Strangers = {p2}
  Lanes = {l1}
  Requests = {k1}
  Ticks = {t1}
  Booked = {1}
  NoPlate = NoPlate
  MaxWrites = 1
  CallLimit = 2
  LastDay = 1
INVARIANT ReportsInv
PROPERTY BoardConverges
PROPERTY FileIsRead
CHECK_DEADLOCK FALSE
