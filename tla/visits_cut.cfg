SPECIFICATION Spec
CONSTANTS
  Bookings = {b1}
  WalkIns = {w1}
  NoBooking = NoBooking
  Cycles = {i1}
  Clerks = {k1}
  MaxCaptures = 1
  LastDay = 1
  ChangeLimit = 1
  MaxJobs = 2
  InterruptLimit = 1
INVARIANT ConvertedArrived
 
CHECK_DEADLOCK FALSE
