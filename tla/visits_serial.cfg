SPECIFICATION SerialSpec
CONSTANTS
  Bookings = {b1}
  WalkIns = {w1}
  NoBooking = NoBooking
  Cycles = {i1}
  Clerks = {k1}
  MaxCaptures = 2
  LastDay = 1
  ChangeLimit = 3
  MaxJobs = 2
  InterruptLimit = 0
INVARIANT TypeOK
 
INVARIANT ArrivalPaired
 
 
CHECK_DEADLOCK FALSE
