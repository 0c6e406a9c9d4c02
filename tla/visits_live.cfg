SPECIFICATION FairSpec
CONSTANTS
  Bookings = {b1}
  WalkIns = {}
  NoBooking = NoBooking
  Cycles = {i1}
  Clerks = {}
  MaxCaptures = 1
  LastDay = 1
  ChangeLimit = 5
  MaxJobs = 2
  InterruptLimit = 0
 
PROPERTY MoneyFollows
CHECK_DEADLOCK FALSE
