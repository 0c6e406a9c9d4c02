SPECIFICATION MCSpec
CONSTANTS
  Centres = {k1, k2}
  Home = k1
  NLines = 2
  NLanes = 2
  Cameras = {c1, c2}
  AdminPcs = {p1, p2}
  Jobs = {j1, j2}
  Requests = {r1, r2}
  MaxPay = 2
  MaxPrice = 2
  CallLimit = 3
  CutLimit = 1
  None = None
SYMMETRY Symmetry
INVARIANT MastersInv
INVARIANT CashierInv
PROPERTY LaneFixedUnderJob
PROPERTY PcKeepsALine
CHECK_DEADLOCK FALSE
