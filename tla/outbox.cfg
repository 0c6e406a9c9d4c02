SPECIFICATION MCSpec
CONSTANTS
  Drains = {d1}
  Sweeps = {s1}
  Requests = {q1, q2}
  Second = q2
  Jobs = {j1}
  NoJob = NoJob
  NoActor = NoActor
  MaxTx = 2
  DrainBatch = 1
  MaxAttempts = 1
  LastDay = 1
  LossLimit = 1
  InterruptLimit = 1
  RepushLimit = 1
INVARIANT TypeOK
INVARIANT AwaitedUntilTerminal
INVARIANT AttemptBudget
INVARIANT StatusTruth
INVARIANT WriteAhead
INVARIANT NoFanOut
INVARIANT RejectionCovered
PROPERTY FilingSpec
PROPERTY RowsSettle
CHECK_DEADLOCK FALSE
