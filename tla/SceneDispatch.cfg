\* No fault: a retry overtakes the tick that dispatched the attempt before.
SPECIFICATION FairSpec
CONSTANTS
  Jobs = {j1}
  NoJob = NoJob
  Cancellable = {}
  Pumps = {p1}
  Workers = {w1, w2}
  MaxAttempts = 2
  MaxFaults = 0
PROPERTY EveryJobEnds
CHECK_DEADLOCK FALSE
