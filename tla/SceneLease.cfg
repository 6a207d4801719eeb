\* A worker's process dies while it holds the lease.
SPECIFICATION FairSpec
CONSTANTS
  Jobs = {j1}
  NoJob = NoJob
  Cancellable = {}
  Pumps = {p1}
  Workers = {w1, w2}
  MaxAttempts = 2
  MaxFaults = 1
PROPERTY ExpiredLeaseRecovered
CHECK_DEADLOCK FALSE
