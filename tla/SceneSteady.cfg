\* No fault: two jobs, overlapping ticks, two workers, leases that expire.
SPECIFICATION Spec
CONSTANTS
  Jobs = {j1, j2}
  NoJob = NoJob
  Cancellable = {}
  Pumps = {p1, p2}
  Workers = {w1, w2}
  MaxAttempts = 2
  MaxFaults = 0
SYMMETRY Symmetry
INVARIANTS
  ExclusiveExecution
  ActiveHasWorker
  SubmittedNeverFails
PROPERTY FollowsLifecycle
CHECK_DEADLOCK FALSE
