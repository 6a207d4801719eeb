\* One job, two workers, one tick at a time, any two faults.
SPECIFICATION FairSpec
CONSTANTS
  Jobs = {j1}
  NoJob = NoJob
  Cancellable = {j1}
  Pumps = {p1}
  Workers = {w1, w2}
  MaxAttempts = 2
  MaxFaults = 2
INVARIANTS
  TypeOK
  AttemptsLeft
  AtMostOneCandidate
  SucceededHasCandidate
PROPERTY ComesToRest
CHECK_DEADLOCK FALSE
