\* One extraction and its engine job; two faults, one retry by the operator.
SPECIFICATION FairSpec
CONSTANTS
  Jobs <- MCJobs
  NoJob = NoJob
  Pumps = {p1, p2}
  Nobody = Nobody
  Gone = Gone
  ExtractJobs = {x1}
  SummaryJobs = {}
  Engines = {e1}
  MaxAttempts = 2
  MaxRetries = 1
  MaxFaults = 2
  MaxMessages = 1
  ExtractThreshold = 1
  ExtractMax = 1
  SummaryThreshold = 2
  SummaryMax = 2
INVARIANTS
  PendingIsClaimable
  Fenced
  NothingSkipped
PROPERTIES
  CompletedIsFinal
  ComesToRest
CHECK_DEADLOCK FALSE
