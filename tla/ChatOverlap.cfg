\* An extraction fails for good after its batch is committed.
SPECIFICATION Spec
CONSTANTS
  Jobs <- MCJobs
  NoJob = NoJob
  Pumps = {p1, p2}
  Nobody = Nobody
  Gone = Gone
  ExtractJobs = {x1, x2}
  SummaryJobs = {s1}
  Engines = {e1}
  MaxAttempts = 2
  MaxRetries = 0
  MaxFaults = 0
  MaxMessages = 3
  ExtractThreshold = 2
  ExtractMax = 3
  SummaryThreshold = 3
  SummaryMax = 3
INVARIANT NoMessageTwice
CHECK_DEADLOCK FALSE
