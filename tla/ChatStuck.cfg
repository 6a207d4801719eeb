\* A process dies in the last attempt of its job.
SPECIFICATION FairSpec
CONSTANTS
  Jobs <- MCJobs
  NoJob = NoJob
  Pumps = {p1, p2}
  Nobody = Nobody
  Gone = Gone
  ExtractJobs = {x1}
  SummaryJobs = {}
  Engines = {e1}
  MaxAttempts = 2
  MaxRetries = 0
  MaxFaults = 1
  MaxMessages = 1
  ExtractThreshold = 1
  ExtractMax = 1
  SummaryThreshold = 2
  SummaryMax = 2
PROPERTY EveryJobSettles
CHECK_DEADLOCK FALSE
