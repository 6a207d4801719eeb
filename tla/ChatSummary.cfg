\* A summary job is run again after it has saved the first summary.
SPECIFICATION Spec
CONSTANTS
  Jobs <- MCJobs
  NoJob = NoJob
  Pumps = {p1, p2}
  Nobody = Nobody
  Gone = Gone
  ExtractJobs = {}
  SummaryJobs = {s1}
  Engines = {e1}
  MaxAttempts = 2
  MaxRetries = 0
  MaxFaults = 0
  MaxMessages = 3
  ExtractThreshold = 4
  ExtractMax = 3
  SummaryThreshold = 3
  SummaryMax = 3
PROPERTY StaleDoesNotOverwrite
CHECK_DEADLOCK FALSE
