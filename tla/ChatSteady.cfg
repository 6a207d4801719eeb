\* Three messages, two extractions, two summaries; leases expire, nothing crashes.
SPECIFICATION Spec
CONSTANTS
  Jobs <- MCJobs
  NoJob = NoJob
  Pumps = {p1, p2}
  Nobody = Nobody
  Gone = Gone
  ExtractJobs = {x1, x2}
  SummaryJobs = {s1, s2}
  Engines = {}
  MaxAttempts = 2
  MaxRetries = 0
  MaxFaults = 0
  MaxMessages = 3
  ExtractThreshold = 1
  ExtractMax = 2
  SummaryThreshold = 1
  SummaryMax = 2
SYMMETRY Symmetry
INVARIANTS
  TypeOK
  OneActiveExtraction
PROPERTIES
  CursorNeverBack
  SummaryNeverBack
CHECK_DEADLOCK FALSE
