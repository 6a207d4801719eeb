\* A job cancelled while its worker waits for the model.
SPECIFICATION FairSpec
CONSTANTS
  Jobs = {j1}
  NoJob = NoJob
  Cancellable = {j1}
  Pumps = {p1}
  Workers = {w1, w2}
  MaxAttempts = 2
  MaxFaults = 0
PROPERTY CancelledIsFinal
CHECK_DEADLOCK FALSE
