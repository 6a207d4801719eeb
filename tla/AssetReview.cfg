\* One job, two workers, two overlaps, two crashes or failing statements.
SPECIFICATION Spec
CONSTANTS
  Jobs = {j1}
  NoJob = NoJob
  Seeded = {}
  Workers = {w1, w2}
  MaxAttempts = 3
  MaxOverlaps = 2
  MaxFaults = 2
SYMMETRY Symmetry
INVARIANTS
  TypeOK
  AttemptsLeft
  SucceededCarriesCandidate
  AssetIsReviewedImage
  RerunReplays
PROPERTIES
  ReviewStands
  NoSecondPrompt
