SPECIFICATION Spec
CONSTANTS
  s1 = s1
  s2 = s2
  w1 = w1
  w2 = w2
  cron = cron
  sweep = sweep
  None = None
  Signers <- TwoSigners
  Named <- TwoSigners
  Workers <- TwoWorkers
  Reconciler = cron
  Nudger = sweep
  Attempts = 2
  MaxFaults = 0
  MaxCrashes = 0
  MaxNudges = 1
  EarlyBird = TRUE
  Overlap = TRUE
SYMMETRY Symmetric
INVARIANTS RowIsTruthful ClaimsHaveOwners
PROPERTIES NothingIsErased SignsTheAgreement
CHECK_DEADLOCK FALSE
