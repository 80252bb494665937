SPECIFICATION FairSpec
CONSTANTS
  s1 = s1
  s2 = s2
  w1 = w1
  w2 = w2
  cron = cron
  sweep = sweep
  None = None
  Signers <- OnlyFirst
  Named <- OnlyFirst
  Workers <- OneWorker
  Reconciler = cron
  Nudger = sweep
  Attempts = 1
  MaxFaults = 1
  MaxCrashes = 1
  MaxNudges = 1
  EarlyBird = FALSE
  Overlap = FALSE
INVARIANT ClaimsHaveOwners
PROPERTIES CompletedIsFiled EventsSurviveFaults
CHECK_DEADLOCK FALSE
