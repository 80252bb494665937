SPECIFICATION Spec
CONSTANTS
  k1 = k1
  k2 = k2
  k3 = k3
  r1 = r1
  None = None
  Challenges <- ThreeCodes
  Readers <- OneReader
  MaxAttempts = 2
  MaxVersion = 2
  MaxRound = 2
\* A revoked invitation has come to its end.
CHECK_DEADLOCK FALSE
SYMMETRY Requests
INVARIANTS
  SessionsFollowGrants
PROPERTIES
  EntrySpec
  UninterruptedDownloads
