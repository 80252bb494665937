SPECIFICATION Spec
CONSTANTS
  a1 = a1
  a2 = a2
  r1 = r1
  r2 = r2
  k1 = k1
  k2 = k2
  Approvers <- TwoApprovers
  Requests <- TwoRequests
  Clicks <- TwoClicks
  MaxText = 2
SYMMETRY Either
INVARIANTS
  FirstDecisionWins
