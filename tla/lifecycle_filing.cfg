SPECIFICATION FilingSpec
CONSTANTS
  ana = ana
  bob = bob
  cyd = cyd
  h1 = h1
  h2 = h2
  Lawyers <- OneLawyer
  Approvers <- TwoApprovers
  Mandatory <- NoPolicy
  Handlers <- TwoHandlers
  MaxRev = 3
PROPERTIES
  CompletedIsFiled
