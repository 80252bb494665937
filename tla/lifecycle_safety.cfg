SPECIFICATION Spec
CONSTANTS
  ana = ana
  bob = bob
  cyd = cyd
  h1 = h1
  h2 = h2
  Lawyers <- TwoLawyers
  Approvers <- TwoApprovers
  Mandatory <- CydByPolicy
  Handlers <- OneHandler
  MaxRev = 6
INVARIANTS
  RoutedDocumentFrozen
  DecisionIsUnanimous
  ExecutedWasApproved
  TokenIdentifiesState
  RoundSlotFree
PROPERTIES
  ApprovalSpec
  ExecutionIsFinal
