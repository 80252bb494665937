SPECIFICATION Spec
CONSTANTS
  gia = gia
  hal = hal
  ana = ana
  c1 = c1
  Legal = Legal
  Guests <- TwoGuests
  Lawyers <- OneLawyer
  Comments <- OneComment
  MaxDocs = 4
SYMMETRY Either
INVARIANTS
  SharedIsLegal
  AcceptedWasShown
  AgreedFormStands
  OneOpenResponse
  ComparedWithItsRound
