SPECIFICATION Spec
CONSTANTS
  k1 = k1
  k2 = k2
  ana = ana
  bea = bea
  lea = lea
  f1 = f1
  f2 = f2
  first = first
  edited = edited
  other = other
  c1 = c1
  c2 = c2
  Anyone = Anyone
  Keys <- TwoKeys
  Clients <- OneClient
  Counsel <- TwoCounsel
  Leads <- OneLead
  Files <- TwoFiles
  Submissions <- ThreeForms
  Form <- Sent
  Calls <- TwoCalls
  MaxVersion = 2
SYMMETRY Either
INVARIANTS
  FilesStayTogether
  AnsweredWithItsOwn
PROPERTIES
  AssignedInTurn
  ChangesWhatWasRead
