SPECIFICATION FairSpec
CONSTANTS
  m1 = m1
  j1 = j1
  w1 = w1
  w2 = w2
  None = None
  Mails <- OneMail
  Jobs <- OneJob
  Workers <- TwoWorkers
  MaxAttempts = 2
  MaxRetries = 1
  MaxFaults = 2
\* When the mail is decided and the job done the workers find nothing to do.
CHECK_DEADLOCK FALSE
INVARIANTS
  CalledOffIsNotMailed
  LastClaimWrites
PROPERTIES
  MailOnceSpec
  EverythingSettles
