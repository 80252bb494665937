SPECIFICATION VerifySpec
CONSTANTS
  c1 = c1
  c2 = c2
  c3 = c3
  r1 = r1
  None = None
  Calls <- ThreeCalls
  Durable <- OneDurable
  Replicas <- OneReplica
  Home <- HereThree
  Retries = 1
  Reader = r1
  MaxVerify = 1
  Page = 1
  MaxDamage = 2
  MaxFlaky = 1
INVARIANTS IntactIsComplete AlarmIsReal
