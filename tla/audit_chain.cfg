SPECIFICATION FairSpec
CONSTANTS
  c1 = c1
  c2 = c2
  c3 = c3
  r1 = r1
  r2 = r2
  None = None
  Calls <- ThreeCalls
  Durable <- TwoDurable
  Replicas <- TwoReplicas
  Home <- Placement
  Retries = 2
INVARIANTS ChainContiguous AppendsNeverCollide AckedIsLogged
PROPERTIES TrailSpec EveryAppendSettles
