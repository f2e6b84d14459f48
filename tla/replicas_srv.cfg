SPECIFICATION Spec
CONSTANTS
  SerialsPerDay = 2
  Handler <- MCHandlers
  DbView <- MCReplicas
  DomainName = {z1}
  Label <- MCLabels
  Type <- MCTypes
  Target = {h1, h2}
  Token = {t1, t2, t3}
  NoOwner = NoOwner
  UnknownToken = UnknownToken
  Request <- MCSrvRequests
  InitialStore <- MCStores
  FirstDay = 1
  MaxDay = 1
  MaxInFlight = 1
  MaxFaults = 0
  w1 = w1
  w2 = w2
  w3 = w3
  z1 = z1
  h1 = h1
  h2 = h2
  t1 = t1
  t2 = t2
  t3 = t3
INVARIANTS ReplicasAgree
