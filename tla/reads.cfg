SPECIFICATION ReadSpec
CONSTANTS
  SerialsPerDay = 2
  Handler <- MCHandlers
  DbView <- MCTwoViews
  DomainName = {z1}
  Label <- MCLabels
  Type <- MCTypes
  Target = {h1, h2}
  Token = {t1, t2, t3}
  NoOwner = NoOwner
  UnknownToken = UnknownToken
  Request <- MCReadRequests
  InitialStore <- MCNoZones
  FirstDay = 1
  MaxDay = 1
  MaxInFlight = 3
  MaxFaults = 1
  Reader = {r1}
  Query <- MCQueries
  r1 = r1
  w1 = w1
  w2 = w2
  w3 = w3
  z1 = z1
  h1 = h1
  h2 = h2
  t1 = t1
  t2 = t2
  t3 = t3
SYMMETRY MCSymmetry
INVARIANTS OpenTransactions ReadInv
PROPERTIES TenantSpec SoaSurvives ReadsTrue
