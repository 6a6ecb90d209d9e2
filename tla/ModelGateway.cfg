SPECIFICATION FairSpec
CONSTANTS
  h1 = h1
  h2 = h2
  p1 = p1
  NULL = NULL
  NoLimit = NoLimit
  Handler = {h1, h2}
  Replica = {p1}
  ReplicaOf <- OneProcess
  MaxConcurrent = 1
  Request <- SpendRequests
  Config <- Routes
  Security <- Flags
  OrgLimit <- OrgTwo
  RepoLimit <- RepoOne
  Usage <- TwoTokens
  MaxCost = 2
INVARIANTS OverspendBounded FreeRouteIsTried
PROPERTIES EveryRequestEnds
