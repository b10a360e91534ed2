SPECIFICATION FairSpec
CONSTANTS
  h1 = h1
  h2 = h2
  h3 = h3
  r1 = r1
  r2 = r2
  n1 = n1
  n2 = n2
  n3 = n3
  NoHost = NoHost
  Deployments <- FirstDeploying
  Host <- TwoHosts
  Request <- TwoRequests
  Name <- TwoNames
  Table <- TwoRows
  Conductors <- TwoConductors
  GroupCount = 2
  ApiPool = 2
  Menu <- GroupAgainstOne
INVARIANTS TypeOK CutsArePartitions OneCallPerNode AnswerCoversAll AnswerIsTrue RefusedIsUntouched
PROPERTIES RequestAnswered HandlersEnd
CHECK_DEADLOCK FALSE
