SPECIFICATION Spec
CONSTANTS
  h1 = h1
  h2 = h2
  h3 = h3
  r1 = r1
  r2 = r2
  n1 = n1
  n2 = n2
  n3 = n3
  NoHost = NoHost
  Deployments <- NoDeployment
  Host <- ThreeHosts
  Request <- OneRequest
  Name <- ThreeNames
  Table <- ThreeRows
  Conductors <- ThreeConductors
  GroupCount = 2
  ApiPool = 3
  Menu <- PowerOfThree
INVARIANT AnswerCoversAll
CHECK_DEADLOCK FALSE
