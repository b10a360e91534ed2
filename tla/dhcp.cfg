SPECIFICATION Spec
CONSTANTS
  h1 = h1
  net1 = net1
  r1 = r1
  r2 = r2
  n1 = n1
  n2 = n2
  q1 = q1
  q2 = q2
  q3 = q3
  NoNet = NoNet
  NoRow = NoRow
  NoRequest = NoRequest
  NoHost = NoHost
  NoConf = NoConf
  Host <- OneHost
  Net <- OneNet
  Row <- TwoRows
  Local <- AllLocal
  Name <- TwoNames
  Request <- ThreeRequests
  Cleans <- LastCleans
  NameOf <- OfTwoNames
  SubnetOf <- AsksOne
  MaxChanges = 1
  Faults <- NetworkFaults
SYMMETRY SameRows
INVARIANTS TypeOK AnsweredIsServed SubnetsFollowNetworks
CHECK_DEADLOCK FALSE
