SPECIFICATION ServedSpec
CONSTANTS
  h1 = h1
  h2 = h2
  t1 = t1
  t2 = t2
  n1 = n1
  n2 = n2
  NoHost = NoHost
  Host <- TwoHosts
  Task <- TwoTasks
  Resource <- TwoNodes
  Ops <- ProvisionOps
  Faults <- RecordsSafe
  Boot = "pxe"
INVARIANT DeployingIsServed
SYMMETRY Interchangeable
CHECK_DEADLOCK FALSE
