SPECIFICATION Spec
CONSTANTS
  h1 = h1
  h2 = h2
  t1 = t1
  t2 = t2
  n1 = n1
  n2 = n2
  NoHost = NoHost
  Host <- OneHost
  Task <- TwoTasks
  Resource <- TwoNodes
  Ops <- FileOps
  Faults <- NoFaults
  Boot = "petitboot"
INVARIANTS InstallHasTemplate DeployedBootsDisk CleanRemovesFiles
SYMMETRY Interchangeable
CHECK_DEADLOCK FALSE
