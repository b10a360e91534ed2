SPECIFICATION FairSpec
CONSTANTS
  h1 = h1
  h2 = h2
  t1 = t1
  t2 = t2
  t3 = t3
  n1 = n1
  n2 = n2
  NoTag = NoTag
  Host <- TwoHosts
  Task <- ThreeTasks
  HostOf <- HostOfThree
  Name <- TwoNames
  Attempts = 2
  MaxGen = 1
  Faults <- NoFaults
INVARIANT EveryReservationHasHolder
PROPERTIES LockIsTemporary RequestAnswered
