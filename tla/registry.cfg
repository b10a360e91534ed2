SPECIFICATION FairSpec
CONSTANTS
  h1 = h1
  w1 = w1
  w2 = w2
  Host <- OneHost
  Worker <- TwoWorkers
  HostOf <- Siblings
  Interval = 1
  Timeout = 3
  Faults <- Survivable
INVARIANTS TypeOK RunningStaysListed RegistrationSucceeds
PROPERTIES RunningIsShownOnline ImplementsMembership
