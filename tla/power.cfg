SPECIFICATION Spec
CONSTANTS
  vm1 = vm1
  vm2 = vm2
  server = server
  guest = guest
  metal = metal
  broken = broken
  c1 = c1
  c2 = c2
  c3 = c3
  NoCommand = NoCommand
  NoMachine = NoMachine
  NoDevice = NoDevice
  Node <- Nodes
  Machine <- Machines
  Device <- Devices
  Command <- Commands
  Slots <- OneNode
  Menu <- SomeCommands
  Mgt <- Management
  Info <- ControlInfo
  Nics <- NicsOf
  Bmc <- BmcOf
  Vms <- Listed
  Macs <- MacsOf
  Default = "disk"
  MaxOutside = 1
  Faults <- PowerFaults
INVARIANTS TypeOK AnswersAreTrue DoneStaysDone
SYMMETRY Symmetric
CHECK_DEADLOCK FALSE
