CONSTANTS
  ItemsPerPage = 2
  Fan = 4
  PageWords = 8
  CodeBase = 192
  StackBase = 160
  Files <- MCFiles
  Boots <- MCBoots
  Memory <- MCMemory
  KernelPages = {1, 2, 3, 4, 5, 6, 7, 8, 9}
  Shared <- MCShared
  TssPages <- MCTss
  IstPages <- MCIst
  InfoNames = {"module_name", "module_requirements"}
  Syscalls <- MCSyscalls
  StubWords = 3
  StubsPerPage = 2
  Features = {3}
  Buses = 4
  Devices = 2
  Functions = 2
  Bits = 2
  Machines <- MCMachines
  PciFile = "pci"
  ConfigPorts = {7, 8}
  Others = 1
  Turns <- MCTurns
SPECIFICATION FairSpec
INVARIANTS TypeOK    ImageRight AllProvided
PROPERTIES LoaderEnds
CHECK_DEADLOCK FALSE
