CONSTANTS
  Cpus = {0, 2, 3}
  BSP = 0
  Machines <- NewMachines
  Width = 6
  Modules = 2
  MayFault = {}
SPECIFICATION FairSpec
PROPERTIES BootEnds
CHECK_DEADLOCK FALSE
