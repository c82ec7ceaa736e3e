CONSTANTS
  Cpus = {0, 2, 3}
  BSP = 0
  Machines <- OldMachines
  Width = 6
  Modules = 2
  MayFault = {0, 2}
SPECIFICATION FairSpec
INVARIANTS TypeOK OwnSlots PagesHeld UserReady
PROPERTIES BootEnds FaultStops
CHECK_DEADLOCK FALSE
