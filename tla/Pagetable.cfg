CONSTANTS
  Fan = 16
  RsvdNum = 8
  Preset = 3
  PtBase = 2
  LowLimit = 36
  MaxPage = 96
  BootAreas <- KernelAreas
  MapAreas <- Devices
  Counts = {1, 2}
  MaxCalls = 6
SPECIFICATION Spec
INVARIANTS TypeOK NeverOut  
PROPERTIES OnlyFreeUnmaps
