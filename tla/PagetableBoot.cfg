CONSTANTS
  Fan = 32
  RsvdNum = 16
  Preset = 2
  PtBase = 2
  LowLimit = 36
  MaxPage = 96
  BootAreas <- ScatteredAreas
  MapAreas = {}
  Counts = {1}
  MaxCalls = 1
SPECIFICATION FairSpec
PROPERTIES MemoryReady
CHECK_DEADLOCK FALSE
