CONSTANTS
  CPU = {c0, c1}
  BSP = c0
  Calls = {"exit"}
  Devices = {}
  MaxWork = 1
  MaxTicks = 2
  Null = Null
SPECIFICATION FairSpec
PROPERTIES LoaderEnds
CHECK_DEADLOCK FALSE
