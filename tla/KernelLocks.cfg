CONSTANTS
  CPU = {c0, c1, c2}
  BSP = c0
  Calls = {"puts", "kread", "fault"}
  Devices = {}
  MaxWork = 1
  MaxTicks = 2
  Null = Null
SPECIFICATION FairSpec
INVARIANTS TypeOK NoCircle
PROPERTIES LoaderEnds
