CONSTANTS
  CPU = {c0}
  BSP = c0
  Proc = {p1, p2, p3, p4}
  Faulty = {}
  Exiting = {}
  Garbage = {0}
  Null = Null
SPECIFICATION FairSpec
PROPERTIES ImplementsRunQueue EveryoneRuns BootCompletes
