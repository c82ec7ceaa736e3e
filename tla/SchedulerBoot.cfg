CONSTANTS
  CPU = {c0, c1}
  BSP = c0
  Proc = {p1, p2, p3}
  Faulty = {}
  Exiting = {p2}
  Garbage = {0}
  Null = Null
SPECIFICATION FairSpec
PROPERTIES BootCompletes
CHECK_DEADLOCK FALSE
