CONSTANTS
  CPU = {c0, c1}
  BSP = c0
  Proc = {p1, p2, p3}
  Faulty = {p1, p2, p3}
  Exiting = {p1, p2, p3}
  Garbage = {3}
  Null = Null
SPECIFICATION Spec
INVARIANTS TypeOK RunsAlone NoDangling NoneLost  UserFaultsContained
PROPERTIES FifoUntilStray
CHECK_DEADLOCK FALSE
SYMMETRY ProcSymmetry
