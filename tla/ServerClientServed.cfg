SPECIFICATION Spec
CONSTANTS
  Conns = {c1, c2, c3}
  MaxFds = 3
  MaxProcs = 2
SYMMETRY MCSymmetry
PROPERTIES
  EveryClientServed
CHECK_DEADLOCK FALSE
