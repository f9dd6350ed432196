SPECIFICATION FairSpec
CONSTANTS
  Conns = {c1, c2, c3, c4}
  MaxFds = 3
  MaxProcs = 3
INVARIANTS
  TypeOK
  CopiesAccounted
  EndReachesClient
PROPERTIES
  FullForGood
  ServedUntilRefusal
CHECK_DEADLOCK FALSE
