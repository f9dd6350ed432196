SPECIFICATION SysSpec
CONSTANTS
  MaxFds = 4
  Offsets <- MCOffsets
  AcceptTries = 2
  MaxLate = 0
INVARIANTS
  NeverStarved
CHECK_DEADLOCK FALSE
