SPECIFICATION FairSpec
CONSTANTS
  Procs = {p1, p2}
  Names = {f}
  Inodes = {i1}
  Contents <- MCContents
  BufSize = 2
  Offsets <- MCAnyOffsets
INVARIANTS
  TypeOK
PROPERTIES
  RetrievalEnds
