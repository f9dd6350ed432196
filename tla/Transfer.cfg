SPECIFICATION Spec
CONSTANTS
  Procs = {p1, p2}
  Names = {f, g}
  Inodes = {i1, i2}
  Contents <- MCContents
  BufSize = 2
  Offsets <- MCOffsets
SYMMETRY MCSymmetry
VIEW MCView
INVARIANTS
  RetrieveFaithful
  StoreFaithful
PROPERTIES
  DownloadsExact
  UploadsExact
  ImplementsFiles
