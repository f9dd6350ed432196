SPECIFICATION FairSpec
CONSTANTS
  MaxFds = 4
  Offsets <- MCOffsets
INVARIANTS
  TypeOK
  ModeExcludesRename
  DescriptorsOwned
  ReplyDiscipline
  LoginGate
  QuitEnds
PROPERTIES
  LostOnlyWithError
  ImplementsProtocol
  OnlyAcceptOutlivesPeer
CHECK_DEADLOCK FALSE
