SPECIFICATION SysFairSpec
CONSTANTS
  MaxFds = 4
  Offsets <- MCOffsets
  AcceptTries = 2
  MaxLate = 1
INVARIANTS
  ClientTypeOK
  IdleInSync
  AnswersOwn
  StarvedOnlyIfMerged
  WedgedOnlyByFailure
  MainPageIsLoggedIn
PROPERTIES
  OperationsEnd
CHECK_DEADLOCK FALSE
