SPECIFICATION Spec
CONSTANTS
  home = home
  sub = sub
  file = file
  folder = folder
  Dirs <- MCDirs
  Files <- MCFiles
  Folders <- MCFolders
  Home = home
  MaxSignals = 2
  MaxClicks = 4
INVARIANTS
  TypeOK
  RunsAsAsked
  TableIsHere
PROPERTIES
  ParamsStable
  RefusedOnlyWhileWorking
CHECK_DEADLOCK FALSE
