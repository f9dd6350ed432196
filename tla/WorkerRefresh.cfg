SPECIFICATION FairSpec
CONSTANTS
  home = home
  sub = sub
  file = file
  folder = folder
  Dirs <- MCDirs
  Files <- MCFiles
  Folders <- MCFolders
  Home = home
  MaxSignals = 2
  MaxClicks = 3
PROPERTIES
  RefreshFollows
CHECK_DEADLOCK FALSE
