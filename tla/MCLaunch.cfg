SPECIFICATION FairSpec
CONSTANTS
  first = first
  second = second
  elsewhere = elsewhere
  project = project
  copy = copy
  Free = Free
  Launches <- ClickedLaunches
  Workspaces <- ExtractedFolders
  Workspace <- ClickedWorkspace
  FoldersBefore <- NewOrUsed
  Held = {"canary"}
INVARIANTS
  OneHubAWorkspace
  PortsUnderTheLock
  EveryRunIsRecorded
PROPERTIES
  RefusalTakesBack
  EveryClickIsAnswered
  EveryStopEndsTheHub
CHECK_DEADLOCK FALSE
