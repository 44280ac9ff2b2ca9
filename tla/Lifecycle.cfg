CONSTANTS
  p1 = p1
  p2 = p2
  w = w
  Procs = {p1}
  Workspaces = {w}
  Home <- OneWorkspace
  Access <- OneReader
  Checks = {p1}
  GlobalLimit = 2
  PerWorkspaceLimit = 2
  NoKey = NoKey
  NoRequest = NoRequest
  MaxOutput = 2
  MaxCrashes = 1
SPECIFICATION FairSpec
INVARIANTS
  
  NobodyIsLost
  
PROPERTIES
  
  EventuallyTerminal
CHECK_DEADLOCK FALSE
