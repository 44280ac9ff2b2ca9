CONSTANTS
  p1 = p1
  p2 = p2
  w = w
  Procs = {p1, p2}
  Workspaces = {w}
  Home <- OneWorkspace
  Access <- OneReader
  Checks = {p1}
  GlobalLimit = 2
  PerWorkspaceLimit = 2
  NoKey = NoKey
  NoRequest = NoRequest
  MaxOutput = 0
  MaxCrashes = 1
SPECIFICATION Spec
INVARIANTS
  LeasesAccounted
  ManagedAreAdmitted
CHECK_DEADLOCK FALSE
