CONSTANTS
  a = a
  b = b
  c1 = c1
  c2 = c2
  c3 = c3
  c4 = c4
  Callers = {c1, c2, c3, c4}
  Workspaces = {a, b}
  Requests <- TurnRequests
  NoKey = NoKey
  NoCaller = NoCaller
  NoRequest = NoRequest
  GlobalLimit = 1
  PerWorkspaceLimit = 1
  PassBound = 1
SPECIFICATION FairTurnsSpec
INVARIANT BoundedPassing
PROPERTY FirstCallerServed
