CONSTANTS
  a = a
  b = b
  c1 = c1
  c2 = c2
  c3 = c3
  c4 = c4
  Callers = {c1, c2, c3, c4}
  Workspaces = {a, b}
  Requests <- ToolRequests
  NoKey = NoKey
  NoCaller = NoCaller
  NoRequest = NoRequest
  GlobalLimit = 3
  PerWorkspaceLimit = 2
SPECIFICATION Spec
SYMMETRY CallerSymmetry
INVARIANTS
  AdmissionSafe
  LeasesAreExact
  QueuesInStep
  WorkConserving
PROPERTY ImplementsAdmission
