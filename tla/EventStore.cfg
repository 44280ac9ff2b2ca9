CONSTANTS
  r1 = r1
  r2 = r2
  p1 = p1
  p2 = p2
  a = a
  b = b
  Readers = {r1, r2}
  Workspaces = {a}
  Procs = {p1}
  Home <- HomeOfEach
  Any = Any
  PageSize = 1
  MaxWaiters = 1
  MaxKept = 1
  MaxEvents = 3
  MaxRestarts = 1
SPECIFICATION FairSpec
INVARIANTS
  PagesAreComplete
  RetentionIsExact
  WaitersAreCounted
PROPERTIES
  ImplementsEventLog
  WaitsEnd
CHECK_DEADLOCK FALSE
