CONSTANTS
  c1 = c1
  s1 = s1
  s2 = s2
  r1 = r1
  r2 = r2
  check = check
  Clients = {c1}
  Steps = {s1, s2}
  Offered <- Entries
  TestSteps = {s1, s2}
  Runs = {r1, r2}
  CheckOf <- TwoRuns
  Required = {check}
  NoCheck = NoCheck
  NoPlan = NoPlan
  NoRun = NoRun
  MaxRevision = 2
SPECIFICATION Spec
INVARIANTS
  PlanIsConsistent
  ReadyIsEarned
CHECK_DEADLOCK FALSE
