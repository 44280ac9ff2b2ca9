CONSTANTS
  w1 = w1
  w2 = w2
  j1 = j1
  j2 = j2
  Workspaces = {w1}
  Jobs = {j1, j2}
  Nobody = Nobody
  AutoDiscard = TRUE
  MaxActive = 1
  MaxFaults = 1
  MaxCrashes = 1
SPECIFICATION FairSpec
 
CHECK_DEADLOCK FALSE
PROPERTIES
  
  DiscardsSucceed
