CONSTANTS
  Windows = TRUE
  InitialDelay = 1
  Multiplier = 2
  MaxDelay = 2
  StableReset = 1
  StartTimeout = 2
  MaxPower = 1
  Stubborn = {"tunnel"}
SPECIFICATION SupervisorFairSpec
 
CHECK_DEADLOCK FALSE
PROPERTIES
  EndsAreClean
  StopEnds
  Recovers
