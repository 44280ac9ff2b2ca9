CONSTANTS
  s1 = s1
  s2 = s2
  o1 = o1
  o2 = o2
  o3 = o3
  f1 = f1
  f2 = f2
  x1 = x1
  x2 = x2
  Sets = {s1, s2}
  Ops = {o1, o2, o3}
  SetOf <- SetOfEach
  FileOf <- FileOfEach
  Files = {f1, f2}
  Externals = {x1}
  NotValidated = NotValidated
  MaxCrashes = 2
  MaxFailures = 1
SPECIFICATION FairSpec

  
PROPERTIES
  
  CommitsEnd
CHECK_DEADLOCK FALSE
