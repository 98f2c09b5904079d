CONSTANTS
  Assemblers = {a1}
  Janitors = {j1}
  NoBox = NoBox
  Quiet = FALSE
  MaxGen = 3
  MaxFaults = 2
  MaxEdits = 2
  Ttl = 20
  Every = 3
  MaxPass = 1
  MaxWrites = 1
SPECIFICATION Spec

  
PROPERTIES
  ReclaimedEventually
  
  FailsOnlyWhenStable
  UnknownIsDecided
CHECK_DEADLOCK FALSE
