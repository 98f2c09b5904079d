CONSTANTS
  Worker = {w1, w2}
  NoWorker = NoWorker
  MaxGen = 2
  MaxFault = 1
  Timely = TRUE
  Skew = FALSE
  Cancels = FALSE
SPECIFICATION FairSpec
PROPERTIES
  LaunchSettles
