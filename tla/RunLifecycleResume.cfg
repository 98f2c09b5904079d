CONSTANTS
  Worker = {w1}
  NoWorker = NoWorker
  MaxGen = 3
  MaxFault = 1
  Timely = TRUE
  Skew = FALSE
  Cancels = FALSE
SPECIFICATION FairSpec
PROPERTIES
  ResumeSettles
