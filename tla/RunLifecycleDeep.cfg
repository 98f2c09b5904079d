CONSTANTS
  Worker = {w1, w2}
  NoWorker = NoWorker
  MaxGen = 3
  MaxFault = 1
  Timely = FALSE
  Skew = FALSE
  Cancels = FALSE
SYMMETRY WorkerSymmetry
SPECIFICATION LateSpec
INVARIANTS
  OneResumePerPause
  HeadMatchesIntents
