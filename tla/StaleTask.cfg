CONSTANTS
  Worker = {w1, w2}
  NoWorker = NoWorker
  MaxGen = 3
  MaxFault = 0
  Timely = FALSE
  Skew = FALSE
  Cancels = FALSE
SYMMETRY WorkerSymmetry
SPECIFICATION Spec
INVARIANTS
  StaleTaskIsRegistered
