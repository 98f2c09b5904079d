CONSTANTS
  Worker = {w1, w2}
  NoWorker = NoWorker
  MaxGen = 2
  MaxFault = 1
  Timely = FALSE
  Skew = TRUE
  Cancels = TRUE
SYMMETRY WorkerSymmetry
SPECIFICATION Spec
INVARIANTS
  TypeOK
  OneHolderPerGeneration
  OneInvocationPerGeneration
  ClaimedIffLeased
  UnleasedIffParked
  RecoveryBranchIsDead
PROPERTIES
  TerminalIsFinal
  YieldSparesCurrent
  ImplementsRunFence
