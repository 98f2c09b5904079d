CONSTANTS
  Worker = {w1, w2}
  Cancels = {c1, c2}
  Steers = {}
  Resumes = {r1, r2}
  MaxAsk = 1
  MaxFault = 1
SYMMETRY CommandSymmetry
CONSTRAINT CommandBound
SPECIFICATION Spec
INVARIANTS
  CancelDecidesOutcome
  SucceededIsReal
