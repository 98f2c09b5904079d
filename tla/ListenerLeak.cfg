CONSTANTS
  Worker = {w1, w2}
  Cancels = {c1}
  Steers = {}
  Resumes = {}
  MaxAsk = 1
  MaxFault = 0
SPECIFICATION FairSpec
PROPERTIES
  TeardownEndsListeners
