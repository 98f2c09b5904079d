CONSTANTS
  Worker = {w1, w2}
  Cancels = {}
  Steers = {s1}
  Resumes = {}
  MaxAsk = 1
  MaxFault = 1
SPECIFICATION FairSpec
INVARIANTS
  
  FrameSurvives
PROPERTIES
  
  RecordedIsDecided
