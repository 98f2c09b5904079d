CONSTANTS
  Invs = {1, 2, 3}
  Steers = {s1}
  MaxOwner = 2
  MaxMishaps = 2
  Attempts = {a1, a2}
  Calls = {c1, c2}
  Requests = {q1, q2, q3}
  Driver = Driver
  Nobody = Nobody
  Unknown = Unknown
  HttpRequests = {r1, r2}
  Bodies <- Sent
  Issues = {i1}
  Jobs = {j1, j2}
  NoJob = NoJob
  Callers = {w1, w2}
  Versions = {v1, v2}
  None = None
  Assemblers = {m1, m2}
  Janitors = {n1}
  NoBox = NoBox
  Quiet = FALSE
  Boxes = {1, 2, 3}
  MaxEpoch = 2
  MaxFaults = 1
  MaxGen = 2
  MaxRev = 2
  MaxEntry = 2
  Life = 2
  MaxTime = 3
  MaxEdits = 3
  Drift = 3
  MaxSkew = 2
  Ttl = 4
  Lease = 3
  MaxLeases = 3
  Horizon = 7
SPECIFICATION Spec
INVARIANTS
  ToolOutcomeIsTrue
  ClosureIsTrue
  RunCanEnd
  ScopeIsQuiet
  UsageIsOfThisCall
  ProofEndsWithLease
  LiveBoxSurvives
  NoBoxForgotten
PROPERTIES
  DrainMeansClosed
  
CHECK_DEADLOCK FALSE
