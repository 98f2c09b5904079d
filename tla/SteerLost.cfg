CONSTANTS
  Invs = {1, 2, 3}
  Steers = {s1}
  MaxOwner = 2
  MaxMishaps = 2
CHECK_DEADLOCK FALSE
SPECIFICATION ToolSpec
INVARIANTS
  SteerNeverLost
