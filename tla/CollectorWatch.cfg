CONSTANTS
  Collectors = {"c1"}
  Files = {"f"}
  Ids = {"m1", "m2"}
  Home <- MCHome
  MaxOut = 2
  MaxLines = 2
  MaxRewrites = 1
  MaxFaults = 1
  Setups <- MCWatch
SPECIFICATION Spec
INVARIANT FailedPostRetried
CHECK_DEADLOCK FALSE
