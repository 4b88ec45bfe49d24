CONSTANTS
  Loggers = {l1, l2}
  Logs = {1, 2}
  RetryLimit = 2
  MaxOverlaps = 1
  MaxFaults = 1
  MaxCuts = 0
SPECIFICATION Spec
CHECK_DEADLOCK FALSE
INVARIANTS NothingLost
