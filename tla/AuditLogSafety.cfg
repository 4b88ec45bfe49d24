CONSTANTS
  Loggers = {l1, l2}
  Logs = {1, 2}
  RetryLimit = 1
  MaxOverlaps = 1
  MaxFaults = 1
  MaxCuts = 0
SPECIFICATION Spec
SYMMETRY Symmetry
CHECK_DEADLOCK FALSE
INVARIANTS TypeOK OnlyOverwrittenLost FlushScheduled
