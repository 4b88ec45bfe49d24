CONSTANTS
  Callers = {u1}
  Persists = {1}
  HasObserver = TRUE
  MayPause = TRUE
  MaxLogins = 1
  MaxLogouts = 0
  MaxChanges = 0
  MaxNm = 1
  MaxQueue = 1
SPECIFICATION FairSpec
PROPERTIES ShutdownCompletes
