CONSTANTS
  Callers = {u1}
  Persists = {1}
  HasObserver = FALSE
  MayPause = TRUE
  MaxLogins = 2
  MaxLogouts = 0
  MaxChanges = 1
  MaxNm = 0
  MaxQueue = 1
SPECIFICATION FairServerSpec
PROPERTIES EventuallyInformed LoginResolves
