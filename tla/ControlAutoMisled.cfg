CONSTANTS
  Callers = {u1}
  Persists = {1}
  HasObserver = TRUE
  MayPause = FALSE
  MaxLogins = 1
  MaxLogouts = 1
  MaxChanges = 0
  MaxNm = 0
  MaxQueue = 1
SPECIFICATION Spec
INVARIANT ObserverNotMisled
