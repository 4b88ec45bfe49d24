CONSTANTS
  Callers = {u1}
  Persists = {1}
  HasObserver = FALSE
  MayPause = TRUE
  MaxLogins = 2
  MaxLogouts = 1
  MaxChanges = 1
  MaxNm = 0
  MaxQueue = 1
SPECIFICATION Spec
INVARIANTS NoLostWakeup OnlyWhileLoggedIn ServerInformed
PROPERTY LoginWanted
