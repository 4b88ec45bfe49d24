CONSTANTS
  Callers = {u1}
  Persists = {1, 2}
  HasObserver = TRUE
  MayPause = FALSE
  MaxLogins = 1
  MaxLogouts = 0
  MaxChanges = 0
  MaxNm = 2
  MaxQueue = 1
SPECIFICATION Spec
INVARIANT ObserverCurrent
PROPERTY NetmapsInOrder
