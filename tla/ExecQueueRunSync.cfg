CONSTANTS
  Funcs = {f1}
  Callers = {c1, c2}
SPECIFICATION FairSpec
PROPERTY RunSyncReturns
