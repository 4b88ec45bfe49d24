CONSTANTS
  Funcs = {f1}
  Callers = {c1}
SPECIFICATION Spec
INVARIANT ShutdownWaitsForOperation
