CONSTANTS
  Funcs = {f1, f2}
  Callers = {c1, c2}
SPECIFICATION FairSpec
INVARIANTS TypeOK OneGoroutine WaitMeansDrained ShutdownAndWaitMeansQuiet RunSyncRan
PROPERTIES ImplementsSerialQueue QueuedRuns BlockedReturns
