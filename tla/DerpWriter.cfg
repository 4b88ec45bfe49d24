CONSTANTS
  Spawned = {w}
  Senders = {s}
  Depth = 2
  MaxNotices = 1
SPECIFICATION FairSpec
INVARIANTS WriterSound WorkKept
PROPERTIES StopReturns PendingServed
