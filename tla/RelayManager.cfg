CONSTANTS
  Endpoints = {e, f}
  Servers = {s}
  Regions = {1}
  DiscoKeys = {k}
  ServerDiscos = {d}
  VNIs = {1, 2}
  LamportIDs = {1, 2}
  AddrPorts = {a}
  Best <- Bests
  NoDisco = NoDisco
  ZeroDisco = ZeroDisco
  None = None
  LimitPings = 2
  MaxCalls <- Limits
SPECIFICATION FairSpec
CHECK_DEADLOCK FALSE
INVARIANTS TablesSound WorkAccounted
PROPERTIES StopClears NothingHangs
