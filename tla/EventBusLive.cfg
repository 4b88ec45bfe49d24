CONSTANTS
  a = a
  b = b
  chan = chan
  func = func
  Clients = {a, b}
  Types = {chan, func}
  FuncTypes = {func}
  Wants <- MCLiveWants
  Publishes <- MCLivePublishes
  Capacity = 1
  MaxEvents = 2
  MaxCloses = 1
SPECIFICATION FairSpec
PROPERTIES BusCallsReturn EventuallyDelivered
