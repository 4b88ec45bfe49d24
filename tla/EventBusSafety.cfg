CONSTANTS
  a = a
  b = b
  chan = chan
  func = func
  Clients = {a, b}
  Types = {chan, func}
  FuncTypes = {func}
  Wants <- MCWants
  Publishes <- MCPublishes
  Capacity = 1
  MaxEvents = 2
  MaxCloses = 1
SPECIFICATION Spec
INVARIANT QueuesSound
PROPERTIES ImplementsTimeline QuietAfterClose
