SPECIFICATION Spec
CONSTANTS
  Consumers = {c}
  Writers = {}
  Closers = {x}
  Kinds = {}
  Serial = TRUE
  EventCap = 1
  Window = 1
  MaxOutputs = 1
  MaxInputs = 0
  MaxStreams = 2
  None = None
  x = x
  c = c
INVARIANT CloseStopsRemote
