SPECIFICATION Spec
CONSTANTS
  Consumers = {c}
  Writers = {w}
  Closers = {}
  Kinds = {"write", "closeStdin"}
  Serial = FALSE
  EventCap = 1
  Window = 2
  MaxOutputs = 0
  MaxInputs = 2
  MaxStreams = 2
  None = None
  w = w
  c = c
INVARIANT ReplayComplete
