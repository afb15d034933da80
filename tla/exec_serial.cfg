SPECIFICATION Spec
CONSTANTS
  Consumers = {c}
  Writers = {w}
  Closers = {x}
  Kinds = {"write", "closeStdin"}
  Serial = TRUE
  EventCap = 1
  Window = 2
  MaxOutputs = 1
  MaxInputs = 2
  MaxStreams = 2
  None = None
  x = x
  w = w
  c = c
INVARIANT TypeOK
INVARIANT ReplayInOrder
INVARIANT ReplayComplete
INVARIANT AbortOnlyWhenAsked
PROPERTY KeepsContract
