SPECIFICATION Spec
CONSTANTS
  Consumers = {c1, c2}
  Writers = {}
  Closers = {x}
  Kinds = {}
  Serial = FALSE
  EventCap = 1
  Window = 1
  MaxOutputs = 1
  MaxInputs = 0
  MaxStreams = 3
  None = None
  x = x
  c2 = c2
  c1 = c1
INVARIANT RefreshAtMostOnce
INVARIANT OnlyCurrentRuns
PROPERTY KeepsContract
SYMMETRY ConsumerSymmetry
