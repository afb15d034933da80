SPECIFICATION FairSpec
CONSTANTS
  Consumers = {c}
  Writers = {w}
  Closers = {}
  Kinds = {"write"}
  Serial = FALSE
  EventCap = 2
  Window = 1
  MaxOutputs = 2
  MaxInputs = 1
  MaxStreams = 2
  None = None
  w = w
  c = c
INVARIANT RerunOnlyBeforeOutput
INVARIANT DeliveryOrder
PROPERTY CallsReturn
PROPERTY ReaderExits
