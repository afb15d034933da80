SPECIFICATION FairSpec
CONSTANTS
  Consumers = {c}
  Writers = {w}
  Closers = {}
  Modes <- IdleMode
  IdleTimeout = 1
  AttachTimeout = 1
  EventCap = 1
  Window = 1
  OutCap = 1
  None = None
  c = c
  w = w
PROPERTY ExpiryEndsAttach
