SPECIFICATION FairSpec
CONSTANTS
  Consumers = {c}
  Writers = {w}
  Closers = {d}
  Modes <- BothModes
  IdleTimeout = 1
  AttachTimeout = 1
  EventCap = 1
  Window = 1
  OutCap = 1
  None = None
  c = c
  w = w
  d = d
INVARIANT TypeOK
INVARIANT DetachIsLast
INVARIANT DetachIsNoError
PROPERTY ExpiresOnlyWhenQuiet
PROPERTY DeadlineFreesCalls
