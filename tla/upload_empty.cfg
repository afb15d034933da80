SPECIFICATION Spec
CHECK_DEADLOCK FALSE
CONSTANTS
  Callers = {p, q}
  Ops <- UploadOps
  PayloadLen = 2
  ReadLimit = 1
  MaxCalls = 2
  p = p
  q = q
INVARIANT UploadsWhole
