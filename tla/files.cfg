SPECIFICATION FairSpec
CHECK_DEADLOCK FALSE
CONSTANTS
  Callers = {p, q}
  Ops <- CoreOps
  PayloadLen = 2
  ReadLimit = 1
  MaxCalls = 2
  p = p
  q = q
INVARIANT TypeOK
INVARIANT WritesWhole
INVARIANT DownloadsWhole
INVARIANT ReadsBounded
INVARIANT MutatesOnce
PROPERTY FilesAtomic
PROPERTY CallsReturn
