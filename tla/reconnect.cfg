\* A lookup among three sandboxes, then two goroutines on the handle.
SPECIFICATION Spec
CONSTANTS
  Callers = {p, q}
  Ops = {"Exec", "File", "FileMutation", "Session", "Snapshot", "Delete",
         "Resume", "ReissueCapability", "CreatePreview"}
  MaxCalls = 3
  MaxEpoch = 1
  MaxMoves = 1
  None = None
  LastId = 3
  Limits = {0, 2}
  ServerPage = 3
  p = p
  q = q
INVARIANT TypeOK
INVARIANT DeletedForGood
INVARIANT NoFalseVerdict
INVARIANT GuestCallsAddressed
INVARIANT PerformedOnce
INVARIANT RefusedMeansNotDone
INVARIANT ListsAll
INVARIANT ListsOnce
INVARIANT NothingArbitraryDeleted
SYMMETRY CallerSymmetry
CHECK_DEADLOCK FALSE
