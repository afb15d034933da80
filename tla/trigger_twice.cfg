SPECIFICATION Spec
CHECK_DEADLOCK FALSE
CONSTANTS
  Callers = {p, q}
  Ops <- TriggerOps
  UserKeys = {k}
  Orgs = {o1, o2}
  Endpoints = {tapi, guest}
  Tapi = tapi
  MaxRetries = 1
  MaxCalls = 2
  None = None
  p = p
  q = q
  k = k
  o1 = o1
  o2 = o2
  tapi = tapi
  guest = guest
INVARIANT OneObjectPerCall
