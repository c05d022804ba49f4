\* Overlapping requests with one idempotency key.
SPECIFICATION Spec
CONSTANTS
  r1 = r1  r2 = r2  p1 = p1  p2 = p2  a1 = a1  a2 = a2  k1 = k1
  Requests = {r1, r2}
  Plans = {p1}
  Approvals = {a1, a2}
  Keys = {k1}
  MaxRequests = 8
  MaxTokens = 2
  MaxExecutions = 3
  None = None
SYMMETRY Symmetric
CHECK_DEADLOCK FALSE
INVARIANT
  SameKeyRunsOnce
