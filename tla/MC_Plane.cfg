CONSTANTS
  Lease = {l1, l2}
  Request = {r1, r2}
  Pass = {p1, p2}
  None = None
  MaxGen = 1
  Fault = {"storage", "commit", "finish", "disk", "crash"}
SPECIFICATION Spec
INVARIANTS RowHasItsBytes   OneResultPerLease OnlyFaultsFail
SYMMETRY Symmetry
CHECK_DEADLOCK FALSE
