SPECIFICATION Spec
CONSTANTS
  Lease = {l1, l2}
  None = None
  MaxCrash = 1
  Lanes = 1
  WaitFitsLease = TRUE
CHECK_DEADLOCK FALSE
INVARIANTS
  DirectoryIsExclusive
  LiveLeaseNotCondemned
  OwnedLeaseIsBeaten
PROPERTIES
  ResultIsKept
  BarrierOpens
  DeadDeliveryEnds
