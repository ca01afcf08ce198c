SPECIFICATION Spec
CONSTANTS
  Execs = 2
  Jobs = 3
  HashSpace = 2
  Subs = 2
  MaxBegun = 1
  MaxItems = 2
  Claimed = {2, 3}
  MaxAttempts = 2
  None = None
CHECK_DEADLOCK FALSE
INVARIANTS
  OrderedLocksAcyclic
  VerdictsAreTrue
PROPERTIES
  ParkedIsAnswered
