CONSTANTS
  c = c
  x = x
  Node <- MCNode
  Name <- MCName
  Definitions <- TwoVerdicts
  Always = Always
  Absent = Absent
  External = External
  NoEdge = NoEdge
  MaxGen = 0
SPECIFICATION Spec
INVARIANT VerdictsComplete
CHECK_DEADLOCK FALSE
