CONSTANTS
  c = c
  x = x
  Node <- MCNode
  Name <- MCName
  Definitions <- MCDefinitions
  Always = Always
  Absent = Absent
  External = External
  NoEdge = NoEdge
  MaxGen = 1
SPECIFICATION Spec
INVARIANTS VerdictStands FreshInputs NoMissedWakeup NothingElseSticks
PROPERTY ResetIsLeast
CHECK_DEADLOCK FALSE
