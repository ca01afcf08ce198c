SPECIFICATION Spec
CONSTANTS
  Jobs = 4
  Sizes = {1, 3, 4}
  Firsts = {1}
  Chunk = 2
  MaxCrash = 1
  MaxLeaves = 1
  MaxJoins = 1
  MaxPacks = 0
  None = None
CHECK_DEADLOCK FALSE
INVARIANTS
  CompletedIsRecorded
  SkipsAreBounded
  RepeatsAreAccounted
PROPERTIES
  OperatorWins
  OperationEnds
