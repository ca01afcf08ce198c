SPECIFICATION LiveSpec
CONSTANTS
  a = a
  b = b
  Node <- MCNode
  Deps <- MCDeps
  Agent <- MCAgent
  Gate = {}
  Sharded = {}
  Shard = {}
  Whole = Whole
  Exec = {e1, e2}
  NoExec = NoExec
  NoUnit = NoUnit
  NoTarget = NoTarget
  MaxGen = 1
  RequeueLimit = 1
  MaxTransient = 2
CHECK_DEADLOCK FALSE
PROPERTIES
  RunningNodeEnds
  RunningJobEnds
  HeldRequestEnds
