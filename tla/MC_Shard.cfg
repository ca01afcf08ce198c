SPECIFICATION Spec
CONSTANTS
  s = s
  Node <- MCNode
  Deps <- MCDeps
  Agent = {}
  Gate = {}
  Sharded <- MCNode
  Shard = {i1, i2}
  Whole = Whole
  Exec = {e1, e2, e3}
  NoExec = NoExec
  NoUnit = NoUnit
  NoTarget = NoTarget
  MaxGen = 1
  RequeueLimit = 1
  MaxTransient = 1
SYMMETRY Symmetry
CHECK_DEADLOCK FALSE
INVARIANTS
  Ownership
PROPERTIES
  StaleNeverFlips
