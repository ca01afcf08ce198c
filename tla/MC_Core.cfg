SPECIFICATION Spec
CONSTANTS
  a = a
  b = b
  g = g
  Node <- MCNode
  Deps <- MCDeps
  Agent <- MCAgent
  Gate <- MCGate
  Sharded = {}
  Shard = {}
  Whole = Whole
  Exec = {e1, e2, e3}
  NoExec = NoExec
  NoUnit = NoUnit
  NoTarget = NoTarget
  MaxGen = 1
  RequeueLimit = 1
  MaxTransient = 2
SYMMETRY Symmetry
CHECK_DEADLOCK FALSE
INVARIANTS
  TypeOK
  LeaseOwnsNode
  NoDoubleExecution
  RunningIsOwned
  ProducersCompleted
  CompletedJobIsDone
PROPERTIES
  CompletedIsFinal
  LeasesAreFencedLock
  StartIsAuthorized
