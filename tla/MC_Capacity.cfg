SPECIFICATION Spec
CONSTANTS
  Code = {1, 3}
  Agent = {2}
  Key = {a}
  KeyOf <- KeysOfJobs
  Worker = {w1, w2}
  Poll = {p1, p2}
  Local = Local
  None = None
  NoLimit = NoLimit
  Limits = {1}
  CodeCapacity = 1
  WorkerSlots = 1
  WorkerNodeSlots = 2
  WorkspaceAgents = 1
  MaxChanges = 1
  MaxFaults = 1
  a = a
SYMMETRY Symmetric
CHECK_DEADLOCK FALSE
INVARIANTS
  NodeLimitsHold
  PoolsHold
