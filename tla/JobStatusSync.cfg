SPECIFICATION Spec
CONSTANTS
  Node = {a, b}
  NoTarget = NoTarget
  Idle = Idle
CHECK_DEADLOCK FALSE
INVARIANTS
  PausedStatusIsHeld
