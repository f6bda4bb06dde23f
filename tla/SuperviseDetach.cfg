SPECIFICATION Spec
CONSTANTS
  MaxTurn = 1
  MaxGen = 2
  None = None
INVARIANTS
  DetachedIsRecoverable
CHECK_DEADLOCK FALSE
