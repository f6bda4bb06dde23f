SPECIFICATION Spec
CONSTANTS
  MaxTurn = 2
  MaxGen = 2
  None = None
INVARIANTS
  StopAndDeadlineAgree
  JoinedIsOver
PROPERTIES
  ReleaseIsFenced
  DetachedStartsNothing
CHECK_DEADLOCK FALSE
