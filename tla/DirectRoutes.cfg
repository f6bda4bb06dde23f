SPECIFICATION Spec
CONSTANTS
  Ids = {a, b, c}
  Chats = {c1, c2}
  Tasks = {t1}
  MaxBindings = 2
  Frail = {a}
  None = None
SYMMETRY Symmetry
INVARIANTS
  RoutesStayApart
  ReceiptsStaySound
  CompletedIsAnswered
  ContinuationStays
  FormsAgree
PROPERTIES
  ImplementsSendOnce
CHECK_DEADLOCK FALSE
