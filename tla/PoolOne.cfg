SPECIFICATION Spec
CONSTANTS
  Requests = {r1}
  Parents = {p1, p2}
  NumSlots = 1
  MaxGen = 4
  Faulty = TRUE
  Events = {"cancel", "refuse", "cooldown", "abandon", "handoff"}
  None = None
SYMMETRY Symmetry
INVARIANTS
  TypeOK
  AtMostOneSend
  SendIsFenced
  ClaimMatchesReceipt
  PublishedIsAnswered
  CancelledIsUnsent
  SettledCanEnd
PROPERTIES
  InheritedStaysInherited
  FreedOnlySettled
  ReceiptsMoveForward
  ImplementsSendOnce
CHECK_DEADLOCK FALSE
