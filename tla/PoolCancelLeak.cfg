SPECIFICATION Spec
CONSTANTS
  Requests = {r1}
  Parents = {p1, p2}
  NumSlots = 1
  MaxGen = 2
  Faulty = FALSE
  Events = {"cancel"}
  None = None
SYMMETRY Symmetry
INVARIANTS
  NoReceiptNotInherited
CHECK_DEADLOCK FALSE
