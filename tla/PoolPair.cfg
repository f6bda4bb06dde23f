SPECIFICATION Spec
CONSTANTS
  Requests = {r1, r2}
  Parents = {p1, p2}
  NumSlots = 2
  MaxGen = 2
  Faulty = TRUE
  Events = {"cancel", "handoff"}
  None = None
SYMMETRY Symmetry
INVARIANTS
  ActiveHoldsSlot
  WorkersAreHeldOnce
CHECK_DEADLOCK FALSE
