SPECIFICATION FairSpec
CONSTANTS
  Requests = {r1, r2}
  Parents = {p1, p2}
  NumSlots = 1
  MaxGen = 2
  Faulty = FALSE
  Events = {"cancel", "refuse"}
  None = None
PROPERTIES
  BegunIsEnded
CHECK_DEADLOCK FALSE
