SPECIFICATION Spec
CONSTANTS
  Requests = {a, b}
  Clients = {c1, c2, c3}
  Brings <- AnyBrings
  Capacity = 2
  MaxOrdinal = 3
  Events = {"die", "leave", "late", "observe", "lose", "toolfail", "readyfail", "stop"}
  None = None
SYMMETRY Symmetry
INVARIANTS
  TypeOK
  ReadinessIsAttended
  ClaimIsNotPassedOver
  AdmittedOnce
CHECK_DEADLOCK FALSE
