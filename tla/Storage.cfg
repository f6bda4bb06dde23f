SPECIFICATION Spec
CONSTANTS
  Processes = {p, q}
  Values = {v, w}
  Records = {r}
  Tickets = {t}
  None = None
SYMMETRY Symmetry
INVARIANTS
  ReadsAreCurrent
PROPERTIES
  TicketsStay
CHECK_DEADLOCK FALSE
