SPECIFICATION FairSpec
CONSTANTS
  Requests = {a, b}
  Clients = {c1, c2}
  Brings <- FirstBrings
  Capacity = 2
  MaxOrdinal = 2
  Events = {"lose", "readyfail", "stop"}
  None = None
PROPERTIES
  StopEndsResidence
  ClaimIsAnswered
  LossRetiresReadiness
  LostDeliveryCloses
CHECK_DEADLOCK FALSE
