SPECIFICATION SocketSpec
CONSTANTS
  Requests = {a, b}
  Calls = {c1, c2, c3}
  Capacity = 2
  MaxReceives = 3
  SeenLimit = 2
  Resident = FALSE
  Timed = TRUE
  Faulty = TRUE
  None = None
SYMMETRY Symmetry
INVARIANTS
  OneReceivePerJob
  WaitHasAnEnd
PROPERTIES
  PendingIsNotRunAgain
  ExpirySparesJobs
CHECK_DEADLOCK FALSE
