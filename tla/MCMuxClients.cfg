CONSTANTS
  Clients <- Programs
  FwRetries = 2
  MaxRequests <- Requests
  MaxSignals = 1
  MaxFaults = 1
SPECIFICATION Spec
INVARIANTS TypeOK AnswersAreOwn
PROPERTIES StopEnds
CHECK_DEADLOCK FALSE
