CONSTANTS
  MaxRevision = 2
  MaxFailures = 2

SPECIFICATION Spec

INVARIANTS
  TypeOK
  MemoryOutlivesUsers
  OnlyStuckWorkersTerminated

PROPERTIES
  UpdatesAreKept
  ParametersReachWorker
  ClosingEndsRun
  BrokenLoopEndsRun

\* The run ends.
CHECK_DEADLOCK FALSE
