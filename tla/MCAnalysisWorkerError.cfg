CONSTANTS
  DrainStride = 2
  MaxRevision = 2
  MaxClears = 2
  NoResult = NoResult

SPECIFICATION Spec

INVARIANT WorkerErrorShown

\* The worker may end and the controlling thread has nothing left to do.
CHECK_DEADLOCK FALSE
