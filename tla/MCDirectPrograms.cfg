\* the bounds: a queue of two samples and two attempts to restart a reader
CONSTANTS
  Attempts = 2
  MaxQueue = 2
  MaxAsked = 3
  Capacity = 2
SPECIFICATION Spec
INVARIANTS TypeOK LinkIsFree SamplesAreCurrent
PROPERTIES SamplesAreShown
CHECK_DEADLOCK FALSE
