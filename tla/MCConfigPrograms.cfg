CONSTANTS
  NTypes = 2
  Fitted = 2
  MaxFails = 2
  MaxTimers = 2
  MaxOpens = 2

SPECIFICATION Spec

INVARIANTS
  TypeOK
  CalibrationSound
  RestingIsStored

PROPERTIES
  CancelUndoes
  SearchFindsFitted
  OnlyRevertHides

CHECK_DEADLOCK FALSE
