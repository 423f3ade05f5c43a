CONSTANTS
  Link = "serial"
  MaxStarts = 3

SPECIFICATION Spec

INVARIANTS
  TypeOK
  OverIsReported
  DeviceIsStopped
  StopIsClean

PROPERTY
  StopEndsReader
