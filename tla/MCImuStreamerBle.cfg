CONSTANTS
  Link = "ble"
  MaxStarts = 1

SPECIFICATION Spec

INVARIANT StopClosesTransport
