CONSTANTS
  PayloadWords = 2
  Attempts = 2
  MaxWrites = 4

SPECIFICATION Spec

INVARIANT AcceptedIsOnePickle


\* All MaxWrites writes are made and nobody reads.
CHECK_DEADLOCK FALSE
