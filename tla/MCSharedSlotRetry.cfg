CONSTANTS
  PayloadWords = 2
  Attempts = 2
  MaxWrites = 3

SPECIFICATION Spec

INVARIANT FailsAfterAttempts


\* All MaxWrites writes are made and nobody reads.
CHECK_DEADLOCK FALSE
