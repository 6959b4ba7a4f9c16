\* A stream of four bytes through a buffer of two.
CONSTANTS
  Total = 4
  ChunkSize = 2
  MaxTries = 3
  ErrorCodes = {404, 503}
SPECIFICATION Spec
\* The upload ends.
CHECK_DEADLOCK FALSE
INVARIANTS StreamedExact NeverDeclaredShort
PROPERTIES StreamTerminates
