\* A file of five bytes in chunks of three and two, three attempts a chunk.
CONSTANTS
  Size = 5
  ChunkSize = 3
  MaxTries = 3
  ErrorCodes = {404, 503}
SPECIFICATION FairUploadSpec
\* The upload ends.
CHECK_DEADLOCK FALSE
INVARIANTS TypeOK UploadedExact CorruptionIsFatal
PROPERTIES ImplementsContract UploadTerminates
