\* --chunk-size -1, and a chunk that was cut: the artifact must be the archive.
CONSTANTS
  Size = 2
  ChunkSize <- MCNoChunking
  MaxTries = 2
  ErrorCodes = {503}
  MaxAttempts = 3
  SameLimit = 2
  MaxRuns = 2
  MaxVersions = 0
SPECIFICATION ResumeSpec
CHECK_DEADLOCK FALSE
INVARIANTS ResumedExact
