\* An archive of three bytes in chunks of two, which can be cut in the middle;
\* two runs of two attempts each, and one change of the archive at any time.
CONSTANTS
  Size = 3
  ChunkSize = 2
  MaxTries = 2
  ErrorCodes = {503}
  MaxAttempts = 2
  SameLimit = 2
  MaxRuns = 2
  MaxVersions = 1
SPECIFICATION FairResumeSpec
\* The runs are used up.
CHECK_DEADLOCK FALSE
INVARIANTS ResumedComplete ResumedCopy MetaNamesLast
PROPERTIES RunTerminates
