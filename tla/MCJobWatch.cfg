\* Three and four checks stand for the 99 and 100 of the code.
CONSTANTS
  WatchChecks = 3
  McpChecks = 4
  MaxInterval = 4
SPECIFICATION PollSpec
\* The commands end.
CHECK_DEADLOCK FALSE
INVARIANTS ShownIsFinal
PROPERTIES PollingEnds LoginEnds
