\* Two calls of any shape; a timeout of two ticks, a budget of three.
CONSTANTS
  Timeout = 2
  MaxElapsed = 3
  MaxBackoff = 2
  Codes = {200, 404, 503}
  MaxCalls = 2
SPECIFICATION Spec
\* The calls are used up.
CHECK_DEADLOCK FALSE
INVARIANTS OkMeansApplied DownloadExact StreamAtMostOnce CallBounded
PROPERTIES TimedCallReturns
