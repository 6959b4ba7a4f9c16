\* Two calls that create and two that get, two at a time.
CONSTANTS
  Handlers = {h1, h2}
  Contents <- MCContents
  Paths <- MCPaths
  MaxCreates = 2
  MaxGets = 2
SYMMETRY Handled
SPECIFICATION McpSpec
INVARIANTS PartsRetrievable GetExact MissedOnlyEarly
