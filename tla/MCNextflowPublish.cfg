\* Two publishers of one service, two runs.
CONSTANTS
  Publishers = {p1, p2}
  Services = {s1}
  Archives <- MCArchives
  SourceLists <- MCSourceLists
  Library <- MCLibrary
  MaxRuns = 2
  MaxFaults = 1
  MaxChanges = 1
SYMMETRY Publishing
CHECK_DEADLOCK FALSE
SPECIFICATION Spec
INVARIANTS SchemaOfItsArchive OneDescription PackedExact
PROPERTIES ImplementsCatalog
