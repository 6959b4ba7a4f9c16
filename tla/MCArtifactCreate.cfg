\* Two processes, a directory of two files one of which changes, three commands.
CONSTANTS
  Procs = {p1, p2}
  file1 = file1
  file2 = file2
  Files <- MCFiles
  Parts = 2
  MaxCommands = 3
  MaxArtifacts = 3
  MaxChanges = 1
SPECIFICATION Spec
\* The commands are used up.
CHECK_DEADLOCK FALSE
SYMMETRY MCSymmetry
INVARIANTS ArtifactsExact CollectionExact UploadedOnce
