\* Two processes, two contexts, three commands; providers rotate.
CONSTANTS
  Procs = {p1, p2}
  Names = {a, b}
  Unnamed = Unnamed
  Rotates = TRUE
  MaxCommands = 3
  MaxTokens = 2
SPECIFICATION Spec
\* The commands are used up.
CHECK_DEADLOCK FALSE
SYMMETRY MCSymmetry
INVARIANTS   RefreshTokenUsable ContextsKept
