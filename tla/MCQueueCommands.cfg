\* Two terminals, three queues on two pages, five commands.
CONSTANTS
  Terminals = {t1, t2}
  Queues = 3
  Backlog = 2
  PageSize = 2
  Limits = {0, 2}
  MaxCommands = 5
  MaxFaults = 1
SYMMETRY Users
CHECK_DEADLOCK FALSE
SPECIFICATION Spec
INVARIANTS TokensMeanShown PagesCover DequeueExact
