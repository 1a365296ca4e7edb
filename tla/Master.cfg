\* Up to three workers, and four entries in the process table, so that a pid can
\* be given away as soon as it is free.
SPECIFICATION FairSpec
CONSTANTS
  Pids = {1, 2, 3, 4}
  MaxProcesses = 3
INVARIANTS
  NoOrphans
  TableComplete
PROPERTIES
  KillsOnlyChildren
  Decides
CHECK_DEADLOCK FALSE
