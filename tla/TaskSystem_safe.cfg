\* Two backend processes on one database, two concurrent requests.
SPECIFICATION Spec
CONSTANTS
  Procs = {p1, p2}
  Clients = {c1, c2}
  MaxTasks = 2
  MaxStarts = 2
  MaxFaults = 0
SYMMETRY ClientSymmetry
INVARIANTS
  CancelSticks
  ExclusiveExecution
PROPERTY
  QueueSpec
