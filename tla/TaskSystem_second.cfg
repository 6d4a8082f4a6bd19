\* A second process starts while the first executes a task.
SPECIFICATION Spec
CONSTANTS
  Procs = {p1, p2}
  Clients = {c1}
  MaxTasks = 1
  MaxStarts = 2
  MaxFaults = 0
PROPERTIES
  EndedByItsWorker
