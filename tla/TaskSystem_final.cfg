\* One process, one task: the terminal state that is overwritten.
SPECIFICATION Spec
CONSTANTS
  Procs = {p1}
  Clients = {c1}
  MaxTasks = 1
  MaxStarts = 1
  MaxFaults = 0
PROPERTIES
  TerminalIsFinal
