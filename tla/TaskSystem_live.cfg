\* One backend process, under the fairness of FairSpec.
SPECIFICATION FairSpec
CONSTANTS
  Procs = {p1}
  Clients = {c1}
  MaxTasks = 2
  MaxStarts = 2
  MaxFaults = 1
PROPERTIES
  EndedByItsWorker
  QueuedIsTaken
  InterruptedIsEnded
  WorkerIsFreed
  ShutdownEnds
