\* Three jobs of any kind (a task and two retries of it), one failing commit,
\* clean-up or recording, one crash of the backend.
SPECIFICATION Spec
CONSTANTS
  j1 = j1
  j2 = j2
  j3 = j3
  Jobs = {j1, j2, j3}
  NoJob = NoJob
  MaxFaults = 1
  MaxRestarts = 1
SYMMETRY JobSymmetry
CHECK_DEADLOCK FALSE
INVARIANTS
  LayerHasData
  HistoryIsAtomic
  FailureLeavesNothing
  UploadKeptUntilImported
  ImportedOnce
