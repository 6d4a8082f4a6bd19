\* One job, nothing fails: a cancelled analysis.
SPECIFICATION Spec
CONSTANTS
  j1 = j1
  Jobs = {j1}
  NoJob = NoJob
  MaxFaults = 0
  MaxRestarts = 0
CHECK_DEADLOCK FALSE
INVARIANT AnalysisLeavesNothing
