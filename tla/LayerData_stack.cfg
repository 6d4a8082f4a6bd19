SPECIFICATION Spec
CONSTANTS
  None = None
  Layers <- MCLayers
  Tables <- MCTables
  Rows = {1, 2}
  PageSize = 1
  Estimates = {3}
  Scenarios <- MCScenarios
PROPERTY
  StackIsTheList
CHECK_DEADLOCK FALSE
