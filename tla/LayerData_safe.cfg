SPECIFICATION Spec
CONSTANTS
  None = None
  Layers <- MCLayers
  Tables <- MCTables
  Rows = {1, 2}
  PageSize = 1
  Estimates = {3}
  Scenarios <- MCScenarios
INVARIANTS
  ListSettles
  DistinctPlaces
  SavedIsShown
PROPERTY
  OtherChangesStand
CHECK_DEADLOCK FALSE
