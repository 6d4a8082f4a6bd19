SPECIFICATION Spec
CONSTANTS
  None = None
  Projects <- MCProjects
  Layers <- MCLayers
  LayersOf <- MCLayersOf
  TiersOf <- MCTiersOf
  Size <- MCSize
  Saved <- MCSaved
  Windows = {"west", "east"}
  Home = "west"
  BudgetBytes = 3
  MaxRequests = 2
  Budgets <- MCBudgets
INVARIANTS ChargedCoversHeld ThumbnailIsOwn
PROPERTIES SelectedIsKept BudgetIsRespected OversizeIsNotThrashed
CHECK_DEADLOCK FALSE
