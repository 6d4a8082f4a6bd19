SPECIFICATION Spec
CONSTANTS
  None = None
  Projects <- MCProjects
  Layers <- MCLayers
  LayersOf <- MCLayersOf
  TiersOf <- MCTiersOf
  Size <- MCSize
  Saved <- MCSaved
  Windows = {"west", "east"}
  Home = "west"
  BudgetBytes = 3
  MaxRequests = 2
  Budgets <- MCBudgets
INVARIANTS WindowsComeBack
CHECK_DEADLOCK FALSE
