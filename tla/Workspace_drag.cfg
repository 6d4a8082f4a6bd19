\* One panel is dragged, and the window may shrink meanwhile.
SPECIFICATION Spec
CONSTANTS
  p1 = p1
  p2 = p2
  base = base
  data = data
  None = None
  Projects <- MCProjects
  Names = {"n"}
  Stages <- MCStages
  Widths = {200}
  Budgets <- MCOneDrag
  MaxPresets = 1
  Themes = {"dark"}
  HasToken = TRUE
  Layers <- MCLayers
  LayersOf <- MCLayersOf
  Basemaps = {base}
CHECK_DEADLOCK FALSE
PROPERTY DroppedIsReachable
