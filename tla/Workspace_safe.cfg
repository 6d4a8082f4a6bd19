\* Two projects, a wide and a narrow window, gestures of every kind;
\* panels at their own width or dragged to the widest the style sheet allows.
SPECIFICATION MCSpec
CONSTANTS
  p1 = p1
  p2 = p2
  base = base
  data = data
  None = None
  Projects <- MCProjects
  Names = {"n"}
  Stages <- MCStages
  Widths = {520}
  Budgets <- MCBudgets
  MaxPresets = 2
  Themes = {"dark"}
  HasToken = TRUE
  Layers <- MCLayers
  LayersOf <- MCLayersOf
  Basemaps = {base}
CHECK_DEADLOCK FALSE
INVARIANT VisibleIsShown
PROPERTY BrokenThemeEnds
PROPERTY MovedIsReachable
