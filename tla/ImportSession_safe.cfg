SPECIFICATION Spec
CONSTANTS
  None = None
  Nodes <- MCNodes
  Files <- MCFiles
  Raws <- MCRaws
  NewNames = {"n"}
  Limits = {1, 2}
  MaxRendered = 1
  MaxFeatures = 2
INVARIANTS SameVerdict PointsFollowCells EveryValueHasItsColumn ConfirmedIsAccepted ImportedOnce
PROPERTIES ReadingEnds
CHECK_DEADLOCK FALSE
