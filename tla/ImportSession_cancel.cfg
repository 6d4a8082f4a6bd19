SPECIFICATION Spec
CONSTANTS
  None = None
  Nodes <- MCNodes
  Files <- MCFiles
  Raws <- MCRaws
  NewNames = {"n"}
  Limits = {1, 2}
  MaxRendered = 1
  MaxFeatures = 2
PROPERTIES CancelLeavesNoRecord
CHECK_DEADLOCK FALSE
