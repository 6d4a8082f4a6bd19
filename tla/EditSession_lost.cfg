SPECIFICATION Spec
CONSTANTS
  Geoms = {g1}
  NoGeom = NoGeom
  InitRows = 1
  MaxDraws = 1
  MaxEdits = 3
  MaxSaves = 1
  MaxFaults = 0
  MaxLost = 0
INVARIANT FlushRunsEveryOperation
