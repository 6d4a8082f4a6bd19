SPECIFICATION Spec
CONSTANTS
  Geoms = {g1, g2}
  NoGeom = NoGeom
  InitRows = 1
  MaxDraws = 2
  MaxEdits = 4
  MaxSaves = 2
  MaxFaults = 1
  MaxLost = 1
SYMMETRY GeomSymmetry
INVARIANTS EditsAreKept CreatedOnce
