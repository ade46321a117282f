SPECIFICATION Spec
CONSTANTS
  Importers = {i1, i2}
  Revisions = {r1, r2}
  None = None
  Garbage = Garbage
  Last = 3
  Loaded <- MCLoaded
  MaxCrashes = 1
SYMMETRY MCSymmetry
VIEW MCView
INVARIANTS TypeOK RollbackRestores NothingTornIsActive LoadedIsBacked
CHECK_DEADLOCK FALSE
