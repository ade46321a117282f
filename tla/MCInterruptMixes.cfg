SPECIFICATION Spec
CONSTANTS
  Importers = {i1}
  Revisions = {r1, r2}
  None = None
  Garbage = Garbage
  Last = 3
  Loaded <- MCLoaded
  MaxCrashes = 1
SYMMETRY MCSymmetry
VIEW MCView
INVARIANT AllOrNothing
CHECK_DEADLOCK FALSE
