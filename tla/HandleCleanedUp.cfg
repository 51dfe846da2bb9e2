SPECIFICATION Spec
CONSTANTS
  Objects = {o1, o2, o3}
  Cells = {c1, c2, c3}
  None = None
SYMMETRY Symmetry
INVARIANT
  CleanedUp
CHECK_DEADLOCK FALSE
