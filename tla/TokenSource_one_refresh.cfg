SPECIFICATION Spec
CONSTANTS
  Requests = {r1, r2}
  SingleUse = TRUE
  MaxGrants = 2
  MaxEdits = 1
SYMMETRY RequestSymmetry
INVARIANT OneRefreshPerBearer
