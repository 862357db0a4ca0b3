SPECIFICATION Spec
CONSTANTS
  Pids = {p1, p2, p3}
  MaxStarts = 3
SYMMETRY PidSymmetry
INVARIANTS TypeOK ScanFindsSteady ScanPrunesGone ExclusiveSeesSteady ApproveReachesSteady
CHECK_DEADLOCK FALSE
