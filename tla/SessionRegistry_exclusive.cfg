SPECIFICATION Spec
CONSTANTS
  Pids = {p1, p2}
  MaxStarts = 2
SYMMETRY PidSymmetry
INVARIANTS ExclusiveAlone
CHECK_DEADLOCK FALSE
