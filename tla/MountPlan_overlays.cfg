SPECIFICATION PlanSpec
CONSTANTS
  Sessions = {s1, s2}
  Contents <- MCContents
  Setups <- MCSetups
  HostEnv = {"AWS_PROFILE", "EDITOR"}
  MaxEdits = 0
SYMMETRY Symmetry
INVARIANT OverlaysTakeEffect
CHECK_DEADLOCK FALSE
