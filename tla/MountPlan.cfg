SPECIFICATION PlanSpec
CONSTANTS
  Sessions = {s1, s2}
  Contents <- MCContents
  Setups <- MCSetups
  HostEnv = {"AWS_PROFILE", "EDITOR"}
  MaxEdits = 1
SYMMETRY Symmetry
INVARIANTS PlanTypeOK HiddenStaysHidden ClaudeHomeKept
CHECK_DEADLOCK FALSE
