SPECIFICATION FairSpec
CONSTANTS
  Codes = {0, 3}
  Capacity = 2
INVARIANTS TypeOK CommandConfined HostStatusTrue
PROPERTIES CommandNotCutShort SessionEnds
CHECK_DEADLOCK FALSE
