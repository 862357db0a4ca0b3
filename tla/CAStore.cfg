SPECIFICATION Spec
CONSTANTS
  Procs = {p1, p2}
  Hosts = {h1}
  MaxGen = 3
INVARIANTS TypeOK ServingPairMatches UndisturbedAgree
PROPERTIES StoredCAKept
