SPECIFICATION FairSpec
CONSTANTS
  Requests = {r1, r2}
  HasRefresh = TRUE
  MaxLogins = 2
INVARIANTS TypeOK NoRepeatedLogin
PROPERTIES ConfigNeverOlder RequestsForwarded
