SPECIFICATION FairSpec
CONSTANTS
  Requests = {r1, r2}
  SingleUse = TRUE
  MaxGrants = 2
  MaxEdits = 1
INVARIANTS TypeOK ReplayIsFresh FilePairWasHeld CredentialRefreshable
PROPERTY CellSpec
