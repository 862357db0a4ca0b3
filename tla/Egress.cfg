SPECIFICATION Spec
CONSTANTS
  Requests = {r1, r2}
  Approvals = {a1, a2}
  Pages = {v1}
  Hosts <- MCHosts
  Patterns <- MCPatterns
  Allowed <- MCAllowed
  Mitm <- MCMitm
  DefaultAllowedDomains <- MCDefaults
  Window = 1
  MaxTime = 1
SYMMETRY SlotSymmetry
INVARIANTS TypeOK RefusedIsListed PageAccountsForRefused ClearedStaysCleared ResolvedIsReachable
