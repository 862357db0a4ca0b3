SPECIFICATION FairSpec
CONSTANTS
  MaxChunks = 2
  Requests <- MCRequests
INVARIANTS TypeOK NotCutShort SignatureCoversRequest
PROPERTIES PathEnds
CHECK_DEADLOCK FALSE
