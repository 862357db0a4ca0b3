SPECIFICATION FairSpec
CONSTANTS
  Responses = {s1, s2}
  Models = {m1, m2}
  Streams <- MCStreams
  Bodies <- MCBodies
INVARIANTS TypeOK UsageExact ReportHasStreams
PROPERTIES ClientServed ReportPrinted
CHECK_DEADLOCK FALSE
