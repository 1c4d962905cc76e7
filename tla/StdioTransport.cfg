\* Three requests in flight and one stray line, under the event loop's fairness.
SPECIFICATION FairSpec
CONSTANTS
  MaxRequests = 3
  MaxJunk = 1
INVARIANTS
  NoOrphanChild
  LogAgrees
  WaitsAreOwed
PROPERTIES
  RequestsKept
  AwaitsEnd
CHECK_DEADLOCK FALSE
