\* An executed write whose explanation the model botches.
SPECIFICATION Spec
CONSTANTS
  None = None
  Sessions = {s1}
  Requests = {r1}
  Proposals = {p1, p2}
  SaleArgs = {a1, a2}
  a1 = a1
  a2 = a2
  Replies <- LongReplies
  RecentCount = 3
  MaxMessages = 8
INVARIANTS
  ExecutedWritesAreRemembered
CHECK_DEADLOCK FALSE
