\* A write persisted by a handler that then fails to read the balance.
SPECIFICATION Spec
CONSTANTS
  None = None
  Sessions = {s1}
  Requests = {r1}
  Proposals = {p1, p2}
  SaleArgs = {a1, a2}
  a1 = a1
  a2 = a2
  Replies <- LongReplies
  RecentCount = 3
  MaxMessages = 8
INVARIANTS
  RejectedMeansNotDone
CHECK_DEADLOCK FALSE
