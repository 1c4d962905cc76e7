\* Long turns of one session: read rounds, quotes, sales and batches across
\* cancellations, failures and compactions.
SPECIFICATION Spec
CONSTANTS
  None = None
  Sessions = {s1}
  Requests = {r1}
  Proposals = {p1, p2}
  SaleArgs = {a1, a2}
  a1 = a1
  a2 = a2
  Replies <- LongReplies
  RecentCount = 3
  MaxMessages = 6
SYMMETRY Symmetry
INVARIANTS
  PendingStaysRight
  HistoryIsWholeTurns
PROPERTIES
  TurnsRunOut
CHECK_DEADLOCK FALSE
