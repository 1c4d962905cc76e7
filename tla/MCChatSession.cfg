\* Two sessions and two concurrent requests: confirmations, lost answers and
\* failing model calls, under the fairness the awaits justify.
SPECIFICATION FairSpec
CONSTANTS
  None = None
  Sessions = {s1, s2}
  Requests = {r1, r2}
  Proposals = {p1, p2}
  SaleArgs = {}
  a1 = a1
  a2 = a2
  Replies <- ShortReplies
  RecentCount = 1
  MaxMessages = 5
INVARIANTS
  ConfirmedThenOnce
  HonestReport
  BusyWithOneTurn
PROPERTIES
  SessionsAreReleased
  ImplementsConfirmationFlow
CHECK_DEADLOCK FALSE
