SPECIFICATION Spec
CONSTANTS
  MaxStarts = 4
  MaxCloses = 1
  MaxRequests = 5
  Proposals = {p1, p2}
  NoProposal = NoProposal
  MaxSessions = 2
  MaxWork = 7
CONSTRAINT Budget
SYMMETRY Interchangeable
INVARIANTS
  ServersFollowTheRuntime
  CatalogIsAlive
  CardsAreRight
  ClickRunsItsCard
PROPERTIES
  StartedAtMostOnce
CHECK_DEADLOCK FALSE
