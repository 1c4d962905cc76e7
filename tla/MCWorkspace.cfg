\* Two of the seven sections and one write; two chat sessions and two
\* entries of the log; any number of loads.
CONSTANTS
  Sections = {balance, lowStock}
  MaxVersion = 2
  MaxSessions = 2
  MaxLog = 2
SPECIFICATION MCFairSpec
INVARIANTS
  DashboardIsHonest
  ErrorsOpenOnce
  PanelFollowsTheChat
PROPERTIES
  DataIsKept
  LoadsRunOut
  LoadsEnd
