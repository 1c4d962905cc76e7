\* A client closed after its failed server is gone.
SPECIFICATION FairSpec
CONSTANTS
  MaxRequests = 1
  MaxJunk = 1
PROPERTIES
  CloseAlwaysReturns
CHECK_DEADLOCK FALSE
