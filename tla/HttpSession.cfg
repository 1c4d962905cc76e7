SPECIFICATION FairSpec
CONSTANTS
  Calls = {c1, c2}
  MaxFaults = 2
INVARIANTS
  BothEndsAgree
  WaitsAreOwed
PROPERTIES
  CallsKept
  OnlyABodyHangs
CHECK_DEADLOCK FALSE
