CONSTANTS
  p1 = p1
  p2 = p2
  c1 = c1
  c2 = c2
  Processes <- TwoProcesses
  Clicks <- NoClick
  Intervals <- OneOrTwo
  Threaded = TRUE
  FailedOnly = FALSE
  Timeout = 2
  MaxTime = 5
  MaxRun = 3
  MaxCrash = 0
  MaxEdit = 0
SPECIFICATION Spec
CHECK_DEADLOCK FALSE
PROPERTY SlotClaimedOnce
