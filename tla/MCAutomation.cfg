CONSTANTS
  p1 = p1
  p2 = p2
  c1 = c1
  c2 = c2
  Processes <- TwoProcesses
  Clicks <- OneClick
  Intervals <- EveryMinute
  Threaded = TRUE
  FailedOnly = TRUE
  Timeout = 1
  MaxTime = 4
  MaxRun = 2
  MaxCrash = 1
  MaxEdit = 1
SPECIFICATION FairSpec
CHECK_DEADLOCK FALSE
INVARIANTS
  ResultStaysUnread
PROPERTIES
  ClaimedAgainOnlyIfRearmed
  ZombieSettles
  DueIsServed
