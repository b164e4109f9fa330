SPECIFICATION FairSpec
CONSTANTS
  server = server
  app = app
  w1 = w1
  w2 = w2
  Graphs <- OneGraph
  Workers <- TwoWorkers
  MaxEntry = 3
INVARIANTS
  NobodyWaitsForADrain
  NeverRevived
PROPERTIES
  OnlyItsOwnDispose
  EveryCallEnds
CHECK_DEADLOCK FALSE
