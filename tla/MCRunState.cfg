SPECIFICATION Spec
CONSTANTS
  server = server
  app = app
  c1 = c1
  c2 = c2
  c3 = c3
  Graphs <- BothGraphs
  Callers <- TwoCallers
  MaxState = 3
  MaxRunner = 3
  MaxTurn = 3
SYMMETRY Symmetry
INVARIANTS
  CancelReaches
  IndexIsForgotten
  QuietIsIdle
CHECK_DEADLOCK FALSE
