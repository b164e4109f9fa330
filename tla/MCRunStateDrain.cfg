SPECIFICATION Spec
CONSTANTS
  server = server
  app = app
  c1 = c1
  c2 = c2
  c3 = c3
  Graphs <- BothGraphs
  Callers <- ThreeCallers
  MaxState = 3
  MaxRunner = 3
  MaxTurn = 3
PROPERTIES
  DrainMissesNobody
CHECK_DEADLOCK FALSE
