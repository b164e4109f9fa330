CONSTANTS
  p1 = p1
  p2 = p2
  p3 = p3
  Past = Past
  Nobody = Nobody
  Contenders <- ThreeProcesses
  Stale = 1
  Lag = 1
  AnyOrder = FALSE
SPECIFICATION Spec
INVARIANT OneCleaner
