SPECIFICATION Spec
CONSTANTS
  p1 = p1
  p2 = p2
  Processes <- Both
  MaxLogin = 2
  MaxGeneration = 2
SYMMETRY Symmetry
INVARIANTS
  KeyFitsLogin
  LiveTokenIsHeld
  OnlyDeadIsCondemned
  PresentsTheNewest
PROPERTIES
  LoginIsNeverUndone
CHECK_DEADLOCK FALSE
