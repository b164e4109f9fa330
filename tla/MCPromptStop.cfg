SPECIFICATION FairSpec
CONSTANTS
  s1 = s1
  s2 = s2
  MaxPrompts = 2
  Stops <- OneStop
  MaxDetours = 0
PROPERTIES
  StopHitsItsTurn
CHECK_DEADLOCK FALSE
