SPECIFICATION FairSpec
CONSTANTS
  s1 = s1
  s2 = s2
  MaxPrompts = 2
  Stops <- OneStop
  MaxDetours = 1
INVARIANTS
  AnsweredUnlessStopped
  SteerIsKept
  OneAnswer
  NothingLeftBehind
PROPERTIES
  NothingOldIsSampled
  EverybodyReturns
CHECK_DEADLOCK FALSE
