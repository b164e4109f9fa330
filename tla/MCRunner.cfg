CONSTANTS
  Nobody = Nobody
  c1 = c1
  c2 = c2
  c3 = c3
  Callers <- TwoCallers
  MaxId = 3
SPECIFICATION FairSpec
INVARIANTS
  BusyIsLive
  NoLostWaiter
  StrayWorkIsBeingStopped
  QuietIsAnnounced
PROPERTIES
  OnlyOwnerEndsActivity
  ImplementsSingleFlight
  StopAnswersEverybody
