CONSTANTS
  w1 = w1
  w2 = w2
  d1 = d1
  Ctl = Ctl
  Home = Home
  NoOwner = NoOwner
  Keep = Keep
  Nodes <- AllNodes
  Owners <- AllPlaces
  Hands <- AllNodes
  Remotes <- TwoRemotes
  LocalDirs <- OneDir
  Starts <- Anywhere
  EventIds <- Three
  MaxSeq = 2
  CarefulUser = TRUE
  MaxWarps = 1
  MaxDrops = 1
SPECIFICATION FairSpec
CHECK_DEADLOCK FALSE
INVARIANTS
  LogsAgree
  CountedIsStored
PROPERTIES
  StolenWithHistory
  OldWorkspaceIgnored
  CopyCatchesUp
  MoveIsSeen
