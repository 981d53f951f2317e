CONSTANTS
  None = None
  MaxCalls = 3
  MaxActions = 4
  MaxRows = 3
  Scenes <- MCScenes
  Zones <- MCZones
  Walls <- MCWalls
  Defaults <- MCDefaults
  Added <- MCAdded
SPECIFICATION FairSpec
CHECK_DEADLOCK FALSE
INVARIANTS
  TypeOK
  ReadYourWrites
  OneCallEach
  SelectionIsOffered
  BookedWasConfirmed
  FreshLinksWork
  WindowsInOrder
  OffByTheGapAtMost
PROPERTIES
  EveryWaitEnds
