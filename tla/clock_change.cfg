CONSTANTS
  None = None
  MaxCalls = 3
  MaxActions = 4
  MaxRows = 3
  Scenes <- MCScenes
  Zones <- MCZones
  Walls <- MCWalls
  Defaults <- MCDefaults
  Added <- MCAdded
SPECIFICATION Spec
CHECK_DEADLOCK FALSE
INVARIANT
  OffInTheTransitionOnly
