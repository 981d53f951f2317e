CONSTANTS
  Day = 12
  DayStart = 4
  DayEnd = 11
  CoreStart = 5
  CoreEnd = 9
  Horizon = 24
  ProximityHorizon = 12
  Step = 2
  TopN = 2
  Scale = 84
  Weights <- MCWeights
  WindowLists <- MCWindowLists
  CandidateZones <- MCZones
  Panels <- MCPanels
  Lengths <- MCLengths
  Times = {0, 9, 24}
SPECIFICATION Spec
INVARIANTS
  TypeOK
  FitsEverybody
  FailsOnlyWithoutRoom
  OffersTheBest
  NeverRejected
  TotalInRange
CHECK_DEADLOCK FALSE
