CONSTANTS
  Ann = ann
  Bob = bob
  Emails <- TwoPeople
  Starts <- KnownPeople
  None = None
  MaxCalls = 2
  MaxLost = 1
SPECIFICATION FairSpec
CHECK_DEADLOCK FALSE
INVARIANTS
  TypeOK
  OneRequestEach
  NeverRefused
PROPERTIES
  OnlyLoadsForget
  EveryCallEnds
