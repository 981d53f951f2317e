CONSTANTS
  Calls = {c1, c2}
  NoCall = NoCall
  Old = Old
  Candidate = candidate
  Panelists = {panelist}
  Ops = {"issue", "view", "respond", "decline"}
  Faults = {"abort", "expiry"}
SPECIFICATION FairSpec
PROPERTIES
  EveryCallEnds
