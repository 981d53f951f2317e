CONSTANTS
  Calls = {c1, c2, c3}
  NoCall = NoCall
  Old = Old
  Candidate = candidate
  Panelists = {panelist}
  Ops = {"issue", "view", "respond", "decline"}
  Faults = {"abort", "expiry"}
SPECIFICATION Spec
SYMMETRY Symmetry
INVARIANTS
  TypeOK
  Mirrored
  LiveLinkWasSent
PROPERTIES
  ResponsesSurvive
