CONSTANTS
  Calls = {c1, c2, c3}
  NoCall = NoCall
  Old = Old
  Candidate = candidate
  Panelists = {panelist}
  Ops = {"issue", "respond"}
  Faults = {"expiry"}
SPECIFICATION Spec
PROPERTIES
  NotReopened
