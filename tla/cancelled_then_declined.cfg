SPECIFICATION Spec
CONSTANTS
  Calls = {c1, c2}
  NoCall = NoCall
  First = First
  Ops = {"cancel", "decline"}
  Starts = {"RECOMMENDED"}
  Faults = {}
PROPERTIES CancelledIsFinal
