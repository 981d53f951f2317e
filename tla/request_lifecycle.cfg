SPECIFICATION Spec
CONSTANTS
  Calls = {c1, c2, c3}
  NoCall = NoCall
  First = First
  Ops = {"submit", "generate", "book", "decline", "reschedule", "cancel", "outcome"}
  Starts = {"AWAITING", "READY", "RECOMMENDED"}
  Faults = {"redis", "delete", "persist", "commit", "crash"}
SYMMETRY CallSymmetry
INVARIANTS TypeOK BookedHasEvent OneConfirmed
PROPERTIES ImplementsContract
