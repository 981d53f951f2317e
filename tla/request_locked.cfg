SPECIFICATION Spec
CONSTANTS
  Calls = {c1, c2, c3}
  NoCall = NoCall
  First = First
  Ops = {"generate", "book", "cancel", "outcome"}
  Starts = {"READY", "RECOMMENDED"}
  Faults = {"create", "delete", "timeout", "persist", "ack", "task", "commit", "renew", "crash"}
SYMMETRY CallSymmetry
PROPERTIES BooksRecommended KeepsCurrentRun
