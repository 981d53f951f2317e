SPECIFICATION FairSpec
CONSTANTS
  Calls = {c1, c2}
  NoCall = NoCall
  First = First
  Ops = {"submit", "generate", "book", "decline", "reschedule", "cancel", "outcome"}
  Starts = {"AWAITING", "READY", "RECOMMENDED", "BOOKED"}
  Faults = {"redis", "ttl", "create", "delete", "persist"}
INVARIANTS CalendarAgrees
PROPERTIES OnlyOwnLock EveryCallEnds ReschedulingPasses
