CONSTANTS
  None = None
  Accounts = {admin, candidate}
  Staff = {admin}
  Invitee = candidate
  MaxCalls = 4
  MaxActions = 3
SPECIFICATION FairSpec
CHECK_DEADLOCK FALSE
INVARIANTS
  TypeOK
  OneRefresh
  ShownIsTokenOwner
  ShownAnswerIsRecorded
PROPERTIES
  EverythingSettles
