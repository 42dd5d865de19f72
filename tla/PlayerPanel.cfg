SPECIFICATION FairSpec
CONSTANTS
  None = None
  DeletionLimit = 1
  MaxMessages = 3
  MaxNow = 3
  MaxFailures = 3
  MaxLate = 1
  MaxDeleted = 1
INVARIANTS
  TypeOK
  OneOwnedMessage
PROPERTIES
  NeverBackwards
  RetiredIsDeleted
  PanelCatchesUp
CHECK_DEADLOCK FALSE
