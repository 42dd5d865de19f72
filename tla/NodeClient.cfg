SPECIFICATION FairSpec
CONSTANTS
  s1 = s1
  s2 = s2
  s3 = s3
  None = None
  Sessions <- MCSessions
  Capacity = 2
  MaxUnread = 2
INVARIANTS
  TypeOK
  ReadyIsAnnounced
PROPERTIES
  LifetimeKept
  LossIsAnnounced
CHECK_DEADLOCK FALSE
