SPECIFICATION FairSpec
CONSTANTS
  bar = bar
  den = den
  play = play
  skip = skip
  None = None
  Notice = Notice
  Guilds <- TwoGuilds
  Interactions <- Commands
  MAX_GUILDS = 1
  MAILBOX = 1
  JOBS = 2
  REJECTIONS = 1
  DEFER_TIME = 1
  LOOKUP_TIME = 1
  ACK_WAIT = 3
INVARIANTS
  TypeOK
  MapMatchesActors
  OnlyUnconfirmedIsDiscarded
PROPERTIES
  KeepsTheLine
  TakenOnIsDecided
  ServiceStops
CHECK_DEADLOCK FALSE
