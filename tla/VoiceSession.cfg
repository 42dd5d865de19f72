SPECIFICATION Spec
CONSTANTS
  song = song
  alice = alice
  bob = bob
  lobby = lobby
  stage = stage
  None = None
  Songs <- MCSongs
  Users <- OneUser
  Streams = {}
  UnknownLength = {}
  Channels <- TwoChannels
  HISTORY_LIMIT = 1
  FAILURE_LIMIT = 2
  MaxTracks = 1
  MaxPending = 2
  Commands <- AllCommands
  MaxPlays = 2
  MaxCommands = 0
  MaxLost = 0
  LosePauses = TRUE
  MaxLostEvents = 0
  MaxOutages = 0
  MaxVoice = 2
  MaxServers = 2
  MaxGeneration = 2
  MaxInbox = 2
  MaxLives = 2
INVARIANTS
  IdleClock
PROPERTIES
  RequesterIsThere
  OnlyFinishedTracksFinish
CHECK_DEADLOCK FALSE
