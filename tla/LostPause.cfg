SPECIFICATION FairSpec
CONSTANTS
  song = song
  alice = alice
  bob = bob
  lobby = lobby
  stage = stage
  None = None
  Songs <- MCSongs
  Users <- OneUser
  Streams = {}
  UnknownLength = {}
  Channels <- OneChannel
  HISTORY_LIMIT = 1
  FAILURE_LIMIT = 2
  MaxTracks = 1
  MaxPending = 2
  Commands <- PlayerCommands
  MaxPlays = 1
  MaxCommands = 1
  MaxLost = 1
  LosePauses = TRUE
  MaxLostEvents = 0
  MaxOutages = 0
  MaxVoice = 0
  MaxServers = 1
  MaxGeneration = 2
  MaxInbox = 2
  MaxLives = 1
PROPERTIES
  SilentPlayerIsReleased
CHECK_DEADLOCK FALSE
