SPECIFICATION Spec
CONSTANTS
  song = song
  alice = alice
  bob = bob
  lobby = lobby
  stage = stage
  None = None
  Songs <- MCSongs
  Users <- OneUser
  Streams = {}
  UnknownLength = {}
  Channels <- OneChannel
  HISTORY_LIMIT = 1
  FAILURE_LIMIT = 2
  MaxTracks = 2
  MaxPending = 2
  Commands <- AllCommands
  MaxPlays = 2
  MaxCommands = 1
  MaxLost = 1
  LosePauses = TRUE
  MaxLostEvents = 0
  MaxOutages = 1
  MaxVoice = 0
  MaxServers = 1
  MaxGeneration = 3
  MaxInbox = 2
  MaxLives = 1
INVARIANTS
  TypeOK
  LoadHasItsLoader
  NoPlayAfterStop
  BackendHasTheCurrentTrack
  QuietWhenEmpty
PROPERTIES
  OnlyFinishedTracksFinish
CHECK_DEADLOCK FALSE
