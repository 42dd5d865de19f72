SPECIFICATION FairSpec
CONSTANTS
  song = song
  other = other
  alice = alice
  None = None
  Songs <- TwoSongs
  Users <- OneUser
  Streams = {}
  UnknownLength = {}
  HISTORY_LIMIT = 1
  FAILURE_LIMIT = 2
  MaxTracks = 3
  MaxOps = 8
  MaxRefusals = 1
  MaxLost = 1
INVARIANTS
  TypeOK
  NoForgottenIntent
PROPERTIES
  UnwantedIntentGoes
CHECK_DEADLOCK FALSE
