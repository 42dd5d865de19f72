SPECIFICATION Spec
CONSTANTS
  song = song
  other = other
  live = live
  alice = alice
  None = None
  Songs <- MCSongs
  Users <- MCUsers
  Streams <- MCStreams
  UnknownLength = {}
  HISTORY_LIMIT = 2
  FAILURE_LIMIT = 3
  MaxTracks = 3
  MaxRequests = 4
PROPERTIES
  PreviousKeepsEveryRequest
