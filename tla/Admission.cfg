SPECIFICATION Spec
CONSTANTS
  ann = ann
  rival = rival
  raydio = raydio
  lobby = lobby
  den = den
  everyone = everyone
  dj = dj
  guest = guest
  first = first
  second = second
  play = play
  None = None
  Users <- AllUsers
  Bot = raydio
  Bots <- AllBots
  Channels <- TwoChannels
  Roles <- ThreeRoles
  Everyone = everyone
  MAX_VOICE_MEMBERS = 3
  QUEUE_LIMIT = 2
  PLAYLIST_LIMIT = 2
  ALLOW_STREAMS = FALSE
  Suggests <- TwoSuggests
  Plays <- OnePlay
  Texts <- Words
  Lower <- LowerCase
  Answers <- Found
  SEARCHES = 1
  RESULTS = 1
  LIFETIME = 2
  Servers <- Beginnings
  Accesses <- Changed
  Powers <- Given
  MaxEvents = 3
  MaxNews = 2
SYMMETRY Symmetry
INVARIANTS
  TypeOK
  AccessFollowsDiscord
  ChoicesAreTheirs
  ResolutionKeepsPolicy
CHECK_DEADLOCK FALSE
