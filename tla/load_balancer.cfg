\* Three conversations, a cache with room for two, two servers.
SPECIFICATION Spec
CONSTANTS
  Conversations = {a, b, c}
  Servers = {s1, s2}
  NoServer = NoServer
  MaxCacheSize = 2
  MaxPoolChanges = 2
INVARIANTS
  LoadIsTrue
PROPERTIES
  TurnsStay
  NewGoesLeastLoaded
  AskingEnds
