SPECIFICATION FairSpec
CONSTANTS
  a = a
  b = b
  c = c
  chat = chat
  voice = voice
  long = long
  Nodes = {a, b, c}
  Messages = {long}
  Links <- MCLinks
  FirstRoutes <- MCFirstRoutes
  Sender <- MCSender
  Destination <- MCDestination
  Kind <- MCKind
  Fragments <- MCFragments
  Discovered <- MCDiscovered
  Broadcast = Broadcast
  None = None
  DefaultTtl = 3
  DedupMaxEntries = 4
  MaxFaults = 0
PROPERTIES
  LongVoiceIsReassembled
CHECK_DEADLOCK FALSE
