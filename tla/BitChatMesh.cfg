SPECIFICATION FairSpec
CONSTANTS
  a = a
  b = b
  c = c
  chat = chat
  voice = voice
  long = long
  Nodes = {a, b, c}
  Messages = {chat, voice}
  Links <- MCLinks
  FirstRoutes <- MCFirstRoutes
  Sender <- MCSender
  Destination <- MCDestination
  Kind <- MCKind
  Fragments <- MCFragments
  Discovered <- MCDiscovered
  Broadcast = Broadcast
  None = None
  DefaultTtl = 3
  DedupMaxEntries = 2
  MaxFaults = 1
INVARIANTS
  DeliveredOnce
  SentIsSomewhere
PROPERTIES
  FloodDiesOut
  SentReachesAddressees
CHECK_DEADLOCK FALSE
