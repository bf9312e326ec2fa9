SPECIFICATION FairSpec
CONSTANTS
  m1 = m1
  m2 = m2
  m3 = m3
  NoMessage = NoMessage
  Message <- MCMessage
  Fragments <- MCFragments
  MAX_RETRIES = 3
INVARIANTS
  LoopMatchesFlag
  QueuedWaitsBehindActive
  ActiveIsDriven
  RetransmissionsAreBounded
PROPERTIES
  RetransmitsOnlyUnackedActive
  ActiveEventuallySettles
\* The manager is dropped when the peer disconnects: nothing is left to do.
CHECK_DEADLOCK FALSE
