SPECIFICATION LinkSpec
CONSTANTS
  m1 = m1
  m2 = m2
  m3 = m3
  NoMessage = NoMessage
  Message <- MCMessage
  Fragments <- MCFragments
  MAX_RETRIES = 3
  MAX_CONCURRENT_GROUPS = 1
  DELIVERED_CACHE_MAX = 1
  COMPLETED_CACHE_MAX = 1
INVARIANTS
  NoReassemblyOfCompletedGroup
PROPERTY
  ImplementsOrderedDelivery
\* The manager is dropped when the peer disconnects: nothing is left to do.
CHECK_DEADLOCK FALSE
