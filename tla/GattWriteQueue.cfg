SPECIFICATION FairSpec
CONSTANTS
  c1 = c1
  s1 = s1
  t1 = t1
  t2 = t2
  NoKey = NoKey
  ClientConn = {c1}
  ServerPeer = {s1}
  Thread = {t1, t2}
  MaxWrites = 3
  MaxReconnects = 1
  MaxStops = 1
\* links may stay down and every write be used up
CHECK_DEADLOCK FALSE
INVARIANTS NothingIsStranded CallbackOnce OrderIsKept OneWriteInTheAir NoFalseSuccess
PROPERTY LiveLinkSettles
