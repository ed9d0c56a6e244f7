CONSTANTS
  p1 = p1
  p2 = p2
  u1 = u1
  u2 = u2
  loop = loop
  Peers <- OnePeer
  Updaters <- TwoUpdaters
  FetchTimeout = 1
  Gap = 0
  MaxLost = 0
  MaxAge = 0
  TTL = 0
  AgeCap = 2
  MaxHistory = 1
SPECIFICATION FairSpec
INVARIANT TypeOK
INVARIANT FailuresBounded
INVARIANT HistoryIsBounded
INVARIANT SilentAfterClose
PROPERTY FetchEnds
PROPERTY UpdaterIsServed
