CONSTANTS
  p1 = p1
  p2 = p2
  u1 = u1
  u2 = u2
  loop = loop
  Peers <- TwoPeers
  Updaters <- NoUpdater
  FetchTimeout = 1
  Gap = 1
  MaxLost = 1
  MaxAge = 2
  TTL = 0
  AgeCap = 4
  MaxHistory = 1
SPECIFICATION Spec
INVARIANT GaugesKeepUp
