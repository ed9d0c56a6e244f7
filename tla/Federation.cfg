CONSTANTS
  p1 = p1
  p2 = p2
  loop = loop
  Peers <- TwoPeers
  Updaters <- NoUpdater
  FetchTimeout = 1
  Gap = 1
  MaxLost = 2
  MaxAge = 1
  TTL = 0
  AgeCap = 4
  MaxHistory = 1
SYMMETRY PeerSymmetry
SPECIFICATION FedSpec
INVARIANT HealthyIsFresh
INVARIANT TrendIsSound
INVARIANT GoneIsNoticed
INVARIANT GaugesKeepUpUntilExclusion
PROPERTY HintNeverGoesBack
PROPERTY OnlyAnAnswerReadmits
