CONSTANTS
  p1 = p1
  p2 = p2
  Peers <- MCPeers
  TLS = TRUE
  RetryCount = 1
  Timeout = 1
  Slow <- MCSlow
  MaxWaits = 2
  Backoff <- MCBackoff
  MaxRounds = 2
SPECIFICATION FairSpec
CHECK_DEADLOCK FALSE
INVARIANT TypeOK
INVARIANT VerdictIsEarned
INVARIANT NeverUnsigned
INVARIANT RoundIsBounded
PROPERTY ImplementsRound
PROPERTY RoundEnds
