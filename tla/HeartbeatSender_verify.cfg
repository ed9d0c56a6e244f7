CONSTANTS
  p1 = p1
  p2 = p2
  Peers <- MCPeers
  TLS = TRUE
  RetryCount = 1
  Timeout = 2
  Slow <- MCSlow
  MaxWaits = 1
  Backoff <- MCBackoff
  MaxRounds = 1
SPECIFICATION Spec
CHECK_DEADLOCK FALSE
INVARIANT HeartbeatsVerify
