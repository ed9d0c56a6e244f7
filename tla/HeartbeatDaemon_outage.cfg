CONSTANTS
  siteA = siteA
  Clients <- MCClients
  AllowedSites <- MCAllowed
  NoCertificate = NoCertificate
  NoDoc = NoDoc
  FedState = "UNKNOWN"
  ClusterStates <- SaneStates
  SigningKey = TRUE
  TTL = 1
  AgeCap = 3
  Interval = 1
  CollectMax = 1
  SendMax = 1
  FetchMax = 1
  Sending = TRUE
  Federated = TRUE
SPECIFICATION Spec
CHECK_DEADLOCK FALSE
INVARIANT OutageIsReported
