CONSTANTS
  siteA = siteA
  Clients <- MCClients
  AllowedSites <- MCAllowed
  NoCertificate = NoCertificate
  NoDoc = NoDoc
  FedState = "UNKNOWN"
  ClusterStates <- LiveStates
  SigningKey = TRUE
  TTL = 1
  AgeCap = 3
  Interval = 1
  CollectMax = 1
  SendMax = 1
  FetchMax = 1
  Sending = FALSE
  Federated = FALSE
SPECIFICATION FairSpec
CHECK_DEADLOCK FALSE
PROPERTY KeepsPublishing
