CONSTANTS
  siteA = siteA
  Clients <- MCClients
  AllowedSites <- MCAllowed
  NoCertificate = NoCertificate
  NoDoc = NoDoc
  FedState = "UNKNOWN"
  ClusterStates <- HealthyOnly
  SigningKey = TRUE
  TTL = 9
  AgeCap = 17
  Interval = 1
  CollectMax = 2
  SendMax = 13
  FetchMax = 1
  Sending = TRUE
  Federated = FALSE
SPECIFICATION Spec
CHECK_DEADLOCK FALSE
INVARIANT SendingDoesNotDelayReadiness
