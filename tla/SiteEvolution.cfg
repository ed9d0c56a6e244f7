CONSTANTS
  FedState = "UNKNOWN"
  TotalNodes = 5
  JobLevels <- MCJobLevels
  PartitionTables <- MCPartitionTables
SPECIFICATION Spec
INVARIANT ReadyIsJustified
PROPERTY NodeLossNeverHelps
PROPERTY DemandNeverRelieves
PROPERTY WaitFollowsLoad
