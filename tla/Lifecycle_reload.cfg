CONSTANTS
  Files <- MCFiles
  MaxCrashes = 1
SPECIFICATION Spec
INVARIANT ReloadKeepsRunning
