CONSTANTS
  Files <- MCFiles
  MaxCrashes = 1
SPECIFICATION FairSpec
INVARIANT TypeOK
INVARIANT SwitchesAreIndependent
INVARIANT StaysDownOnlyWhenAsked
PROPERTY LoopEndsFirst
PROPERTY NothingLeftBehind
PROPERTY LivesAsASite
PROPERTY StopIsObeyed
PROPERTY RecoversOnceInOrder
