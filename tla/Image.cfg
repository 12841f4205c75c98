SPECIFICATION FairSpec
CONSTANTS
  Disks <- ManyDisks
  Starts <- TwoStarts
  Skips <- FewSkips
  Failures <- OneFails
  Archives <- ManyArchives
  Names <- ThreeNames
  Up <- UpName
  Prefixed <- OnePrefix
  MaxLen = 3
  MaxStack = 5
  MaxRewrites = 8
CHECK_DEADLOCK FALSE
INVARIANT EntriesKept
INVARIANT ImageIsDisk
INVARIANT LookupsResolve
INVARIANT DownHasCause
PROPERTY LookupsEnd
