SPECIFICATION ScpSpec
CONSTANTS
  f1 = f1
  d1 = d1
  d2 = d2
  FileNames <- OneFile
  DirNames <- TwoDirs
  Sizes <- ManySizes
  Limit = 2
  MaxMsgs = 5
  Trees <- ManyTrees
  Prefixed <- OnePrefix
CHECK_DEADLOCK FALSE
INVARIANT StoredFilesAreThere
INVARIANT RepliesInTurn
INVARIANT FilesWithinLimit
INVARIANT FilesInPlace
INVARIANT AllArrived
PROPERTY CommandsAnswered
PROPERTY SinkReturns
PROPERTY SourceReturns
