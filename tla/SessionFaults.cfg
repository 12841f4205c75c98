SPECIFICATION Spec
CONSTANTS
  c1 = c1
  c2 = c2
  None = None
  Lost = Lost
  Channels <- TwoChannels
  RequestKinds <- PairKinds
  MaxMsgs = 2
  Faults <- AllFaults
SYMMETRY Symmetry
CHECK_DEADLOCK FALSE
INVARIANT CrashHasCause
PROPERTY KeepsContract
