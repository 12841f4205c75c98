SPECIFICATION FairSpec
CONSTANTS
  c1 = c1
  c2 = c2
  None = None
  Lost = Lost
  Channels <- OneChannel
  RequestKinds <- AllKinds
  MaxMsgs = 4
  Faults <- NoFaults
CHECK_DEADLOCK FALSE
INVARIANT ExitStatusIsOutcome
INVARIANT StuckHasCause
PROPERTY KeepsContractFairly
PROPERTY FilesReleased
PROPERTY ScpReturns
