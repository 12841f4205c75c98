SPECIFICATION Spec
CONSTANTS
  c1 = c1
  c2 = c2
  None = None
  Lost = Lost
  Channels <- TwoChannels
  RequestKinds <- ShellKinds
  MaxMsgs = 2
  Faults <- NoFaults
CHECK_DEADLOCK FALSE
INVARIANT OwnChannel
