SPECIFICATION FairSpec
CONSTANTS
  c1 = c1
  c2 = c2
  None = None
  Lost = Lost
  Channels <- OneChannel
  RequestKinds <- ShellKinds
  MaxMsgs = 3
  Faults <- NoFaults
CHECK_DEADLOCK FALSE
PROPERTY RecordingClosed
