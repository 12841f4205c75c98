SPECIFICATION FairSpec
CONSTANTS
  web = web
  mail = mail
  mirror = mirror
  Nowhere = Nowhere
  Targets <- ManyTargets
  PortMap <- OneMapped
  Modes <- AllModes
  MaxRequests = 2
  MaxBytes = 1
CONSTRAINT OneBusy
CHECK_DEADLOCK FALSE
INVARIANT CrashesHaveCause
INVARIANT TunnelsAsConfigured
PROPERTY RequestsAnswered
PROPERTY TunnelsCarry
PROPERTY CopiesEnd
