SPECIFICATION Spec
CONSTANTS
  c1 = c1
  c2 = c2
  root = root
  testuser = testuser
  bob = bob
  None = None
  Conns <- TwoConns
  Names <- AllNames
  IdOf <- PasswdIds
  FreshIds <- FewIds
  Chans <- OneChan
  MaxTries = 3
  Configs <- AllConfigs
CHECK_DEADLOCK FALSE
INVARIANT OnlyAdmitted
INVARIANT RetryKeepsPromise
INVARIANT TriesUsedUp
 
INVARIANT PasswdStays
INVARIANT WhoAmI
