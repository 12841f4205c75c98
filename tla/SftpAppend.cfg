SPECIFICATION Spec
CONSTANTS
  s1 = s1
  s2 = s2
  file = file
  img = img
  sub = sub
  Root = root
  None = None
  Sessions <- OneSession
  Files <- OneFile
  Image <- OneImage
  NewDirs <- OneDir
  Flags <- AppendOnly
  Lens <- Lens12
  Width = 8
  Limit = 2
  PageSize = 1
  MaxReqs = 3
CHECK_DEADLOCK FALSE
INVARIANT UploadsWithinLimit
