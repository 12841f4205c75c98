SPECIFICATION Spec
CONSTANTS
  s1 = s1
  s2 = s2
  file = file
  img = img
  sub = sub
  Root = root
  None = None
  Sessions <- TwoSessions
  Files <- OneFile
  Image <- OneImage
  NewDirs <- OneDir
  Flags <- NoAppend
  Lens <- Lens12
  Width = 4
  Limit = 1
  PageSize = 2
  MaxReqs = 4
CHECK_DEADLOCK FALSE
SYMMETRY SessionSymmetry
INVARIANT CachesOfOpenHandles
INVARIANT NoFileLeft
INVARIANT ListingIsDirectory
INVARIANT DownloadIsComplete
INVARIANT UploadsWithinLimit
PROPERTY HandlesKeep
