SPECIFICATION Spec
CONSTANTS
  d = d  f = f  g = g
  None = None  Dir = Dir  Absent = Absent  Closed = Closed
  MaxBytes = 2
  Paths <- TwoFiles
  Chunks = {x, y}
  Handles = {h1, h2}
  Users = {o, z}
  Owners = {o}
  Root = r
  Owner = o
  GroupOf <- OwnGroups
  Modes <- OneMode
  FileMode <- Default
  DirMode <- Default
  MetadataTTL = 0
  CachesContent = TRUE
  CreatesFresh = TRUE
  MaxTroubles = 1
SYMMETRY Alike
INVARIANTS TypeOK CachedContentCurrent CacheAccounted
PROPERTIES UnracedFlushKeeps
CHECK_DEADLOCK FALSE
