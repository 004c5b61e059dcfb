SPECIFICATION Spec
CONSTANTS
  d = d  f = f  g = g
  None = None  Dir = Dir  Absent = Absent  Closed = Closed
  MaxBytes = 1
  Paths <- DeepTree
  Chunks = {x}
  Handles = {h1}
  Users = {o}
  Owners = {o}
  Root = r
  Owner = o
  GroupOf <- OwnGroups
  Modes <- OneMode
  FileMode <- Default
  DirMode <- Default
  MetadataTTL = 1
  CachesContent = FALSE
  CreatesFresh = TRUE
  MaxTroubles = 0

INVARIANTS StatsCurrent ListingsCurrent
CHECK_DEADLOCK FALSE
