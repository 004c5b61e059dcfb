SPECIFICATION Spec
CONSTANTS
  d = d
  f = f
  g = g
  c1 = c1
  c2 = c2
  Paths <- OneFile
  DirPaths <- NoDirs
  Above <- FlatAbove
  Content <- TwoContents
  Partial = Partial
  Absent = Absent
  Directory = Directory
  None = None
  HasTokens = FALSE
  Alone = TRUE
  Quiet = {"pass"}
  MaxEdits = 4
  MaxFaults = 1
CHECK_DEADLOCK TRUE
INVARIANTS CachesFaithful WatchHonest
