SPECIFICATION FairSpec
CONSTANTS
  d = d
  f = f
  g = g
  c1 = c1
  c2 = c2
  Paths <- SmallTree
  DirPaths <- OneDir
  Above <- TreeAbove
  Content <- TwoContents
  Partial = Partial
  Absent = Absent
  Directory = Directory
  None = None
  HasTokens = TRUE
  Alone = TRUE
  Quiet = {"pass", "resolve"}
  MaxEdits = 4
  MaxFaults = 1
CHECK_DEADLOCK TRUE
INVARIANTS TypeOK ReadyRecordsAgree BaseWasHeld
PROPERTIES LocalBytesSurvive  Settles
