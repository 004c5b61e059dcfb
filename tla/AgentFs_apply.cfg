SPECIFICATION Spec
CONSTANTS
  a = a  b = b  m = m  p = p  q = q  x = x
  Agents = {a, b}
  Committers = {a, b}
  Deciders = {}
  Rooted = {a, b}
  Paths = {p, q}
  Content = {x}
  Absent = Absent
  None = None
  Ids <- TwoIds
  Tokens <- TwoTokens
  Paced = TRUE
  TTL = 2
  MaxTime = 2
  MaxFaults = 1
  MaxDrift = 0
  MaxEdits = 2
INVARIANTS TypeOK SourceMatchesHead
PROPERTIES Governed
CHECK_DEADLOCK FALSE
