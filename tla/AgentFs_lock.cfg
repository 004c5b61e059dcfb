SPECIFICATION Spec
CONSTANTS
  a = a  b = b  m = m  p = p  q = q  x = x
  Agents = {a, b}
  Committers = {a, b}
  Deciders = {}
  Rooted = {a, b}
  Paths = {p}
  Content = {x}
  Absent = Absent
  None = None
  Ids <- TwoIds
  Tokens <- TwoTokens
  Paced = FALSE
  TTL = 1
  MaxTime = 0
  MaxFaults = 0
  MaxDrift = 0
  MaxEdits = 2
PROPERTIES HeadAdvances
CHECK_DEADLOCK FALSE
