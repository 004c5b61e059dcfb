SPECIFICATION FairSpec
CONSTANTS
  a = a  b = b  m = m  p = p  q = q  x = x
  Agents = {a, m}
  Committers = {a, m}
  Deciders = {m}
  Rooted = {a}
  Paths = {p}
  Content = {x}
  Absent = Absent
  None = None
  Ids <- TwoIds
  Tokens <- TwoTokens
  Paced = TRUE
  TTL = 1
  MaxTime = 1
  MaxFaults = 1
  MaxDrift = 1
  MaxEdits = 1
INVARIANTS CommitsOnlyEdits EventsComplete
PROPERTIES NoLostUpdate AppliedHeadRecovers
CHECK_DEADLOCK FALSE
