SPECIFICATION Spec
CONSTANTS
  m1 = m1  m2 = m2  a = a  b = b  p = p  l = l  k = k
  Machines = {m1, m2}
  Names = {a, b}
  None = None
  Profiles = {p}
  MayCreate <- Policy
  Labels = {l, k}
  Paths = {x}
  Local = {m1}
  CreatesApart = TRUE
  MaxFs = 2
  MaxGrants = 4
  MaxShares = 1
  MaxCommits = 1
  MaxFaults = 1
SYMMETRY Symmetry
INVARIANTS TypeOK OneActiveGrant SeparationOfDuty EventsReplay NoDanglingRows AuditExplains SourceOwned IdentitiesHold
CHECK_DEADLOCK FALSE
