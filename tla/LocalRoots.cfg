SPECIFICATION Spec
CONSTANTS
  away = away  top = top  sub = sub
  None = None  Free = Free
  Sources = {s, t}
  Filesystems = {t}
  Buckets = {b1, b2}
  Shared = shared
  Roots = {away, top, sub}
  Near <- Nested
  Commands = {c1}
  DiesAt = {"check", "set", "mark", "reset", "pass", "mount", "unmark", "undo mark", "undo set", "undo clear"}
  AddsNew = TRUE
  MaxDeaths = 1
INVARIANTS RootsApart RecordsAgree SharedIsGoverned
PROPERTIES PassesOnOwnRows
CHECK_DEADLOCK FALSE
