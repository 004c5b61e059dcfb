SPECIFICATION Spec
CONSTANTS
  v1 = v1
  v2 = v2
  v3 = v3
  Version <- Versions
  None = None
CHECK_DEADLOCK TRUE
INVARIANTS TypeOK
PROPERTIES RemoteFileOverwriteIsKnown PassIsIdempotent
