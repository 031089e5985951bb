SPECIFICATION Spec
CONSTANTS
  None = None
  Drafts = {d1, d2}
  Texts = {v1, v2, v3}
  Clients = {k1, k2}
  ScopeIDs = {s1}
  MaxRevision = 2
  MaxSaves = 2
  MaxFaults = 2
SYMMETRY Symmetry
INVARIANTS
  TypeOK
  AppliedIsWritten
  LeftoverMeansCrash
PROPERTIES
  PatchesAreExact
CHECK_DEADLOCK FALSE
