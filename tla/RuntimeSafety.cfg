SPECIFICATION Spec
CONSTANTS
  None = None
  s1 = s1
  s2 = s2
  Callers = {c1, c2}
  Statuses = {"created", "paused"}
  Drafted = {"candidate"}
  Scopes = {s1, s2}
  Challenges = {a1}
  Clients = {k1, k2}
  EvidenceIDs = {e1}
  Contents = {v1, v2}
  FindingIDs = {f1}
  Reports = {r1, r2}
  Subscribers = {u1}
  Permits <- MCPermits
  Settings <- MCSettings
  MaxVersion = 2
SYMMETRY Symmetry
INVARIANTS
  TypeOK
  DecidedOnceInTime
  FileLoads
  FindingsCiteEvidence
  ApprovalsInScope
  ReportsMoveForward
  ControlMovesForward
PROPERTIES
  ImplementsEventLog
CHECK_DEADLOCK FALSE
