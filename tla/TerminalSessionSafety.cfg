SPECIFICATION Spec
CONSTANTS
  None = None
  Sessions = {t1}
  Clients = {k1}
  ScopeIDs = {s1}
  MaxRevision = 2
  OutputLimit = 2
  Typed = 1
  InputRoom = 1
  OutputRoom = 2
  Faults = {"refused", "unsynced"}
  MaxFaults = 1
  MaxOutput = 2
  MaxInputs = 1
INVARIANTS
  TypeOK
  LogFollowsSession
  NoOrphans
PROPERTIES
  InputUnderAuthority
  EndedSessionsLeave
  CloseTerminates
CHECK_DEADLOCK FALSE
