SPECIFICATION Spec
CONSTANTS
  None = None
  Sessions = {t1}
  Clients = {k1}
  ScopeIDs = {s1}
  MaxRevision = 1
  OutputLimit = 4
  Typed = 2
  InputRoom = 1
  OutputRoom = 1
  Faults = {}
  MaxFaults = 0
  MaxOutput = 2
  MaxInputs = 1
PROPERTIES
  CommandsEnd
CHECK_DEADLOCK FALSE
