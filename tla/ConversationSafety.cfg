SPECIFICATION Spec
CONSTANTS
  None = None
  c1 = c1
  c2 = c2
  Callers <- MCCallers
  Calls <- MCCalls
  KeepRecent = 1
  MaxMessages = 3
  MinCheckpoint = 3
  MaxFaults = 1
INVARIANTS
  TypeOK
  HistoryIsSaved
  RoundsAreWhole
  SessionLoads
PROPERTIES
  ShutdownTerminates
CHECK_DEADLOCK FALSE
