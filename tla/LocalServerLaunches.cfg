SPECIFICATION Spec
CONSTANTS
  None = None
  Servers = {p}
  Creates = {new1}
  Mutations = {}
  Faults = {"exit"}
  KeysPerLaunch = TRUE
  MaxOps = 2
  MaxTasks = 2
  MaxEffects = 4
INVARIANT
  AcceptedMeansExecuted
CHECK_DEADLOCK FALSE
