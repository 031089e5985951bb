SPECIFICATION Spec
CONSTANTS
  None = None
  Servers = {p}
  Creates = {new1}
  Mutations = {pause}
  Faults = {"exit", "lost save", "late error", "refused", "unsynced"}
  KeysPerLaunch = FALSE
  MaxOps = 2
  MaxTasks = 2
  MaxEffects = 4
INVARIANTS
  TypeOK
PROPERTIES
  KeepsLedger
  SavedTasksAreNotReused
CHECK_DEADLOCK FALSE
