SPECIFICATION Spec
CONSTANTS
  None = None
  Tasks = {q, f}
  Foreground = {f}
  MaxAttempts = 2
  Faults = {}
  MaxFaults = 0
INVARIANTS
  CancelStopsAgent
CHECK_DEADLOCK FALSE
