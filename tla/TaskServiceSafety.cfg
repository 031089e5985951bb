SPECIFICATION Spec
CONSTANTS
  None = None
  Tasks = {q, f}
  Foreground = {f}
  MaxAttempts = 2
  Faults = {"board", "queue", "restart", "neighbour"}
  MaxFaults = 1
INVARIANTS
  TypeOK
  ReportedIsOnBoard
  UnsettledHasOwner
PROPERTIES
  StartedOnce
  UsesDurableWork
  CloseTerminates
  JobsAreSettled
CHECK_DEADLOCK FALSE
